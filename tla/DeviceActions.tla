---------------------------- MODULE DeviceActions ----------------------------
(***************************************************************************)
(* The actions that read or rewrite a whole speaker: backup, restore, EQ   *)
(* reset and factory reset (button.py, eq.py, export_actions.py,           *)
(* backup_export.py).  They exclude one another by the coordinator's       *)
(* action_lock, but not the entity writes, the CONTROL switch on the back  *)
(* of the speaker, other software, or a power cycle.                       *)
(*                                                                         *)
(* Each step is one request: the client's lock makes it atomic for the     *)
(* others (SSCClient.tla), and they may come between any two.  A reply     *)
(* that clamps a value counts like one that confirms it.                   *)
(***************************************************************************)
EXTENDS Integers, Sequences

CONSTANTS
    Mutes,          \* the restorable mute paths (_MUTE_PATHS)
    Gain, Boost,    \* the two leaves of an EQ container that its reset writes
    Others,         \* the other restorable paths (levels, delays, ...)
    ControlMode,    \* ui/control_mode: read by a backup, never restored
    ReadOrder,      \* known_paths_for_model(), without the live readings
    AllowlistOrder, \* restorable_paths_for_model()
    NeedsSave,      \* a model that keeps its settings only when told to (KH 80)
    MaxPresses,     \* bound: presses of the buttons, plus entity writes
    MaxEvents,      \* bound: switch flips, outside changes, power cycles, restarts
    MaxFaults       \* bound: requests or file operations that fail

Restorable == Mutes \cup {Gain, Boost} \cup Others

ASSUME PathsAssumption ==
    /\ Gain # Boost
    /\ {Gain, Boost} \cap (Mutes \cup Others) = {}
    /\ Mutes \cap Others = {}
    /\ ControlMode \notin Restorable
    /\ AllowlistOrder \in Seq(Restorable)
    /\ \A p \in Restorable : \E i \in 1..Len(AllowlistOrder) : AllowlistOrder[i] = p
    /\ ReadOrder \in Seq(Restorable \cup {ControlMode})

ASSUME BoundsAssumption ==
    /\ NeedsSave \in BOOLEAN
    /\ MaxPresses \in Nat /\ MaxEvents \in Nat /\ MaxFaults \in Nat

\* `on' is muted for a mute path and any setting but the default elsewhere; a
\* speaker on LOCAL reports `local' instead of what it has stored.
Values == {"off", "on", "local"}
Absent == "absent"     \* None: nothing at that path of a tree
Modes  == {"NETWORK", "LOCAL"}

Snapshots == [Restorable -> Values \cup {Absent}]
NoValues  == [p \in Restorable |-> Absent]

\* A backup record, with what the properties ask about the time it was read.
Records  == [id: Nat, values: Snapshots, mode: Modes \cup {Absent},
             torn: BOOLEAN, readOn: SUBSET Modes]
NoRecord == [id |-> 0, values |-> NoValues, mode |-> Absent, torn |-> FALSE, readOn |-> {}]

VARIABLES
    settings, flash, mode,             \* the speaker
    lock,                              \* coordinator.action_lock: who has it
    bk, bkTodo, snapshot, modeRead,    \* a backup under way
    exported, stored,                  \* the export file, the store
    armed,                             \* the restore button's _armed_backup
    rs, rsTodo, plan, landed, unsure,  \* a restore under way
    eq,                                \* an EQ reset under way
    fr,                                \* a factory reset under way
    wr, wrPath, wrValue,               \* an entity write under way
    presses, events, faults,           \* used-up bounds
    backups,                           \* history: how many backups were begun
    torn, readOn,                      \* history of the backup under way: an
                                       \* action wrote meanwhile; modes it met
    attempted, astray,                 \* history: paths the restore has tried; of
                                       \* those, the ones refused, not confirmed
                                       \* or changed by somebody else since
    unsaved, cutShort                  \* history: confirmed writes neither saved
                                       \* nor reported unsaved; an action stopped

speaker  == <<settings, flash, mode>>
backupV  == <<bk, bkTodo, snapshot, modeRead, backups, torn, readOn>>
filesV   == <<exported, stored>>
restoreV == <<rs, rsTodo, plan, landed, unsure, attempted, astray>>
writeV   == <<wr, wrPath, wrValue>>
boundsV  == <<presses, events, faults>>
historyV == <<unsaved, cutShort>>
vars == <<speaker, lock, backupV, filesV, armed, restoreV, eq, fr, writeV, boundsV, historyV>>

Writers == {"restore", "eq", "entity"}
Owners  == {"nobody", "backup", "restore", "eq", "factory"}

TypeOK ==
    /\ settings \in [Restorable -> Values]
    /\ flash \in [Restorable -> Values]
    /\ mode \in Modes
    /\ lock \in Owners
    /\ bk \in {"idle", "read", "file", "store"}
    /\ bkTodo \in Seq(Restorable \cup {ControlMode})
    /\ snapshot \in Snapshots
    /\ modeRead \in Modes \cup {Absent}
    /\ {exported, stored, armed, plan} \subseteq Records
    /\ rs \in {"idle", "write", "persist"}
    /\ rsTodo \in Seq(Restorable)
    /\ landed \in BOOLEAN /\ unsure \in BOOLEAN
    /\ eq \in {"idle", "gain", "boost", "persist"}
    /\ fr \in {"idle", "send"}
    /\ wr \in {"idle", "send", "persist"}
    /\ wrPath \in Restorable /\ wrValue \in Values
    /\ presses \in 0..MaxPresses /\ events \in 0..MaxEvents /\ faults \in 0..MaxFaults
    /\ backups \in Nat
    /\ torn \in BOOLEAN /\ readOn \subseteq Modes
    /\ attempted \subseteq Restorable /\ astray \subseteq Restorable
    /\ unsaved \subseteq Writers \X Restorable
    /\ cutShort \in BOOLEAN

Init ==
    /\ settings \in [Restorable -> {"off", "on"}]
    /\ flash = settings
    /\ mode = "NETWORK"
    /\ lock = "nobody"
    /\ bk = "idle" /\ bkTodo = <<>> /\ snapshot = NoValues /\ modeRead = Absent
    /\ exported = NoRecord /\ stored = NoRecord
    /\ armed = NoRecord
    /\ rs = "idle" /\ rsTodo = <<>> /\ plan = NoRecord /\ landed = FALSE /\ unsure = FALSE
    /\ eq = "idle" /\ fr = "idle"
    /\ wr = "idle" /\ wrPath = Gain /\ wrValue = "off"
    /\ presses = 0 /\ events = 0 /\ faults = 0
    /\ backups = 0 /\ torn = FALSE /\ readOn = {}
    /\ attempted = {} /\ astray = {}
    /\ unsaved = {} /\ cutShort = FALSE

Press == presses < MaxPresses /\ presses' = presses + 1 /\ UNCHANGED <<events, faults>>
Event == events < MaxEvents /\ events' = events + 1 /\ UNCHANGED <<presses, faults>>
Fault == faults < MaxFaults /\ faults' = faults + 1 /\ UNCHANGED <<presses, events>>

(***************************************************************************)
(* The speaker: its switch, other software, its memory, and one request.   *)
(***************************************************************************)

Reported(p) == IF mode = "LOCAL" THEN "local" ELSE settings[p]

\* A speaker that needs no saving keeps every change at once.
Stores(new) == settings' = new /\ flash' = IF NeedsSave THEN flash ELSE new

SwitchFlips ==
    /\ Event
    /\ mode' \in Modes \ {mode}
    /\ UNCHANGED <<settings, flash, lock, backupV, filesV, armed, restoreV, eq, fr, writeV, historyV>>

\* Somebody else changes settings while a restore may be under way.
Disturbs ==
    /\ astray' = astray \cup {p \in attempted : settings'[p] # settings[p]}
    /\ UNCHANGED <<rs, rsTodo, plan, landed, unsure, attempted>>

OutsideChange(p, v) ==
    /\ Event
    /\ Stores([settings EXCEPT ![p] = v])
    /\ Disturbs
    /\ UNCHANGED <<mode, lock, backupV, filesV, armed, eq, fr, writeV, historyV>>

\* What was neither saved nor reported is no longer on the speaker to be saved.
PowerCycle ==
    /\ Event
    /\ settings' = flash
    /\ unsaved' = {}
    /\ Disturbs
    /\ UNCHANGED <<flash, mode, lock, backupV, filesV, armed, eq, fr, writeV, cutShort>>

\* A set request of writer w, by its outcome.  "confirmed": stored and echoed.
\* "unconfirmed", "lost": no echo, or no answer at all, stored or not.  "refused":
\* the path.  "local": error 401, every set is refused.
SetRequest(w, p, v, outcome) ==
    /\ \/ outcome = "local" /\ mode = "LOCAL" /\ UNCHANGED <<settings, flash, boundsV>>
       \/ /\ mode = "NETWORK"
          /\ \/ /\ outcome = "confirmed"
                /\ Stores([settings EXCEPT ![p] = v]) /\ UNCHANGED boundsV
             \/ outcome = "refused" /\ Fault /\ UNCHANGED <<settings, flash>>
       \/ /\ outcome \in {"unconfirmed", "lost"} /\ Fault
          /\ \/ UNCHANGED <<settings, flash>>
             \/ mode = "NETWORK" /\ Stores([settings EXCEPT ![p] = v])
    /\ unsaved' = IF outcome = "confirmed" THEN unsaved \cup {<<w, p>>} ELSE unsaved
    /\ torn' = (torn \/ (bk = "read" /\ w # "entity" /\ settings' # settings))
    /\ UNCHANGED mode

\* async_persist() by writer w: saved, or the user is told that it is not.
Persisted(w) ==
    \/ ~NeedsSave /\ UNCHANGED <<flash, boundsV>> /\ unsaved' = {}
    \/ NeedsSave /\ mode = "NETWORK" /\ flash' = settings /\ UNCHANGED boundsV /\ unsaved' = {}
    \/ NeedsSave /\ mode = "LOCAL" /\ UNCHANGED <<flash, boundsV>>
       /\ unsaved' = {u \in unsaved : u[1] # w}
    \/ NeedsSave /\ Fault /\ flash' \in {flash, settings}
       /\ unsaved' = {u \in unsaved : u[1] # w}

(***************************************************************************)
(* The lock.                                                               *)
(***************************************************************************)

\* claim_device(): a second action is refused, it does not queue.
Claimed(me) == lock = "nobody" /\ lock' = me

Released(me) == lock' = IF lock = me THEN "nobody" ELSE lock

(***************************************************************************)
(* Backup.                                                                 *)
(***************************************************************************)

BackupPressed ==
    /\ Press /\ bk = "idle"
    /\ Claimed("backup")
    /\ bk' = "read"
    /\ bkTodo' = ReadOrder
    /\ snapshot' = NoValues /\ modeRead' = Absent
    /\ backups' = backups + 1 /\ torn' = FALSE /\ readOn' = {}
    /\ UNCHANGED <<speaker, filesV, armed, restoreV, eq, fr, writeV, historyV>>

EndBackup ==
    /\ bk' = "idle" /\ bkTodo' = <<>>
    /\ snapshot' = NoValues /\ modeRead' = Absent
    /\ torn' = FALSE /\ readOn' = {}
    /\ Released("backup")
    /\ UNCHANGED backups

\* async_read_paths(): one get per path; a refused path is skipped.
BackupReads ==
    /\ bk = "read" /\ bkTodo # <<>>
    /\ LET p == Head(bkTodo) IN
         \/ /\ IF p = ControlMode
               THEN modeRead' = mode /\ UNCHANGED snapshot
               ELSE snapshot' = [snapshot EXCEPT ![p] = Reported(p)] /\ UNCHANGED modeRead
            /\ readOn' = readOn \cup {mode}
            /\ UNCHANGED boundsV
         \/ Fault /\ UNCHANGED <<snapshot, modeRead, readOn>>
    /\ bkTodo' = Tail(bkTodo)
    /\ UNCHANGED <<speaker, lock, bk, backups, torn, filesV, armed, restoreV, eq, fr, writeV, historyV>>

\* A lost connection or the time limit: a partial snapshot is no snapshot.
BackupAborts ==
    /\ bk = "read" /\ Fault
    /\ EndBackup
    /\ UNCHANGED <<speaker, filesV, armed, restoreV, eq, fr, writeV, historyV>>

\* It can restore something, and was not read off a speaker on LOCAL.
WorthKeeping == /\ \E p \in Restorable : snapshot[p] # Absent
                /\ modeRead # "LOCAL"

\* MUTANT: the control mode is not looked at.
AnySnapshot == \E p \in Restorable : snapshot[p] # Absent

Acceptable == WorthKeeping

BackupChecked ==
    /\ bk = "read" /\ bkTodo = <<>>
    /\ IF Acceptable
       THEN bk' = "file" /\ UNCHANGED <<lock, bkTodo, snapshot, modeRead, backups, torn, readOn>>
       ELSE EndBackup
    /\ UNCHANGED <<speaker, filesV, armed, restoreV, eq, fr, writeV, boundsV, historyV>>

ThisRecord ==
    [id |-> backups, values |-> snapshot, mode |-> modeRead, torn |-> torn, readOn |-> readOn]

\* async_write_export(): the file is replaced whole or not at all.
BackupWritesFile ==
    /\ bk = "file"
    /\ \/ /\ exported' = ThisRecord /\ bk' = "store"
          /\ UNCHANGED <<lock, bkTodo, snapshot, modeRead, backups, torn, readOn, boundsV>>
       \/ Fault /\ EndBackup /\ UNCHANGED exported
    /\ UNCHANGED <<speaker, stored, armed, restoreV, eq, fr, writeV, historyV>>

\* MUTANT: the store first, then the file, as far as this order can be undone.
StoredBeforeFile == bk \in {"file", "store"}

StoreIsNext == bk = "store"

BackupStores ==
    /\ StoreIsNext
    /\ \/ stored' = ThisRecord /\ UNCHANGED boundsV
       \/ Fault /\ UNCHANGED stored
    /\ EndBackup
    /\ UNCHANGED <<speaker, exported, armed, restoreV, eq, fr, writeV, historyV>>

(***************************************************************************)
(* Restore.                                                                *)
(***************************************************************************)

\* The first press of a pair, or one outside the window (async_check_restorable).
RestoreArmed ==
    /\ Press
    /\ stored # NoRecord
    /\ armed' = stored
    /\ UNCHANGED <<speaker, lock, backupV, filesV, restoreV, eq, fr, writeV, historyV>>

\* The paths of the allowlist that are in S, in the allowlist's order.
Listed(S) ==
    LET upTo[n \in 0..Len(AllowlistOrder)] ==
          IF n = 0 THEN <<>>
          ELSE IF AllowlistOrder[n] \in S
          THEN Append(upTo[n - 1], AllowlistOrder[n])
          ELSE upTo[n - 1]
    IN  upTo[Len(AllowlistOrder)]

\* MUTANT: the allowlist's own order.
InAllowlistOrder(record) == AllowlistOrder

\* MUTANT: every path a backup reads is written back.
KnownPathsOrder(record) == ReadOrder

\* _write_order(): mute before any level, unmute after every level.
WriteOrder(record) ==
    LET muting   == {p \in Mutes : record.values[p] = "on"}
        unmuting == Mutes \ muting
        rest     == Restorable \ Mutes
    IN  Listed(muting) \o Listed(rest) \o Listed(unmuting)

\* The confirming press: it restores the record that was armed.
RestorePressed ==
    /\ Press /\ rs = "idle"
    /\ armed # NoRecord
    /\ armed' = NoRecord
    /\ \/ /\ Claimed("restore")
          /\ rs' = "write"
          /\ plan' = armed
          /\ rsTodo' = WriteOrder(armed)
          /\ landed' = FALSE /\ unsure' = FALSE /\ attempted' = {} /\ astray' = {}
       \/ lock # "nobody" /\ UNCHANGED <<lock, restoreV>>
    /\ UNCHANGED <<speaker, backupV, filesV, eq, fr, writeV, historyV>>

EndRestore ==
    /\ rs' = "idle" /\ rsTodo' = <<>> /\ plan' = NoRecord
    /\ landed' = FALSE /\ unsure' = FALSE /\ attempted' = {} /\ astray' = {}
    /\ Released("restore")

RestoreSkips ==
    /\ rs = "write" /\ rsTodo # <<>>
    /\ plan.values[Head(rsTodo)] = Absent
    /\ rsTodo' = Tail(rsTodo)
    /\ UNCHANGED <<speaker, lock, backupV, filesV, armed, rs, plan, landed, unsure, attempted,
                   astray, eq, fr, writeV, boundsV, historyV>>

RestoreWrites ==
    /\ rs = "write" /\ rsTodo # <<>>
    /\ plan.values[Head(rsTodo)] # Absent
    /\ \E outcome \in {"confirmed", "unconfirmed", "refused", "lost", "local"} :
         /\ SetRequest("restore", Head(rsTodo), plan.values[Head(rsTodo)], outcome)
         /\ IF outcome \in {"lost", "local"}
            THEN EndRestore /\ cutShort' = TRUE    \* _stop(): what landed stays
            ELSE /\ rsTodo' = Tail(rsTodo)
                 /\ landed' = (landed \/ outcome = "confirmed")
                 /\ unsure' = (unsure \/ outcome = "unconfirmed")
                 /\ attempted' = attempted \cup {Head(rsTodo)}
                 /\ astray' = IF outcome = "confirmed" THEN astray \ {Head(rsTodo)}
                              ELSE astray \cup {Head(rsTodo)}
                 /\ UNCHANGED <<rs, plan, lock, cutShort>>
    /\ UNCHANGED <<bk, bkTodo, snapshot, modeRead, backups, readOn, filesV, armed, eq, fr, writeV>>

\* The time limit, looked at before each path.
RestoreTimesOut ==
    /\ rs = "write" /\ rsTodo # <<>> /\ Fault
    /\ EndRestore /\ cutShort' = TRUE
    /\ UNCHANGED <<speaker, backupV, filesV, armed, eq, fr, writeV, unsaved>>

\* MUTANT: a restore with an unconfirmed write is not saved.
SavedIfCertain == landed /\ ~unsure

SomethingWritten == landed \/ unsure

\* The loop is done: everything refused is an error, anything else is saved.
RestoreFinishes ==
    /\ rs = "write" /\ rsTodo = <<>>
    /\ IF SomethingWritten
       THEN rs' = "persist" /\ UNCHANGED <<lock, rsTodo, plan, landed, unsure, attempted, astray>>
       ELSE EndRestore
    /\ UNCHANGED <<speaker, backupV, filesV, armed, eq, fr, writeV, boundsV, historyV>>

RestorePersists ==
    /\ rs = "persist"
    /\ Persisted("restore")
    /\ EndRestore
    /\ UNCHANGED <<settings, mode, backupV, filesV, armed, eq, fr, writeV, cutShort>>

(***************************************************************************)
(* EQ reset, factory reset, entity writes.                                 *)
(***************************************************************************)

\* MUTANT: as it was once, the EQ reset is outside the lock.
UnlockedEq == UNCHANGED lock

EqClaimed == Claimed("eq")

EqResetPressed ==
    /\ Press /\ eq = "idle"
    /\ EqClaimed
    /\ eq' = "gain"
    /\ UNCHANGED <<speaker, backupV, filesV, armed, restoreV, fr, writeV, historyV>>

EqResetWrites ==
    /\ eq \in {"gain", "boost"}
    /\ \E outcome \in {"confirmed", "unconfirmed", "refused", "lost", "local"} :
         /\ SetRequest("eq", IF eq = "gain" THEN Gain ELSE Boost, "off", outcome)
         /\ IF outcome \in {"confirmed", "unconfirmed"}
            THEN eq' = (IF eq = "gain" THEN "boost" ELSE "persist") /\ UNCHANGED <<lock, cutShort>>
            ELSE eq' = "idle" /\ Released("eq") /\ cutShort' = TRUE
    /\ UNCHANGED <<bk, bkTodo, snapshot, modeRead, backups, readOn, filesV, armed, restoreV, fr, writeV>>

EqResetPersists ==
    /\ eq = "persist"
    /\ Persisted("eq")
    /\ eq' = "idle" /\ Released("eq")
    /\ UNCHANGED <<settings, mode, backupV, filesV, armed, restoreV, fr, writeV, cutShort>>

\* The confirming press of the factory reset button.
FactoryResetPressed ==
    /\ Press /\ fr = "idle"
    /\ Claimed("factory")
    /\ fr' = "send"
    /\ UNCHANGED <<speaker, backupV, filesV, armed, restoreV, eq, writeV, historyV>>

\* Carried out or not (the reply may be missing either way); the defaults stay.
FactoryResetSent ==
    /\ fr = "send"
    /\ \/ UNCHANGED <<settings, flash, unsaved, torn, boundsV>>
       \/ /\ mode = "NETWORK"
          /\ settings' = [p \in Restorable |-> "off"] /\ flash' = settings'
          /\ unsaved' = {}
          /\ torn' = (torn \/ bk = "read")
          /\ UNCHANGED boundsV
    /\ fr' = "idle" /\ Released("factory")
    /\ UNCHANGED <<mode, bk, bkTodo, snapshot, modeRead, backups, readOn, filesV, armed,
                   restoreV, eq, writeV, cutShort>>

\* _async_write(): not under the action lock.
EntityWrite(p, v) ==
    /\ Press /\ wr = "idle"
    /\ wr' = "send" /\ wrPath' = p /\ wrValue' = v
    /\ UNCHANGED <<speaker, lock, backupV, filesV, armed, restoreV, eq, fr, historyV>>

EntityWrites ==
    /\ wr = "send"
    /\ \E outcome \in {"confirmed", "unconfirmed", "refused", "lost", "local"} :
         /\ SetRequest("entity", wrPath, wrValue, outcome)
         /\ wr' = IF outcome \in {"confirmed", "unconfirmed"} THEN "persist" ELSE "idle"
    /\ Disturbs
    /\ UNCHANGED <<wrPath, wrValue, lock, bk, bkTodo, snapshot, modeRead, backups, readOn,
                   filesV, armed, eq, fr, cutShort>>

EntityPersists ==
    /\ wr = "persist"
    /\ Persisted("entity")
    /\ wr' = "idle"
    /\ UNCHANGED <<settings, mode, wrPath, wrValue, lock, backupV, filesV, armed, restoreV,
                   eq, fr, cutShort>>

\* Home Assistant stops and starts: what runs is gone, the files are kept.
Restart ==
    /\ Event
    /\ bk' = "idle" /\ bkTodo' = <<>> /\ snapshot' = NoValues /\ modeRead' = Absent
    /\ torn' = FALSE /\ readOn' = {} /\ UNCHANGED backups
    /\ rs' = "idle" /\ rsTodo' = <<>> /\ plan' = NoRecord
    /\ landed' = FALSE /\ unsure' = FALSE /\ attempted' = {} /\ astray' = {}
    /\ eq' = "idle" /\ fr' = "idle" /\ wr' = "idle"
    /\ lock' = "nobody" /\ armed' = NoRecord
    /\ cutShort' = TRUE
    /\ UNCHANGED <<speaker, filesV, wrPath, wrValue, unsaved>>

(***************************************************************************)
(* The specification.                                                      *)
(***************************************************************************)

SpeakerStep ==
    \/ SwitchFlips \/ PowerCycle \/ Restart
    \/ \E p \in Restorable, v \in {"off", "on"} : OutsideChange(p, v)

BackupStep ==
    BackupPressed \/ BackupReads \/ BackupAborts \/ BackupChecked
    \/ BackupWritesFile \/ BackupStores

RestoreStep ==
    RestoreArmed \/ RestorePressed \/ RestoreSkips \/ RestoreWrites
    \/ RestoreTimesOut \/ RestoreFinishes \/ RestorePersists

ResetStep ==
    EqResetPressed \/ EqResetWrites \/ EqResetPersists
    \/ FactoryResetPressed \/ FactoryResetSent

WriteStep ==
    \/ \E p \in Restorable, v \in {"off", "on"} : EntityWrite(p, v)
    \/ EntityWrites \/ EntityPersists

Next == SpeakerStep \/ BackupStep \/ RestoreStep \/ ResetStep \/ WriteStep

Spec == Init /\ [][Next]_vars

(***************************************************************************)
(* Properties.                                                             *)
(***************************************************************************)

\* No kept snapshot mixes values from before and after another device action: a
\* restore of it would put the speaker in a state it never was in (claim_device).
OneStatePerBackup == ~exported.torn /\ ~stored.torn

\* What a backup may leave behind: something to restore, and not read off a
\* speaker that was on LOCAL all along, if it tells its control mode at all.
Usable ==
    { record \in Records :
        /\ \E p \in Restorable : record.values[p] # Absent
        /\ record.mode # Absent => record.readOn # {"LOCAL"} }

Exports == INSTANCE ExportShelf WITH
    None <- NoRecord, file <- exported, store <- stored

\* The file is only replaced by a usable snapshot, and the restore button never
\* offers one whose file is not there: whatever fails, and wherever Home Assistant
\* stops in between, the store is the one that lags behind (async_run_backup).
KeepsTheShelf == Exports!Spec

\* What a restore has written so far, and what it is about to write.
Begun ==
    attempted \cup {p \in Restorable : rsTodo # <<>> /\ p = Head(rsTodo) /\ plan.values[p] # Absent}

\* While a restore runs, and wherever it is cut off: once a level is written, the
\* outputs the backup has muted are muted on the speaker, and before one is unmuted,
\* every level on the speaker is the backup's (_write_order, claim_device).  Excused
\* are a write that was refused or not confirmed, which the restore skips, and what
\* an entity, other software or a power cut has undone; no other action may.
MutedBeforeLoud ==
    rs = "write" =>
        \A m \in Mutes :
            /\ plan.values[m] = "on" /\ Begun \ Mutes # {} =>
                 settings[m] = "on" \/ m \in astray
            /\ plan.values[m] = "off" /\ m \in Begun =>
                 \A p \in Restorable \ Mutes : plan.values[p] # Absent =>
                     settings[p] = plan.values[p] \/ p \in astray

\* Once nothing is under way, every change a speaker confirmed is in its memory,
\* or the user was told that it is not - unless an action was cut short.
KeptUnlessCutShort ==
    rs = "idle" /\ eq = "idle" /\ wr = "idle" /\ ~cutShort => unsaved = {}

\* The comment of async_persist: it is called once per EQ reset and per restore,
\* "once per settings change", or the user has to know.
KeptAfterEveryAction ==
    rs = "idle" /\ eq = "idle" /\ wr = "idle" => unsaved = {}

\* README, "Known limitations": a backup taken while the switch is on LOCAL is
\* refused, so it cannot replace the last good one.
NoLocalValueKept == \A p \in Restorable : stored.values[p] # "local"

=============================================================================
