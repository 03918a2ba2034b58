------------------------- MODULE DeviceActionsProofs -------------------------
(***************************************************************************)
(* Safety of the device actions for every table of paths, with any number  *)
(* of presses, entity writes, outside changes, faults and restarts, and    *)
(* the refinement of the abstract shelf by the backup.                     *)
(*                                                                         *)
(* The first invariant holds whatever order a restore writes its paths in; *)
(* the second is about that order, which a recursion over the allowlist    *)
(* computes.                                                               *)
(***************************************************************************)
EXTENDS DeviceActions, Induction, SequenceTheorems

(***************************************************************************)
(* The inductive invariant.                                                *)
(***************************************************************************)

\* The part of the types that the other conjuncts rest on.
Typed ==
    /\ settings \in [Restorable -> Values] /\ flash \in [Restorable -> Values]
    /\ mode \in Modes
    /\ snapshot \in Snapshots
    /\ modeRead \in Modes \cup {Absent}
    /\ backups \in Nat /\ torn \in BOOLEAN /\ readOn \subseteq Modes
    /\ {stored, armed, plan} \subseteq Records
    /\ landed \in BOOLEAN /\ cutShort \in BOOLEAN
    /\ wrValue \in Values

\* Whatever is at work holds the action lock.
LockedWhileAtWork ==
    /\ bk # "idle" => lock = "backup"
    /\ rs # "idle" => lock = "restore"
    /\ eq # "idle" => lock = "eq"
    /\ fr # "idle" => lock = "factory"

\* No action has written into the backup under way, or into one that was kept.
NeverTorn == ~torn /\ OneStatePerBackup

\* A backup on its way to the file and the store is one worth keeping; the control
\* mode it has is one the speaker was read in.
WorthyBackups ==
    /\ modeRead # Absent => modeRead \in readOn
    /\ bk \in {"file", "store"} => WorthKeeping
    /\ bk = "store" => exported = ThisRecord

\* A confirmed write that is not saved yet has its saving ahead of it.
UnsavedIsAtWork ==
    \A u \in unsaved :
        /\ u[1] \in Writers
        /\ cutShort \/ ( /\ u[1] = "restore" => rs = "persist" \/ (rs = "write" /\ landed)
                         /\ u[1] = "eq" => eq \in {"boost", "persist"}
                         /\ u[1] = "entity" => wr = "persist" )

IInv == Typed /\ LockedWhileAtWork /\ NeverTorn /\ WorthyBackups /\ UnsavedIsAtWork

(***************************************************************************)
(* Records.                                                                *)
(***************************************************************************)

LEMMA NothingIsARecord == NoRecord \in Records /\ NoValues \in Snapshots
BY DEF NoRecord, Records, NoValues, Snapshots

\* What a backup worth keeping writes is usable.
LEMMA WorthyIsUsable ==
    ASSUME Typed, WorthyBackups, WorthKeeping
    PROVE  ThisRecord \in Usable
<1>1. ThisRecord \in Records
  BY DEF ThisRecord, Records, Typed
<1>2. ThisRecord.mode # Absent => ThisRecord.readOn # {"LOCAL"}
  BY DEF ThisRecord, WorthKeeping, WorthyBackups, Typed, Modes, Absent
<1>3. \E p \in Restorable : ThisRecord.values[p] # Absent
  BY DEF ThisRecord, WorthKeeping
<1>4. QED
  BY <1>1, <1>2, <1>3 DEF Usable

LEMMA InitHolds == Init => IInv
<1> SUFFICES ASSUME Init PROVE IInv
  OBVIOUS
<1>1. Typed
  BY NothingIsARecord DEF Init, Typed, Values, Modes
<1>2. QED
  BY <1>1
     DEF Init, IInv, LockedWhileAtWork, NeverTorn, OneStatePerBackup, NoRecord, WorthyBackups,
         UnsavedIsAtWork

(***************************************************************************)
(* Requests.                                                               *)
(***************************************************************************)

\* A set request leaves the types alone, and tears no backup: an action that sends
\* one has the lock.
LEMMA RequestKeeps ==
    ASSUME IInv, NEW w \in Writers, NEW p, NEW v, NEW outcome, SetRequest(w, p, v, outcome),
           p \in Restorable => v \in Values,
           w = "restore" => rs # "idle", w = "eq" => eq # "idle"
    PROVE  /\ settings' \in [Restorable -> Values] /\ flash' \in [Restorable -> Values]
           /\ mode' = mode /\ torn' = FALSE
           /\ unsaved' = IF outcome = "confirmed" THEN unsaved \cup {<<w, p>>} ELSE unsaved
<1>1. ASSUME NEW new, new = [settings EXCEPT ![p] = v]
      PROVE  new \in [Restorable -> Values]
  BY <1>1 DEF IInv, Typed
<1>2. settings' \in [Restorable -> Values] /\ flash' \in [Restorable -> Values]
  BY <1>1 DEF SetRequest, Stores, IInv, Typed
<1>3. bk = "read" => w = "entity"
  BY DEF IInv, LockedWhileAtWork, Writers
<1>4. torn' = FALSE
  BY <1>3 DEF SetRequest, IInv, NeverTorn
<1>5. QED
  BY <1>2, <1>4 DEF SetRequest

\* Saving settles what its writer left to be saved.
LEMMA PersistSettles ==
    ASSUME IInv, NEW w \in Writers, Persisted(w)
    PROVE  /\ unsaved' \subseteq {u \in unsaved : u[1] # w}
           /\ flash' \in [Restorable -> Values]
BY DEF Persisted, IInv, Typed

(***************************************************************************)
(* Every step keeps the invariant.                                         *)
(***************************************************************************)

LEMMA SpeakerStepKeeps ==
    ASSUME IInv, SpeakerStep
    PROVE  IInv'
<1> USE DEF IInv, Typed
<1>1. CASE SwitchFlips \/ PowerCycle \/ \E p \in Restorable, v \in {"off", "on"} : OutsideChange(p, v)
  <2>1. /\ UNCHANGED <<lock, backupV, filesV, armed, rs, rsTodo, plan, landed, unsure, attempted,
                       eq, fr, writeV, cutShort>>
        /\ unsaved' \subseteq unsaved
    BY <1>1 DEF SwitchFlips, PowerCycle, OutsideChange, Disturbs, restoreV, historyV
  <2>2. Typed'
    BY <1>1, <2>1
       DEF SwitchFlips, PowerCycle, OutsideChange, Stores, speaker, Values,
           backupV, filesV, writeV
  <2>3. QED
    BY <2>1, <2>2
       DEF backupV, filesV, writeV, LockedWhileAtWork, NeverTorn, OneStatePerBackup,
           WorthyBackups, WorthKeeping, ThisRecord, UnsavedIsAtWork
<1>2. CASE Restart
  <2>1. Typed'
    BY <1>2, NothingIsARecord DEF Restart, speaker, filesV
  <2>2. WorthyBackups'
    BY <1>2 DEF Restart, WorthyBackups
  <2>3. QED
    BY <1>2, <2>1, <2>2
       DEF Restart, filesV, LockedWhileAtWork, NeverTorn, OneStatePerBackup, UnsavedIsAtWork
<1>3. QED
  BY <1>1, <1>2 DEF SpeakerStep

LEMMA BackupStepKeeps ==
    ASSUME IInv, BackupStep
    PROVE  IInv'
<1> USE DEF IInv, Typed, LockedWhileAtWork, NeverTorn, OneStatePerBackup, UnsavedIsAtWork,
            filesV, restoreV, writeV, speaker, historyV
<1>1. CASE BackupPressed
  <2>1. Typed'
    <3>1. backups' = backups + 1 /\ readOn' = {} /\ torn' = FALSE
      BY <1>1 DEF BackupPressed
    <3>2. snapshot' \in Snapshots /\ modeRead' = Absent
      BY <1>1, NothingIsARecord DEF BackupPressed
    <3>3. /\ UNCHANGED <<settings, flash, mode, stored, armed, plan, landed, cutShort, wrValue>>
      BY <1>1 DEF BackupPressed
    <3>4. backups + 1 \in Nat
      OBVIOUS
    <3>5. QED
      BY <3>1, <3>2, <3>3, <3>4
  <2>2. QED
    BY <1>1, <2>1 DEF BackupPressed, WorthyBackups, Claimed
<1>2. CASE BackupReads
  <2>1. Typed' /\ (modeRead' # Absent => modeRead' \in readOn')
    BY <1>2 DEF BackupReads, WorthyBackups, Snapshots, Reported, Values
  <2>2. QED
    BY <1>2, <2>1 DEF BackupReads, WorthyBackups
<1>3. CASE BackupAborts
  BY <1>3, NothingIsARecord DEF BackupAborts, EndBackup, Released, WorthyBackups
<1>4. CASE BackupChecked
  <2>1. CASE EndBackup
    BY <1>4, <2>1, NothingIsARecord DEF BackupChecked, EndBackup, Released, WorthyBackups
  <2>2. CASE /\ WorthKeeping /\ bk' = "file"
             /\ UNCHANGED <<lock, bkTodo, snapshot, modeRead, backups, torn, readOn>>
    <3>1. WorthyBackups'
      BY <1>4, <2>2 DEF BackupChecked, WorthyBackups, WorthKeeping
    <3>2. QED
      BY <1>4, <2>2, <3>1 DEF BackupChecked
  <2>3. QED
    BY <1>4, <2>1, <2>2 DEF BackupChecked, Acceptable
<1>5. CASE BackupWritesFile
  <2>1. CASE exported' = ThisRecord /\ bk' = "store"
    <3>1. /\ UNCHANGED <<lock, bkTodo, snapshot, modeRead, backups, torn, readOn, stored, armed,
                         restoreV, eq, fr, writeV, speaker, historyV>>
          /\ bk = "file"
      BY <1>5, <2>1 DEF BackupWritesFile, EndBackup
    <3>2. ThisRecord' = ThisRecord /\ (WorthKeeping <=> WorthKeeping') /\ ~ThisRecord.torn
      BY <3>1 DEF ThisRecord, WorthKeeping
    <3>3. WorthyBackups'
      BY <2>1, <3>1, <3>2 DEF WorthyBackups
    <3>4. exported'.torn = FALSE
      BY <2>1, <3>1, <3>2
    <3>5. QED
      BY <2>1, <3>1, <3>3, <3>4
  <2>2. CASE EndBackup /\ UNCHANGED exported
    BY <1>5, <2>2, NothingIsARecord DEF BackupWritesFile, EndBackup, Released, WorthyBackups
  <2>3. QED
    BY <1>5, <2>1, <2>2 DEF BackupWritesFile
<1>6. CASE BackupStores
  <2>1. stored' \in Records /\ ~stored'.torn
    BY <1>6 DEF BackupStores, StoreIsNext, WorthyBackups, ThisRecord, Records
  <2>2. QED
    BY <1>6, <2>1, NothingIsARecord DEF BackupStores, EndBackup, Released, WorthyBackups
<1>7. QED
  BY <1>1, <1>2, <1>3, <1>4, <1>5, <1>6 DEF BackupStep

LEMMA RestoreStepKeeps ==
    ASSUME IInv, RestoreStep
    PROVE  IInv'
<1> USE DEF IInv, Typed, LockedWhileAtWork, filesV, speaker
<1>1. CASE RestoreArmed \/ RestorePressed \/ RestoreSkips \/ RestoreTimesOut \/ RestoreFinishes
  <2>1. /\ UNCHANGED <<speaker, backupV, filesV, eq, fr, writeV, unsaved>>
        /\ rs' # "idle" => lock' = "restore"
        /\ lock' = lock \/ (lock = "nobody" /\ lock' = "restore")
             \/ (lock = "restore" /\ rs' = "idle" /\ lock' = "nobody")
        /\ {armed', plan'} \subseteq Records
        /\ landed' \in BOOLEAN /\ cutShort' \in BOOLEAN
    BY <1>1, NothingIsARecord
       DEF RestoreArmed, RestorePressed, RestoreSkips, RestoreTimesOut, RestoreFinishes,
           restoreV, historyV, Claimed, EndRestore, Released
  <2>2. UnsavedIsAtWork'
    BY <1>1, <2>1
       DEF RestoreArmed, RestorePressed, RestoreSkips, RestoreTimesOut, RestoreFinishes,
           restoreV, historyV, EndRestore, SomethingWritten, UnsavedIsAtWork, writeV
  <2>3. QED
    BY <2>1, <2>2
       DEF backupV, writeV, NeverTorn, OneStatePerBackup, WorthyBackups, WorthKeeping, ThisRecord
<1>2. CASE RestoreWrites
  <2> DEFINE p == Head(rsTodo)
             v == plan.values[p]
  <2>1. PICK outcome \in {"confirmed", "unconfirmed", "refused", "lost", "local"} :
          /\ SetRequest("restore", p, v, outcome)
          /\ IF outcome \in {"lost", "local"}
             THEN EndRestore /\ cutShort' = TRUE
             ELSE /\ landed' = (landed \/ outcome = "confirmed")
                  /\ UNCHANGED <<rs, plan, lock, cutShort>>
    BY <1>2 DEF RestoreWrites
  <2>2. p \in Restorable => v \in Values
    BY <1>2 DEF RestoreWrites, Records, Snapshots
  <2>3. /\ rs = "write"
        /\ UNCHANGED <<bk, bkTodo, snapshot, modeRead, backups, readOn, filesV, armed, eq, fr, writeV>>
    BY <1>2 DEF RestoreWrites
  <2> HIDE DEF p, v
  <2>4. /\ settings' \in [Restorable -> Values] /\ flash' \in [Restorable -> Values]
        /\ mode' = mode /\ torn' = FALSE
        /\ unsaved' = IF outcome = "confirmed" THEN unsaved \cup {<<"restore", p>>} ELSE unsaved
    BY <2>1, <2>2, <2>3, RequestKeeps DEF Writers
  <2>5. Typed'
    BY <2>1, <2>3, <2>4, NothingIsARecord DEF EndRestore, writeV
  <2>6. UnsavedIsAtWork'
    <3>1. CASE outcome = "confirmed"
      <4>1. landed' = TRUE /\ rs' = "write" /\ UNCHANGED <<eq, wr, cutShort>>
        BY <2>1, <2>3, <3>1 DEF writeV
      <4>2. unsaved' = unsaved \cup {<<"restore", p>>}
        BY <2>4, <3>1
      <4>3. QED
        BY <2>3, <4>1, <4>2 DEF UnsavedIsAtWork, Writers
    <3>2. CASE outcome # "confirmed"
      <4>1. unsaved' = unsaved
        BY <2>4, <3>2
      <4>2. CASE cutShort' = TRUE
        BY <4>1, <4>2 DEF UnsavedIsAtWork
      <4>3. CASE UNCHANGED <<rs, cutShort>> /\ landed' = (landed \/ outcome = "confirmed")
        <5>1. landed' = landed
          BY <3>2, <4>3
        <5>2. QED
          BY <2>3, <4>1, <4>3, <5>1 DEF UnsavedIsAtWork, writeV
      <4>4. QED
        BY <2>1, <4>2, <4>3
    <3>3. QED
      BY <3>1, <3>2
  <2>7. torn' = torn
    BY <2>4 DEF NeverTorn
  <2>8. QED
    BY <2>1, <2>3, <2>4, <2>5, <2>6, <2>7
       DEF EndRestore, Released, NeverTorn, OneStatePerBackup, WorthyBackups, WorthKeeping,
           ThisRecord
<1>3. CASE RestorePersists
  <2>1. /\ rs = "persist" /\ EndRestore
        /\ UNCHANGED <<settings, mode, backupV, filesV, armed, eq, fr, writeV, cutShort>>
        /\ unsaved' \subseteq {u \in unsaved : u[1] # "restore"}
        /\ flash' \in [Restorable -> Values]
    BY <1>3, PersistSettles DEF RestorePersists, Writers
  <2>2. Typed'
    BY <2>1, NothingIsARecord DEF EndRestore, backupV, writeV
  <2>3. UnsavedIsAtWork'
    BY <2>1 DEF UnsavedIsAtWork, writeV
  <2>4. LockedWhileAtWork'
    BY <2>1 DEF EndRestore, Released, backupV
  <2>5. QED
    BY <2>1, <2>2, <2>3, <2>4
       DEF backupV, NeverTorn, OneStatePerBackup, WorthyBackups, WorthKeeping, ThisRecord
<1>4. QED
  BY <1>1, <1>2, <1>3 DEF RestoreStep

\* What the history of a backup and the shelf rest on, and most steps leave alone.
BackupUntouched ==
    UNCHANGED <<bk, snapshot, modeRead, backups, torn, readOn, exported, stored>>

LEMMA UntouchedKeeps ==
    ASSUME IInv, BackupUntouched
    PROVE  NeverTorn' /\ WorthyBackups'
BY DEF IInv, BackupUntouched, NeverTorn, OneStatePerBackup, WorthyBackups, WorthKeeping, ThisRecord

LEMMA ResetStepKeeps ==
    ASSUME IInv, ResetStep
    PROVE  IInv'
<1> USE DEF IInv, Typed, LockedWhileAtWork
<1>1. CASE EqResetPressed \/ FactoryResetPressed
  <2>1. /\ UNCHANGED <<speaker, backupV, filesV, armed, restoreV, writeV, historyV>>
        /\ lock = "nobody" /\ lock' \in {"eq", "factory"}
        /\ IF lock' = "eq" THEN eq = "idle" /\ eq' = "gain" /\ fr' = fr
                          ELSE fr' = "send" /\ eq' = eq
    BY <1>1 DEF EqResetPressed, FactoryResetPressed, EqClaimed, Claimed
  <2>2. Typed' /\ LockedWhileAtWork'
    BY <2>1 DEF speaker, backupV, filesV, restoreV, writeV, historyV
  <2>3. UnsavedIsAtWork'
    BY <2>1 DEF restoreV, writeV, historyV, UnsavedIsAtWork
  <2>4. BackupUntouched
    BY <2>1 DEF backupV, filesV, BackupUntouched
  <2>5. QED
    BY <2>2, <2>3, <2>4, UntouchedKeeps
<1>2. CASE EqResetWrites
  <2> DEFINE p == IF eq = "gain" THEN Gain ELSE Boost
  <2>1. PICK outcome \in {"confirmed", "unconfirmed", "refused", "lost", "local"} :
          /\ SetRequest("eq", p, "off", outcome)
          /\ IF outcome \in {"confirmed", "unconfirmed"}
             THEN /\ eq' = (IF eq = "gain" THEN "boost" ELSE "persist")
                  /\ UNCHANGED <<lock, cutShort>>
             ELSE eq' = "idle" /\ Released("eq") /\ cutShort' = TRUE
    BY <1>2 DEF EqResetWrites
  <2>2. /\ eq \in {"gain", "boost"}
        /\ UNCHANGED <<bk, bkTodo, snapshot, modeRead, backups, readOn, filesV, armed, restoreV,
                       fr, writeV>>
    BY <1>2 DEF EqResetWrites
  <2> HIDE DEF p
  <2>3. /\ settings' \in [Restorable -> Values] /\ flash' \in [Restorable -> Values]
        /\ mode' = mode /\ torn' = FALSE
        /\ unsaved' = IF outcome = "confirmed" THEN unsaved \cup {<<"eq", p>>} ELSE unsaved
    BY <2>1, <2>2, RequestKeeps DEF Writers, Values
  <2>4. Typed'
    BY <2>1, <2>2, <2>3 DEF filesV, restoreV, writeV
  <2>5. LockedWhileAtWork'
    BY <2>1, <2>2 DEF restoreV, Released
  <2>6. UnsavedIsAtWork'
    <3>1. CASE outcome = "confirmed"
      <4>1. eq' \in {"boost", "persist"} /\ unsaved' = unsaved \cup {<<"eq", p>>}
        BY <2>1, <2>3, <3>1
      <4>2. UNCHANGED <<rs, landed, wr, cutShort>>
        BY <2>1, <2>2, <3>1 DEF restoreV, writeV
      <4>3. QED
        BY <4>1, <4>2 DEF UnsavedIsAtWork, Writers
    <3>2. CASE outcome # "confirmed"
      <4>1. unsaved' = unsaved
        BY <2>3, <3>2
      <4>2. QED
        BY <2>1, <2>2, <4>1 DEF UnsavedIsAtWork, restoreV, writeV
    <3>3. QED
      BY <3>1, <3>2
  <2>7. BackupUntouched
    BY <2>2, <2>3 DEF NeverTorn, filesV, BackupUntouched
  <2>8. QED
    BY <2>4, <2>5, <2>6, <2>7, UntouchedKeeps
<1>3. CASE EqResetPersists
  <2>1. /\ eq = "persist" /\ eq' = "idle" /\ Released("eq")
        /\ UNCHANGED <<settings, mode, backupV, filesV, armed, restoreV, fr, writeV, cutShort>>
        /\ unsaved' \subseteq {u \in unsaved : u[1] # "eq"}
        /\ flash' \in [Restorable -> Values]
    BY <1>3, PersistSettles DEF EqResetPersists, Writers
  <2>2. Typed' /\ LockedWhileAtWork'
    BY <2>1 DEF backupV, filesV, restoreV, writeV, Released
  <2>3. UnsavedIsAtWork'
    BY <2>1 DEF UnsavedIsAtWork, restoreV, writeV
  <2>4. BackupUntouched
    BY <2>1 DEF backupV, filesV, BackupUntouched
  <2>5. QED
    BY <2>2, <2>3, <2>4, UntouchedKeeps
<1>4. CASE FactoryResetSent
  <2>1. /\ fr = "send" /\ fr' = "idle" /\ Released("factory") /\ mode' = mode
        /\ UNCHANGED <<bk, bkTodo, snapshot, modeRead, backups, readOn, filesV, armed,
                       restoreV, eq, writeV, cutShort>>
        /\ unsaved' = unsaved \/ unsaved' = {}
    BY <1>4 DEF FactoryResetSent
  <2>2. settings' \in [Restorable -> Values] /\ flash' \in [Restorable -> Values]
    BY <1>4 DEF FactoryResetSent, Values
  <2>3. torn' = torn
    BY <1>4, <2>1 DEF FactoryResetSent, NeverTorn
  <2>4. Typed' /\ LockedWhileAtWork'
    BY <2>1, <2>2, <2>3 DEF filesV, restoreV, writeV, Released
  <2>5. UnsavedIsAtWork'
    BY <2>1 DEF UnsavedIsAtWork, restoreV, writeV
  <2>6. BackupUntouched
    BY <2>1, <2>3 DEF filesV, BackupUntouched
  <2>7. QED
    BY <2>4, <2>5, <2>6, UntouchedKeeps
<1>5. QED
  BY <1>1, <1>2, <1>3, <1>4 DEF ResetStep

LEMMA WriteStepKeeps ==
    ASSUME IInv, WriteStep
    PROVE  IInv'
<1> USE DEF IInv, Typed, LockedWhileAtWork
<1>1. ASSUME NEW p \in Restorable, NEW v \in {"off", "on"}, EntityWrite(p, v)
      PROVE  IInv'
  <2>1. /\ UNCHANGED <<speaker, lock, backupV, filesV, armed, restoreV, eq, fr, historyV>>
        /\ wr = "idle" /\ wrValue' \in Values
    BY <1>1 DEF EntityWrite, Values
  <2>2. Typed' /\ LockedWhileAtWork'
    BY <2>1 DEF speaker, backupV, filesV, restoreV, historyV
  <2>3. UnsavedIsAtWork'
    BY <2>1 DEF restoreV, historyV, UnsavedIsAtWork
  <2>4. BackupUntouched
    BY <2>1 DEF backupV, filesV, BackupUntouched
  <2>5. QED
    BY <2>2, <2>3, <2>4, UntouchedKeeps
<1>2. CASE EntityWrites
  <2>1. PICK outcome \in {"confirmed", "unconfirmed", "refused", "lost", "local"} :
          /\ SetRequest("entity", wrPath, wrValue, outcome)
          /\ wr' = IF outcome \in {"confirmed", "unconfirmed"} THEN "persist" ELSE "idle"
    BY <1>2 DEF EntityWrites
  <2>2. /\ wr = "send"
        /\ UNCHANGED <<wrPath, wrValue, lock, bk, bkTodo, snapshot, modeRead, backups, readOn,
                       filesV, armed, rs, rsTodo, plan, landed, unsure, attempted, eq, fr,
                       cutShort>>
    BY <1>2 DEF EntityWrites, Disturbs
  <2>3. /\ settings' \in [Restorable -> Values] /\ flash' \in [Restorable -> Values]
        /\ mode' = mode /\ torn' = FALSE
        /\ unsaved' = IF outcome = "confirmed"
                      THEN unsaved \cup {<<"entity", wrPath>>} ELSE unsaved
    BY <2>1, RequestKeeps DEF Writers
  <2>4. Typed' /\ LockedWhileAtWork'
    BY <2>2, <2>3 DEF filesV
  <2>5. UnsavedIsAtWork'
    <3>1. CASE outcome = "confirmed"
      <4>1. wr' = "persist" /\ unsaved' = unsaved \cup {<<"entity", wrPath>>}
        BY <2>1, <2>3, <3>1
      <4>2. QED
        BY <2>2, <4>1 DEF UnsavedIsAtWork, Writers
    <3>2. CASE outcome # "confirmed"
      <4>1. unsaved' = unsaved
        BY <2>3, <3>2
      <4>2. QED
        BY <2>2, <4>1 DEF UnsavedIsAtWork
    <3>3. QED
      BY <3>1, <3>2
  <2>6. BackupUntouched
    BY <2>2, <2>3 DEF NeverTorn, filesV, BackupUntouched
  <2>7. QED
    BY <2>4, <2>5, <2>6, UntouchedKeeps
<1>3. CASE EntityPersists
  <2>1. /\ wr = "persist"
        /\ UNCHANGED <<settings, mode, wrPath, wrValue, lock, backupV, filesV, armed, restoreV,
                       eq, fr, cutShort>>
        /\ unsaved' \subseteq {u \in unsaved : u[1] # "entity"}
        /\ flash' \in [Restorable -> Values]
    BY <1>3, PersistSettles DEF EntityPersists, Writers
  <2>2. Typed' /\ LockedWhileAtWork'
    BY <2>1 DEF backupV, filesV, restoreV
  <2>3. UnsavedIsAtWork'
    BY <2>1 DEF UnsavedIsAtWork, restoreV
  <2>4. BackupUntouched
    BY <2>1 DEF backupV, filesV, BackupUntouched
  <2>5. QED
    BY <2>2, <2>3, <2>4, UntouchedKeeps
<1>4. QED
  BY <1>1, <1>2, <1>3 DEF WriteStep

LEMMA StepKeeps == IInv /\ [Next]_vars => IInv'
<1>1. ASSUME IInv, UNCHANGED vars PROVE IInv'
  <2>1. UNCHANGED <<settings, flash, mode, lock, bk, snapshot, modeRead, backups, torn, readOn,
                    exported, stored, armed, rs, plan, landed, eq, fr, wr, wrValue, unsaved,
                    cutShort>>
    BY <1>1 DEF vars, speaker, backupV, filesV, restoreV, writeV, historyV
  <2>2. NeverTorn' /\ WorthyBackups'
    BY <1>1, <2>1, UntouchedKeeps DEF BackupUntouched
  <2>3. QED
    BY <1>1, <2>1, <2>2 DEF IInv, Typed, LockedWhileAtWork, UnsavedIsAtWork
<1>2. QED
  BY <1>1, SpeakerStepKeeps, BackupStepKeeps, RestoreStepKeeps, ResetStepKeeps, WriteStepKeeps
     DEF Next

\* The invariant holds of every run of the actions.
THEOREM InvariantHolds == Spec => []IInv
<1>1. Init => IInv
  BY InitHolds
<1>2. IInv /\ [Next]_vars => IInv'
  BY StepKeeps
<1>3. QED
  BY <1>1, <1>2, PTL DEF Spec

(***************************************************************************)
(* The theorems.                                                           *)
(***************************************************************************)

\* No backup that is kept mixes values from before and after another action.
THEOREM OneStatePerBackupHolds == Spec => []OneStatePerBackup
<1>1. IInv => OneStatePerBackup
  BY DEF IInv, NeverTorn
<1>2. QED
  BY <1>1, InvariantHolds, PTL

\* Once nothing is under way, a confirmed change is in the memory of the speaker or
\* the user was told that it is not, unless an action was cut short.
THEOREM KeptUnlessCutShortHolds == Spec => []KeptUnlessCutShort
<1>1. IInv => KeptUnlessCutShort
  BY DEF IInv, UnsavedIsAtWork, KeptUnlessCutShort, Writers
<1>2. QED
  BY <1>1, InvariantHolds, PTL

\* The backup is an ExportShelf: it replaces the file by usable snapshots only, and
\* the store never holds one the user had no file of.
THEOREM KeepsTheShelfHolds == Spec => KeepsTheShelf
<1>1. Init => Exports!Init
  BY DEF Init, Exports!Init
<1>2. ASSUME IInv, [Next]_vars PROVE [Exports!Next]_<<exported, stored>>
  <2>1. CASE UNCHANGED <<exported, stored>>
    BY <2>1
  <2>2. CASE BackupWritesFile /\ exported' = ThisRecord
    <3>1. ThisRecord \in Usable
      BY <1>2, <2>2, WorthyIsUsable DEF IInv, WorthyBackups, BackupWritesFile
    <3>2. QED
      BY <2>2, <3>1 DEF BackupWritesFile, Exports!Next, Exports!Replace
  <2>3. CASE BackupStores /\ stored' = ThisRecord
    <3>1. ThisRecord \in Usable /\ exported = ThisRecord
      BY <1>2, <2>3, WorthyIsUsable DEF IInv, WorthyBackups, BackupStores, StoreIsNext
    <3>2. QED
      BY <2>3, <3>1 DEF BackupStores, Exports!Next, Exports!Copy
  <2>4. CASE BackupStep
    BY <2>1, <2>2, <2>3, <2>4
       DEF BackupStep, BackupPressed, BackupReads, BackupAborts, BackupChecked,
           BackupWritesFile, BackupStores, filesV
  <2>5. CASE SpeakerStep \/ RestoreStep \/ ResetStep \/ WriteStep \/ UNCHANGED vars
    <3>1. CASE SpeakerStep
      BY <2>1, <3>1 DEF SpeakerStep, SwitchFlips, PowerCycle, Restart, OutsideChange, filesV
    <3>2. CASE RestoreStep
      BY <2>1, <3>2
         DEF RestoreStep, RestoreArmed, RestorePressed, RestoreSkips, RestoreWrites,
             RestoreTimesOut, RestoreFinishes, RestorePersists, filesV
    <3>3. CASE ResetStep
      BY <2>1, <3>3
         DEF ResetStep, EqResetPressed, EqResetWrites, EqResetPersists, FactoryResetPressed,
             FactoryResetSent, filesV
    <3>4. CASE WriteStep
      BY <2>1, <3>4 DEF WriteStep, EntityWrite, EntityWrites, EntityPersists, filesV
    <3>5. CASE UNCHANGED vars
      BY <2>1, <3>5 DEF vars, filesV
    <3>6. QED
      BY <2>5, <3>1, <3>2, <3>3, <3>4, <3>5
  <2>6. QED
    BY <1>2, <2>4, <2>5 DEF Next
<1>3. QED
  BY <1>1, <1>2, InvariantHolds, PTL DEF Spec, KeepsTheShelf, Exports!Spec

(***************************************************************************)
(* The order of a restore.                                                 *)
(***************************************************************************)

\* What Listed computes, for the first n paths of the allowlist.
IsUpTo(f, S, n) ==
    f = [i \in 0..n |-> IF i = 0 THEN <<>>
                        ELSE IF AllowlistOrder[i] \in S
                        THEN Append(f[i - 1], AllowlistOrder[i])
                        ELSE f[i - 1]]

\* The recursion of Listed defines a function.
LEMMA UpToExists ==
    ASSUME NEW S
    PROVE  \A n \in Nat : \E f : IsUpTo(f, S, n)
<1> DEFINE Done == {n \in Nat : \E f : IsUpTo(f, S, n)}
<1>1. 0 \in Done
  <2> DEFINE f == [i \in 0..0 |-> <<>>]
  <2>1. IsUpTo(f, S, 0)
    BY DEF IsUpTo
  <2>2. QED
    BY <2>1
<1>2. ASSUME NEW n \in Nat, n \in Done PROVE n + 1 \in Done
  <2>1. PICK f : IsUpTo(f, S, n)
    BY <1>2
  <2> DEFINE next == IF AllowlistOrder[n + 1] \in S
                     THEN Append(f[n], AllowlistOrder[n + 1]) ELSE f[n]
             g == [i \in 0..(n + 1) |-> IF i = n + 1 THEN next ELSE f[i]]
  <2>2. \A i \in 0..n : g[i] = f[i]
    OBVIOUS
  <2>3. \A i \in 0..n :
          f[i] = IF i = 0 THEN <<>>
                 ELSE IF AllowlistOrder[i] \in S
                 THEN Append(f[i - 1], AllowlistOrder[i]) ELSE f[i - 1]
    BY <2>1 DEF IsUpTo
  <2>4. g[n + 1] = next
    OBVIOUS
  <2>5. \A i \in 0..(n + 1) :
          g[i] = IF i = 0 THEN <<>>
                 ELSE IF AllowlistOrder[i] \in S
                 THEN Append(g[i - 1], AllowlistOrder[i]) ELSE g[i - 1]
    <3>1. TAKE i \in 0..(n + 1)
    <3>2. CASE i = n + 1
      BY <2>2, <2>4, <3>2
    <3>3. CASE i \in 0..n
      BY <2>2, <2>3, <3>3
    <3>4. QED
      BY <3>2, <3>3
  <2>6. IsUpTo(g, S, n + 1)
    BY <2>5 DEF IsUpTo
  <2>7. QED
    BY <2>6
<1>3. \A n \in Nat : n \in Done
  <2> HIDE DEF Done
  <2>1. QED
    BY <1>1, <1>2, InductiveSet
<1>4. QED
  BY <1>3

\* Listed(S) is made of paths in S, and has every path of the allowlist that is.
LEMMA ListedIsTheRest ==
    ASSUME NEW S, S \subseteq Restorable
    PROVE  /\ Listed(S) \in Seq(S)
           /\ \A p \in S : \E i \in 1..Len(Listed(S)) : Listed(S)[i] = p
<1> DEFINE L == Len(AllowlistOrder)
           f == CHOOSE g : IsUpTo(g, S, L)
<1>1. L \in Nat /\ \A i \in 1..L : AllowlistOrder[i] \in Restorable
  BY PathsAssumption
<1>2. IsUpTo(f, S, L)
  BY <1>1, UpToExists
<1>3. Listed(S) = f[L]
  BY DEF Listed, IsUpTo
<1> HIDE DEF f
<1>4. \A i \in 0..L :
        f[i] = IF i = 0 THEN <<>>
               ELSE IF AllowlistOrder[i] \in S
               THEN Append(f[i - 1], AllowlistOrder[i]) ELSE f[i - 1]
  BY <1>2 DEF IsUpTo
<1> DEFINE Has(n) == /\ f[n] \in Seq(S)
                     /\ \A k \in 1..n : AllowlistOrder[k] \in S =>
                          \E i \in 1..Len(f[n]) : f[n][i] = AllowlistOrder[k]
           Done == {n \in Nat : n <= L => Has(n)}
<1>5. 0 \in Done
  <2>1. f[0] = <<>>
    BY <1>1, <1>4
  <2>2. f[0] \in Seq(S)
    BY <2>1, EmptySeq
  <2>3. \A k \in 1..0 : FALSE
    OBVIOUS
  <2>4. Has(0)
    BY <2>2, <2>3
  <2> HIDE DEF Has
  <2>5. QED
    BY <2>4
<1>6. ASSUME NEW n \in Nat, n \in Done PROVE n + 1 \in Done
  <2>1. SUFFICES ASSUME n + 1 <= L PROVE Has(n + 1)
    OBVIOUS
  <2>2. Has(n)
    BY <1>1, <1>6, <2>1
  <2>3. f[n + 1] = IF AllowlistOrder[n + 1] \in S
                   THEN Append(f[n], AllowlistOrder[n + 1]) ELSE f[n]
    BY <1>1, <1>4, <2>1
  <2>4. CASE AllowlistOrder[n + 1] \notin S
    BY <2>2, <2>3, <2>4
  <2>5. CASE AllowlistOrder[n + 1] \in S
    <3>1. /\ f[n + 1] \in Seq(S) /\ Len(f[n + 1]) = Len(f[n]) + 1 /\ Len(f[n]) \in Nat
          /\ \A i \in 1..Len(f[n]) : f[n + 1][i] = f[n][i]
          /\ f[n + 1][Len(f[n]) + 1] = AllowlistOrder[n + 1]
      BY <2>2, <2>3, <2>5, AppendProperties
    <3>2. QED
      BY <2>2, <3>1
  <2>6. QED
    BY <2>4, <2>5
<1>7. L \in Done
  <2> HIDE DEF Done
  <2>1. QED
    BY <1>1, <1>5, <1>6, InductiveSet
<1>8. Has(L)
  BY <1>1, <1>7
<1>9. \A p \in S : \E k \in 1..L : AllowlistOrder[k] = p
  BY PathsAssumption
<1>10. QED
  BY <1>3, <1>8, <1>9

\* Mutes before the rest, and the rest before what is unmuted.
Rank(record, p) ==
    IF p \notin Mutes THEN 1 ELSE IF record.values[p] = "on" THEN 0 ELSE 2

\* The write order of a record has every restorable path, in the order of ranks.
LEMMA WriteOrderIsRanked ==
    ASSUME NEW record
    PROVE  /\ WriteOrder(record) \in Seq(Restorable)
           /\ \A p \in Restorable :
                \E i \in 1..Len(WriteOrder(record)) : WriteOrder(record)[i] = p
           /\ \A i, j \in 1..Len(WriteOrder(record)) :
                i <= j => Rank(record, WriteOrder(record)[i]) <= Rank(record, WriteOrder(record)[j])
<1> DEFINE muting   == {p \in Mutes : record.values[p] = "on"}
           unmuting == Mutes \ muting
           rest     == Restorable \ Mutes
           s == Listed(muting)
           t == Listed(rest)
           u == Listed(unmuting)
           st == s \o t
           W == st \o u
<1>1. WriteOrder(record) = W
  BY DEF WriteOrder
<1>2. /\ muting \subseteq Restorable /\ unmuting \subseteq Restorable /\ rest \subseteq Restorable
      /\ Restorable = muting \cup rest \cup unmuting
      /\ \A p \in muting : Rank(record, p) = 0
      /\ \A p \in rest : Rank(record, p) = 1
      /\ \A p \in unmuting : Rank(record, p) = 2
  BY DEF Restorable, Rank
<1> HIDE DEF muting, unmuting, rest
<1>3. /\ s \in Seq(muting) /\ \A p \in muting : \E i \in 1..Len(s) : s[i] = p
      /\ t \in Seq(rest) /\ \A p \in rest : \E i \in 1..Len(t) : t[i] = p
      /\ u \in Seq(unmuting) /\ \A p \in unmuting : \E i \in 1..Len(u) : u[i] = p
  BY <1>2, ListedIsTheRest
<1> HIDE DEF s, t, u
<1>4. s \in Seq(Restorable) /\ t \in Seq(Restorable) /\ u \in Seq(Restorable)
  BY <1>2, <1>3, SeqMonotonic
<1>5. Len(s) \in Nat /\ Len(t) \in Nat /\ Len(u) \in Nat
  BY <1>4
<1>6. /\ st \in Seq(Restorable) /\ Len(st) = Len(s) + Len(t)
      /\ \A i \in 1..Len(st) : st[i] = IF i <= Len(s) THEN s[i] ELSE t[i - Len(s)]
  BY <1>4, ConcatProperties
<1> HIDE DEF st
<1>7. /\ W \in Seq(Restorable) /\ Len(W) = Len(st) + Len(u)
      /\ \A i \in 1..Len(W) : W[i] = IF i <= Len(st) THEN st[i] ELSE u[i - Len(st)]
  <2>1. st \in Seq(Restorable)
    BY <1>6
  <2>2. QED
    BY <1>4, <2>1, ConcatProperties
<1> HIDE DEF W
<1> DEFINE first == 1..Len(s)
           second == (Len(s) + 1)..Len(st)
           third == (Len(st) + 1)..Len(W)
<1>8. /\ \A i \in first : W[i] = s[i] /\ W[i] \in muting
      /\ \A i \in second : W[i] = t[i - Len(s)] /\ W[i] \in rest
      /\ \A i \in third : W[i] = u[i - Len(st)] /\ W[i] \in unmuting
  <2>1. \A i \in first : W[i] = s[i] /\ s[i] \in muting
    BY <1>3, <1>5, <1>6, <1>7
  <2>2. ASSUME NEW i \in second PROVE W[i] = t[i - Len(s)] /\ t[i - Len(s)] \in rest
    <3>1. i \in 1..Len(W) /\ i \in 1..Len(st) /\ ~(i <= Len(s)) /\ i - Len(s) \in 1..Len(t)
      BY <1>5, <1>6, <1>7
    <3>2. QED
      BY <1>3, <1>6, <1>7, <3>1, ElementOfSeq
  <2>3. ASSUME NEW i \in third PROVE W[i] = u[i - Len(st)] /\ u[i - Len(st)] \in unmuting
    <3>1. i \in 1..Len(W) /\ ~(i <= Len(st)) /\ i - Len(st) \in 1..Len(u)
      BY <1>5, <1>6, <1>7
    <3>2. QED
      BY <1>3, <1>7, <3>1, ElementOfSeq
  <2>4. QED
    BY <2>1, <2>2, <2>3
<1>9. 1..Len(W) = first \cup second \cup third
  BY <1>5, <1>6, <1>7
<1>10. ASSUME NEW p \in Restorable PROVE \E i \in 1..Len(W) : W[i] = p
  <2>1. CASE p \in muting
    <3>1. PICK i \in first : s[i] = p
      BY <1>3, <2>1
    <3>2. QED
      BY <1>8, <1>9, <3>1
  <2>2. CASE p \in rest
    <3>1. PICK i \in 1..Len(t) : t[i] = p
      BY <1>3, <2>2
    <3>2. i + Len(s) \in second /\ (i + Len(s)) - Len(s) = i
      BY <1>5, <1>6
    <3>3. W[i + Len(s)] = p
      BY <1>8, <3>1, <3>2
    <3>4. QED
      BY <1>9, <3>2, <3>3
  <2>3. CASE p \in unmuting
    <3>1. PICK i \in 1..Len(u) : u[i] = p
      BY <1>3, <2>3
    <3>2. i + Len(st) \in third /\ (i + Len(st)) - Len(st) = i
      BY <1>5, <1>6, <1>7
    <3>3. W[i + Len(st)] = p
      BY <1>8, <3>1, <3>2
    <3>4. QED
      BY <1>9, <3>2, <3>3
  <2>4. QED
    BY <1>2, <2>1, <2>2, <2>3
<1>11. ASSUME NEW i \in 1..Len(W), NEW j \in 1..Len(W), i <= j
       PROVE  Rank(record, W[i]) <= Rank(record, W[j])
  <2>1. /\ i \in first => Rank(record, W[i]) = 0
        /\ i \in second => Rank(record, W[i]) = 1
        /\ i \in third => Rank(record, W[i]) = 2
        /\ j \in first => Rank(record, W[j]) = 0
        /\ j \in second => Rank(record, W[j]) = 1
        /\ j \in third => Rank(record, W[j]) = 2
    BY <1>2, <1>8
  <2>2. (j \in first => i \in first) /\ (j \in second => i \in first \cup second)
    BY <1>5, <1>6, <1>7, <1>11
  <2>3. i \in first \cup second \cup third /\ j \in first \cup second \cup third
    BY <1>9
  <2> HIDE DEF first, second, third
  <2>4. QED
    BY <2>1, <2>2, <2>3
<1>12. QED
  BY <1>1, <1>7, <1>10, <1>11

\* A restore under way: what it has not tried yet lies ahead of it, in the order of
\* ranks, and none of it ranks before what it has tried.
RestoreInOrder ==
    rs = "write" =>
        /\ \A p \in Restorable : plan.values[p] # Absent =>
             p \in attempted \/ \E i \in 1..Len(rsTodo) : rsTodo[i] = p
        /\ \A i, j \in 1..Len(rsTodo) :
             i <= j => Rank(plan, rsTodo[i]) <= Rank(plan, rsTodo[j])
        /\ \A p \in attempted, i \in 1..Len(rsTodo) : Rank(plan, p) <= Rank(plan, rsTodo[i])

\* What a restore has tried and not lost sight of is on the speaker.
TriedHasLanded ==
    rs = "write" => \A p \in attempted \ astray : settings[p] = plan.values[p]

\* What of the types is left beside Typed.
TypedToo ==
    /\ lock \in Owners
    /\ bk \in {"idle", "read", "file", "store"}
    /\ bkTodo \in Seq(Restorable \cup {ControlMode})
    /\ exported \in Records
    /\ rs \in {"idle", "write", "persist"}
    /\ rsTodo \in Seq(Restorable)
    /\ unsure \in BOOLEAN
    /\ eq \in {"idle", "gain", "boost", "persist"}
    /\ fr \in {"idle", "send"}
    /\ wr \in {"idle", "send", "persist"}
    /\ wrPath \in Restorable
    /\ presses \in 0..MaxPresses /\ events \in 0..MaxEvents /\ faults \in 0..MaxFaults
    /\ attempted \subseteq Restorable /\ astray \subseteq Restorable
    /\ unsaved \subseteq Writers \X Restorable

LEMMA TypesTogether == TypeOK <=> Typed /\ TypedToo
BY DEF TypeOK, Typed, TypedToo

IInvToo == IInv /\ TypedToo /\ RestoreInOrder /\ TriedHasLanded

LEMMA InitHoldsToo == Init => IInvToo
<1> SUFFICES ASSUME Init PROVE IInvToo
  OBVIOUS
<1>1. IInv
  BY InitHolds
<1>2. TypedToo
  <2>1. Gain \in Restorable
    BY DEF Restorable
  <2>2. <<>> \in Seq(Restorable) /\ <<>> \in Seq(Restorable \cup {ControlMode})
    BY EmptySeq
  <2>3. presses \in 0..MaxPresses /\ events \in 0..MaxEvents /\ faults \in 0..MaxFaults
    BY BoundsAssumption DEF Init
  <2>4. bkTodo \in Seq(Restorable \cup {ControlMode}) /\ rsTodo \in Seq(Restorable)
    BY <2>2 DEF Init
  <2>5. QED
    BY <2>1, <2>3, <2>4, NothingIsARecord DEF Init, TypedToo, Owners
<1>3. RestoreInOrder /\ TriedHasLanded
  BY DEF Init, RestoreInOrder, TriedHasLanded
<1>4. QED
  BY <1>1, <1>2, <1>3 DEF IInvToo

\* What is used up stays within its bound.
BoundsKept == presses' \in 0..MaxPresses /\ events' \in 0..MaxEvents /\ faults' \in 0..MaxFaults

LEMMA BoundsTyped ==
    ASSUME TypedToo
    PROVE  /\ Press \/ Event \/ Fault \/ UNCHANGED boundsV => BoundsKept
           /\ \A w \in Writers : Persisted(w) => BoundsKept
           /\ \A w, p, v, outcome : SetRequest(w, p, v, outcome) => BoundsKept
<1>1. Press \/ Event \/ Fault \/ UNCHANGED boundsV => BoundsKept
  BY BoundsAssumption DEF TypedToo, Press, Event, Fault, boundsV, BoundsKept
<1>2. \A w \in Writers : Persisted(w) => BoundsKept
  BY <1>1 DEF Persisted
<1>3. \A w, p, v, outcome : SetRequest(w, p, v, outcome) => BoundsKept
  BY <1>1 DEF SetRequest
<1>4. QED
  BY <1>1, <1>2, <1>3

LEMMA TypesKeptBySpeaker ==
    ASSUME IInvToo, SpeakerStep
    PROVE  TypedToo'
<1>1. TypedToo
  BY DEF IInvToo
<1>2. BoundsKept
  BY <1>1, BoundsTyped DEF SpeakerStep, SwitchFlips, PowerCycle, Restart, OutsideChange
<1>3. CASE Restart
  <2>1. <<>> \in Seq(Restorable) /\ <<>> \in Seq(Restorable \cup {ControlMode})
    BY EmptySeq
  <2>2. QED
    BY <1>1, <1>2, <1>3, <2>1 DEF Restart, TypedToo, Owners, BoundsKept, filesV
<1>4. CASE SwitchFlips \/ PowerCycle \/ \E p \in Restorable, v \in {"off", "on"} : OutsideChange(p, v)
  <2>1. /\ UNCHANGED <<lock, backupV, filesV, rs, rsTodo, plan, landed, unsure, attempted,
                       eq, fr, writeV>>
        /\ unsaved' \subseteq unsaved
    BY <1>4 DEF SwitchFlips, PowerCycle, OutsideChange, Disturbs, restoreV, historyV
  <2>2. astray' \subseteq astray \cup attempted
    BY <1>4 DEF SwitchFlips, PowerCycle, OutsideChange, Disturbs, restoreV
  <2>3. QED
    BY <1>1, <1>2, <2>1, <2>2 DEF TypedToo, BoundsKept, backupV, filesV, writeV
<1>5. QED
  BY <1>3, <1>4 DEF SpeakerStep

\* The record of the backup under way.
LEMMA ThisIsARecord == Typed => ThisRecord \in Records
BY DEF Typed, ThisRecord, Records

LEMMA TypesKeptByBackup ==
    ASSUME IInvToo, BackupStep
    PROVE  TypedToo'
<1>1. TypedToo /\ Typed
  BY DEF IInvToo, IInv
<1>2. BoundsKept
  BY <1>1, BoundsTyped
     DEF BackupStep, BackupPressed, BackupReads, BackupAborts, BackupChecked,
         BackupWritesFile, BackupStores
<1>3. UNCHANGED <<restoreV, eq, fr, writeV, unsaved>>
  BY DEF BackupStep, BackupPressed, BackupReads, BackupAborts, BackupChecked,
         BackupWritesFile, BackupStores, historyV
<1>4. exported' \in Records
  BY <1>1, ThisIsARecord
     DEF BackupStep, BackupPressed, BackupReads, BackupAborts, BackupChecked,
         BackupWritesFile, BackupStores, TypedToo, filesV
<1>5. /\ lock' \in Owners /\ bk' \in {"idle", "read", "file", "store"}
      /\ bkTodo' \in Seq(Restorable \cup {ControlMode})
  <2> USE <1>1 DEF TypedToo, Owners
  <2>1. CASE BackupPressed
    BY <2>1, PathsAssumption DEF BackupPressed, Claimed
  <2>2. CASE BackupReads
    BY <2>2 DEF BackupReads
  <2>3. CASE EndBackup
    BY <2>3, EmptySeq DEF EndBackup, Released
  <2>4. CASE BackupAborts \/ BackupStores
    BY <2>3, <2>4 DEF BackupAborts, BackupStores
  <2>5. CASE BackupChecked
    BY <2>3, <2>5 DEF BackupChecked
  <2>6. CASE BackupWritesFile
    BY <2>3, <2>6 DEF BackupWritesFile
  <2>7. QED
    BY <2>1, <2>2, <2>4, <2>5, <2>6 DEF BackupStep
<1>6. QED
  BY <1>1, <1>2, <1>3, <1>4, <1>5 DEF TypedToo, BoundsKept, restoreV, writeV

LEMMA TypesKeptByRestore ==
    ASSUME IInvToo, RestoreStep
    PROVE  TypedToo'
<1>1. TypedToo /\ Typed
  BY DEF IInvToo, IInv
<1>2. UNCHANGED <<bk, bkTodo, exported, eq, fr, writeV>>
  BY DEF RestoreStep, RestoreArmed, RestorePressed, RestoreSkips, RestoreWrites,
         RestoreTimesOut, RestoreFinishes, RestorePersists, backupV, filesV
<1>3. BoundsKept
  <2>1. CASE RestoreWrites
    BY <1>1, <2>1, BoundsTyped DEF RestoreWrites
  <2>2. CASE RestorePersists
    BY <1>1, <2>2, BoundsTyped DEF RestorePersists, Writers
  <2>3. CASE RestoreArmed \/ RestorePressed \/ RestoreSkips \/ RestoreTimesOut \/ RestoreFinishes
    BY <1>1, <2>3, BoundsTyped
       DEF RestoreArmed, RestorePressed, RestoreSkips, RestoreTimesOut, RestoreFinishes
  <2>4. QED
    BY <2>1, <2>2, <2>3 DEF RestoreStep
<1>4. /\ lock' \in Owners /\ rs' \in {"idle", "write", "persist"}
      /\ rsTodo' \in Seq(Restorable) /\ unsure' \in BOOLEAN
      /\ attempted' \subseteq Restorable /\ astray' \subseteq Restorable
  <2> USE <1>1 DEF TypedToo, Owners
  <2>1. CASE EndRestore
    BY <2>1, EmptySeq DEF EndRestore, Released
  <2>2. CASE RestoreArmed \/ RestoreSkips
    BY <2>2 DEF RestoreArmed, RestoreSkips, restoreV
  <2>3. CASE RestorePressed
    BY <2>3, WriteOrderIsRanked DEF RestorePressed, Claimed, restoreV
  <2>4. CASE RestoreWrites
    <3>1. rsTodo # <<>> /\ Head(rsTodo) \in Restorable /\ Tail(rsTodo) \in Seq(Restorable)
      BY <2>4 DEF RestoreWrites
    <3>2. QED
      BY <2>1, <2>4, <3>1 DEF RestoreWrites
  <2>5. CASE RestoreTimesOut \/ RestorePersists
    BY <2>1, <2>5 DEF RestoreTimesOut, RestorePersists
  <2>6. CASE RestoreFinishes
    BY <2>1, <2>6 DEF RestoreFinishes
  <2>7. QED
    BY <2>2, <2>3, <2>4, <2>5, <2>6 DEF RestoreStep
<1>5. unsaved' \subseteq Writers \X Restorable
  <2>1. CASE RestoreWrites
    <3>1. rsTodo # <<>> /\ Head(rsTodo) \in Restorable
      BY <1>1, <2>1 DEF RestoreWrites, TypedToo
    <3>2. QED
      BY <1>1, <2>1, <3>1 DEF RestoreWrites, SetRequest, TypedToo, Writers
  <2>2. CASE RestorePersists
    BY <1>1, <2>2, PersistSettles DEF RestorePersists, TypedToo, Writers, IInvToo
  <2>3. CASE RestoreArmed \/ RestorePressed \/ RestoreSkips \/ RestoreTimesOut \/ RestoreFinishes
    BY <1>1, <2>3
       DEF RestoreArmed, RestorePressed, RestoreSkips, RestoreTimesOut, RestoreFinishes,
           TypedToo, historyV
  <2>4. QED
    BY <2>1, <2>2, <2>3 DEF RestoreStep
<1>6. QED
  BY <1>1, <1>2, <1>3, <1>4, <1>5 DEF TypedToo, BoundsKept, writeV

LEMMA TypesKeptByReset ==
    ASSUME IInvToo, ResetStep
    PROVE  TypedToo'
<1>1. TypedToo /\ Gain \in Restorable /\ Boost \in Restorable
  BY DEF IInvToo, Restorable
<1>2. UNCHANGED <<bk, bkTodo, exported, restoreV, writeV>>
  BY DEF ResetStep, EqResetPressed, EqResetWrites, EqResetPersists, FactoryResetPressed,
         FactoryResetSent, backupV, filesV
<1>3. BoundsKept
  BY <1>1, BoundsTyped
     DEF ResetStep, EqResetPressed, EqResetWrites, EqResetPersists, FactoryResetPressed,
         FactoryResetSent, Writers
<1>4. /\ lock' \in Owners
      /\ eq' \in {"idle", "gain", "boost", "persist"} /\ fr' \in {"idle", "send"}
  BY <1>1
     DEF ResetStep, EqResetPressed, EqResetWrites, EqResetPersists, FactoryResetPressed,
         FactoryResetSent, EqClaimed, Claimed, Released, TypedToo, Owners
<1>5. unsaved' \subseteq Writers \X Restorable
  <2>1. CASE EqResetWrites
    BY <1>1, <2>1 DEF EqResetWrites, SetRequest, TypedToo, Writers
  <2>2. CASE EqResetPersists
    BY <1>1, <2>2, PersistSettles DEF EqResetPersists, TypedToo, Writers, IInvToo
  <2>3. CASE EqResetPressed \/ FactoryResetPressed \/ FactoryResetSent
    BY <1>1, <2>3 DEF EqResetPressed, FactoryResetPressed, FactoryResetSent, TypedToo, historyV
  <2>4. QED
    BY <2>1, <2>2, <2>3 DEF ResetStep
<1>6. QED
  BY <1>1, <1>2, <1>3, <1>4, <1>5 DEF TypedToo, BoundsKept, restoreV, writeV

LEMMA TypesKeptByWrite ==
    ASSUME IInvToo, WriteStep
    PROVE  TypedToo'
<1>1. TypedToo
  BY DEF IInvToo
<1>2. /\ UNCHANGED <<lock, bk, bkTodo, exported, rs, rsTodo, plan, landed, unsure, attempted, eq, fr>>
      /\ astray' \subseteq astray \cup attempted
  BY DEF WriteStep, EntityWrite, EntityWrites, EntityPersists, Disturbs, backupV, filesV, restoreV
<1>3. BoundsKept
  BY <1>1, BoundsTyped DEF WriteStep, EntityWrite, EntityWrites, EntityPersists, Writers
<1>4. wr' \in {"idle", "send", "persist"} /\ wrPath' \in Restorable
  BY <1>1 DEF WriteStep, EntityWrite, EntityWrites, EntityPersists, TypedToo
<1>5. unsaved' \subseteq Writers \X Restorable
  <2>1. CASE EntityWrites
    BY <1>1, <2>1 DEF EntityWrites, SetRequest, TypedToo, Writers
  <2>2. CASE EntityPersists
    BY <1>1, <2>2, PersistSettles DEF EntityPersists, TypedToo, Writers, IInvToo
  <2>3. CASE \E p \in Restorable, v \in {"off", "on"} : EntityWrite(p, v)
    BY <1>1, <2>3 DEF EntityWrite, TypedToo, historyV
  <2>4. QED
    BY <2>1, <2>2, <2>3 DEF WriteStep
<1>6. QED
  BY <1>1, <1>2, <1>3, <1>4, <1>5 DEF TypedToo, BoundsKept

\* The order is kept: a restore begins with all of it ahead, and takes the first path
\* off, which has the least rank of those ahead and joins those tried unless the backup
\* has no value for it.
LEMMA OrderKept ==
    ASSUME IInvToo, [Next]_vars
    PROVE  RestoreInOrder'
<1>1. TypedToo /\ RestoreInOrder
  BY DEF IInvToo
<1>2. CASE UNCHANGED <<rs, plan, rsTodo, attempted>>
  BY <1>1, <1>2 DEF RestoreInOrder, Rank
<1>3. CASE rs' # "write"
  BY <1>3 DEF RestoreInOrder
<1>4. CASE RestorePressed /\ rs' = "write"
  <2>1. CASE lock # "nobody" /\ UNCHANGED <<lock, restoreV>>
    BY <1>2, <2>1 DEF restoreV
  <2>2. CASE rsTodo' = WriteOrder(armed) /\ plan' = armed /\ attempted' = {}
    <3> DEFINE W == WriteOrder(armed)
    <3>1. /\ \A p \in Restorable : \E i \in 1..Len(W) : W[i] = p
          /\ \A i, j \in 1..Len(W) : i <= j => Rank(armed, W[i]) <= Rank(armed, W[j])
      BY WriteOrderIsRanked
    <3> HIDE DEF W
    <3>2. rsTodo' = W
      BY <2>2 DEF W
    <3>3. \A p : Rank(plan, p)' = Rank(armed, p)
      BY <2>2 DEF Rank
    <3>4. QED
      BY <2>2, <3>1, <3>2, <3>3 DEF RestoreInOrder
  <2>3. QED
    BY <1>4, <2>1, <2>2 DEF RestorePressed
<1>5. CASE rs = "write" /\ rs' = "write" /\ (RestoreSkips \/ RestoreWrites)
  <2> DEFINE first == Head(rsTodo)
             later == Tail(rsTodo)
  <2>1. /\ rsTodo # <<>> /\ rsTodo \in Seq(Restorable)
        /\ rsTodo' = later /\ plan' = plan
        /\ attempted' = IF plan.values[first] = Absent THEN attempted ELSE attempted \cup {first}
    BY <1>1, <1>5 DEF RestoreSkips, RestoreWrites, EndRestore, TypedToo
  <2>2. /\ first = rsTodo[1] /\ Len(rsTodo) \in Nat \ {0} /\ Len(later) = Len(rsTodo) - 1
        /\ \A i \in 1..Len(later) : later[i] = rsTodo[i + 1]
    BY <2>1
  <2> HIDE DEF first, later
  <2>3. \A p : Rank(plan, p)' = Rank(plan, p)
    BY <2>1 DEF Rank
  <2>4. \A i \in 1..Len(later) : i + 1 \in 1..Len(rsTodo)
    BY <2>2
  <2>5. ASSUME NEW p \in Restorable, plan.values[p] # Absent
        PROVE  p \in attempted' \/ \E i \in 1..Len(later) : later[i] = p
    <3>1. CASE p \in attempted
      BY <2>1, <3>1
    <3>2. CASE \E i \in 1..Len(rsTodo) : rsTodo[i] = p
      <4>1. PICK i \in 1..Len(rsTodo) : rsTodo[i] = p
        BY <3>2
      <4>2. CASE i = 1
        BY <2>1, <2>2, <2>5, <4>1, <4>2
      <4>3. CASE i # 1
        <5>1. i - 1 \in 1..Len(later) /\ later[i - 1] = p
          BY <2>2, <4>1, <4>3
        <5>2. QED
          BY <5>1
      <4>4. QED
        BY <4>2, <4>3
    <3>3. QED
      BY <1>1, <1>5, <2>5, <3>1, <3>2 DEF RestoreInOrder
  <2>6. ASSUME NEW i \in 1..Len(later), NEW j \in 1..Len(later), i <= j
        PROVE  Rank(plan, later[i]) <= Rank(plan, later[j])
    BY <1>1, <1>5, <2>2, <2>4, <2>6 DEF RestoreInOrder
  <2>7. ASSUME NEW p \in attempted', NEW i \in 1..Len(later)
        PROVE  Rank(plan, p) <= Rank(plan, later[i])
    <3>1. CASE p \in attempted
      BY <1>1, <1>5, <2>2, <2>4, <3>1 DEF RestoreInOrder
    <3>2. CASE p = first
      <4>1. 1 \in 1..Len(rsTodo) /\ 1 <= i + 1
        BY <2>2
      <4>2. QED
        BY <1>1, <1>5, <2>2, <2>4, <3>2, <4>1 DEF RestoreInOrder
    <3>3. QED
      BY <2>1, <3>1, <3>2
  <2>8. QED
    BY <2>1, <2>3, <2>5, <2>6, <2>7 DEF RestoreInOrder
<1>6. CASE RestoreStep
  <2>1. CASE RestoreArmed
    BY <1>2, <2>1 DEF RestoreArmed, restoreV
  <2>2. CASE RestoreTimesOut \/ RestorePersists
    BY <1>3, <2>2 DEF RestoreTimesOut, RestorePersists, EndRestore
  <2>3. CASE RestoreFinishes
    BY <1>3, <2>3 DEF RestoreFinishes, EndRestore
  <2>4. CASE RestoreSkips \/ RestoreWrites
    BY <1>3, <1>5, <2>4 DEF RestoreSkips, RestoreWrites
  <2>5. QED
    BY <1>3, <1>4, <1>6, <2>1, <2>2, <2>3, <2>4 DEF RestoreStep
<1>7. CASE SpeakerStep
  BY <1>2, <1>3, <1>7
     DEF SpeakerStep, SwitchFlips, PowerCycle, Restart, OutsideChange, Disturbs, restoreV
<1>8. CASE BackupStep \/ ResetStep \/ WriteStep \/ UNCHANGED vars
  <2>1. UNCHANGED <<rs, plan, rsTodo, attempted>>
    BY <1>8
       DEF BackupStep, BackupPressed, BackupReads, BackupAborts, BackupChecked,
           BackupWritesFile, BackupStores,
           ResetStep, EqResetPressed, EqResetWrites, EqResetPersists, FactoryResetPressed,
           FactoryResetSent, WriteStep, EntityWrite, EntityWrites, EntityPersists, Disturbs,
           restoreV, vars
  <2>2. QED
    BY <1>2, <2>1
<1>9. QED
  BY <1>6, <1>7, <1>8 DEF Next

\* A confirmed write lands where it was sent, one that is not confirmed goes astray, and
\* so does whatever somebody else changes; no other action has the lock.
LEMMA LandedKept ==
    ASSUME IInvToo, [Next]_vars
    PROVE  TriedHasLanded'
<1>1. /\ TypedToo /\ TriedHasLanded /\ LockedWhileAtWork
      /\ settings \in [Restorable -> Values]
  BY DEF IInvToo, IInv, Typed
<1>2. CASE rs' # "write"
  BY <1>2 DEF TriedHasLanded
<1>3. CASE UNCHANGED <<settings, rs, plan, attempted, astray>>
  BY <1>1, <1>3 DEF TriedHasLanded
<1>4. CASE Disturbs
  BY <1>1, <1>4 DEF Disturbs, TriedHasLanded
<1>5. CASE attempted' = {}
  BY <1>5 DEF TriedHasLanded
<1>6. CASE RestoreWrites /\ rs' = "write"
  <2> DEFINE first == Head(rsTodo)
  <2>1. PICK outcome \in {"confirmed", "unconfirmed", "refused", "lost", "local"} :
          /\ SetRequest("restore", first, plan.values[first], outcome)
          /\ IF outcome \in {"lost", "local"} THEN EndRestore
             ELSE /\ attempted' = attempted \cup {first}
                  /\ astray' = IF outcome = "confirmed" THEN astray \ {first}
                               ELSE astray \cup {first}
                  /\ UNCHANGED <<rs, plan>>
    BY <1>6 DEF RestoreWrites
  <2>2. rs = "write" /\ first \in Restorable
    BY <1>1, <1>6 DEF RestoreWrites, TypedToo
  <2> HIDE DEF first
  <2>3. /\ outcome \notin {"lost", "local"}
        /\ attempted' = attempted \cup {first}
        /\ astray' = IF outcome = "confirmed" THEN astray \ {first} ELSE astray \cup {first}
        /\ UNCHANGED <<rs, plan>>
    BY <1>6, <2>1 DEF EndRestore
  <2>4. \A p \in Restorable \ {first} : settings'[p] = settings[p]
    BY <1>1, <2>1, <2>2 DEF SetRequest, Stores
  <2>5. outcome = "confirmed" => settings'[first] = plan.values[first]
    BY <1>1, <2>1, <2>2 DEF SetRequest, Stores
  <2>6. attempted \subseteq Restorable
    BY <1>1 DEF TypedToo
  <2>7. QED
    BY <1>1, <2>2, <2>3, <2>4, <2>5, <2>6 DEF TriedHasLanded
<1>7. CASE RestoreStep
  <2>1. CASE RestorePressed
    BY <1>3, <1>5, <2>1 DEF RestorePressed, speaker, restoreV
  <2>2. CASE RestoreArmed \/ RestoreSkips
    BY <1>3, <2>2 DEF RestoreArmed, RestoreSkips, speaker, restoreV
  <2>3. CASE RestoreTimesOut \/ RestorePersists
    BY <1>2, <2>3 DEF RestoreTimesOut, RestorePersists, EndRestore
  <2>4. CASE RestoreFinishes
    BY <1>2, <2>4 DEF RestoreFinishes, EndRestore
  <2>5. QED
    BY <1>2, <1>6, <1>7, <2>1, <2>2, <2>3, <2>4 DEF RestoreStep
<1>8. CASE SpeakerStep
  BY <1>2, <1>3, <1>4, <1>8
     DEF SpeakerStep, SwitchFlips, PowerCycle, Restart, OutsideChange, restoreV
<1>9. CASE ResetStep
  <2>1. rs' = rs /\ (rs = "write" => lock = "restore")
    BY <1>1, <1>9
       DEF LockedWhileAtWork, ResetStep, EqResetPressed, EqResetWrites, EqResetPersists,
           FactoryResetPressed, FactoryResetSent, restoreV
  <2>2. CASE EqResetWrites \/ FactoryResetSent
    BY <1>1, <1>2, <2>1, <2>2 DEF LockedWhileAtWork, EqResetWrites, FactoryResetSent
  <2>3. CASE EqResetPressed \/ EqResetPersists \/ FactoryResetPressed
    BY <1>3, <2>3
       DEF EqResetPressed, EqResetPersists, FactoryResetPressed, speaker, restoreV
  <2>4. QED
    BY <1>9, <2>2, <2>3 DEF ResetStep
<1>10. CASE BackupStep \/ WriteStep \/ UNCHANGED vars
  BY <1>3, <1>4, <1>10
     DEF BackupStep, BackupPressed, BackupReads, BackupAborts, BackupChecked,
         BackupWritesFile, BackupStores, WriteStep, EntityWrite, EntityWrites,
         EntityPersists, vars, speaker, restoreV
<1>11. QED
  BY <1>7, <1>8, <1>9, <1>10 DEF Next

LEMMA StepKeepsToo == IInvToo /\ [Next]_vars => IInvToo'
<1> SUFFICES ASSUME IInvToo, [Next]_vars PROVE IInvToo'
  OBVIOUS
<1>1. IInv'
  BY StepKeeps DEF IInvToo
<1>2. TypedToo'
  <2>1. CASE UNCHANGED vars
    BY <2>1 DEF IInvToo, TypedToo, vars, speaker, backupV, filesV, restoreV, writeV, boundsV, historyV
  <2>2. QED
    BY <2>1, TypesKeptBySpeaker, TypesKeptByBackup, TypesKeptByRestore, TypesKeptByReset,
       TypesKeptByWrite DEF Next
<1>3. QED
  BY <1>1, <1>2, OrderKept, LandedKept DEF IInvToo

\* Types and the order of a restore, of every run of the actions.
THEOREM OrderedInvariantHolds == Spec => []IInvToo
<1>1. QED
  BY InitHoldsToo, StepKeepsToo, PTL DEF Spec

\* Every variable has its type, the lists of paths still to be read or written too.
THEOREM TypeCorrect == Spec => []TypeOK
<1>1. IInvToo => TypeOK
  BY TypesTogether DEF IInvToo, IInv
<1>2. QED
  BY <1>1, OrderedInvariantHolds, PTL

\* Wherever a restore is cut off, no level of it is on a speaker whose outputs the
\* backup has muted and which are not, and no output is unmuted before every level is
\* restored - for every allowlist, whatever its own order - as far as the speaker has
\* confirmed the writes and neither an entity nor other software has undone them.
THEOREM MutedBeforeLoudHolds == Spec => []MutedBeforeLoud
<1>1. ASSUME IInvToo, rs = "write", NEW m \in Mutes
      PROVE  /\ plan.values[m] = "on" /\ Begun \ Mutes # {} => m \in attempted
             /\ plan.values[m] = "off" /\ m \in Begun =>
                  \A p \in Restorable \ Mutes : plan.values[p] # Absent => p \in attempted
  <2>1. m \in Restorable
    BY DEF Restorable
  <2>2. ASSUME NEW a \in Begun, NEW i \in 1..Len(rsTodo)
        PROVE  Rank(plan, a) <= Rank(plan, rsTodo[i])
    <3>1. CASE a \in attempted
      BY <1>1, <3>1 DEF IInvToo, RestoreInOrder
    <3>2. CASE rsTodo # <<>> /\ a = Head(rsTodo)
      <4>1. 1 \in 1..Len(rsTodo) /\ 1 <= i /\ a = rsTodo[1]
        BY <1>1, <3>2 DEF IInvToo, TypedToo
      <4>2. QED
        BY <1>1, <4>1 DEF IInvToo, RestoreInOrder
    <3>3. QED
      BY <3>1, <3>2 DEF Begun
  <2>3. ASSUME plan.values[m] = "on", NEW a \in Begun, a \notin Mutes, m \notin attempted
        PROVE  FALSE
    <3>1. PICK i \in 1..Len(rsTodo) : rsTodo[i] = m
      BY <1>1, <2>1, <2>3 DEF IInvToo, RestoreInOrder, Absent
    <3>2. Rank(plan, a) <= Rank(plan, m)
      BY <2>2, <3>1
    <3>3. QED
      BY <2>3, <3>2 DEF Rank
  <2>4. ASSUME plan.values[m] = "off", m \in Begun, NEW p \in Restorable \ Mutes,
               plan.values[p] # Absent, p \notin attempted
        PROVE  FALSE
    <3>1. PICK i \in 1..Len(rsTodo) : rsTodo[i] = p
      BY <1>1, <2>4 DEF IInvToo, RestoreInOrder
    <3>2. Rank(plan, m) <= Rank(plan, p)
      BY <2>2, <2>4, <3>1
    <3>3. QED
      BY <2>4, <3>2 DEF Rank
  <2>5. QED
    BY <2>3, <2>4
<1>2. ASSUME IInvToo, rs = "write", NEW p \in attempted
      PROVE  settings[p] = plan.values[p] \/ p \in astray
  BY <1>2 DEF IInvToo, TriedHasLanded
<1>3. IInvToo => MutedBeforeLoud
  BY <1>1, <1>2 DEF MutedBeforeLoud
<1>4. QED
  BY <1>3, OrderedInvariantHolds, PTL

=============================================================================
