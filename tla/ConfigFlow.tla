----------------------------- MODULE ConfigFlow -----------------------------
(***************************************************************************)
(* The flows that create config entries (config_flow.py: manual, scan and  *)
(* discovery card), several at a time, with the store of names they share  *)
(* (storage.py).                                                           *)
(*                                                                         *)
(* A flow runs until its next await or form; between forms Home Assistant  *)
(* keeps it.  Of Home Assistant the module has what the code relies on: a  *)
(* flow that creates an entry replaces one with the same unique id and     *)
(* aborts every other flow it lists with that id, and the handler of an    *)
(* aborted flow runs on, but to no effect.  A discovery is listed from its *)
(* card on: while it asks its device for the first time it counts as in    *)
(* progress, but nobody can abort it.                                      *)
(*                                                                         *)
(* A device stands for its serial too, or for host_port if it answers      *)
(* none: both are the unique id of its entry.  Addresses that move are the *)
(* subject of Setup.tla.                                                   *)
(***************************************************************************)
EXTENDS Integers

CONSTANTS
    Flows,          \* each runs once
    Devices,
    Unidentified,   \* devices that answer no usable serial
    OtherVendor,    \* devices that are not a Neumann
    NoFlow, NoDevice,
    MaxRemovals     \* bound: entries the user removes

ASSUME FlowsAssumption ==
    /\ Unidentified \subseteq Devices /\ OtherVendor \subseteq Devices
    /\ NoFlow \notin Flows /\ NoDevice \notin Devices
    /\ MaxRemovals \in Nat

VARIABLES
    kind,           \* manual and scan are the user's, zeroconf is a discovery
    step,           \* the form a flow shows, or the await it is at
    uid,            \* the unique id in its context
    device,         \* the device it asked, or will ask
    known,          \* zeroconf: the announced speaker had an entry at the start
    aborted,        \* removed by Home Assistant while its handler was running
    entries,        \* by unique id
    names,          \* the stored name memory: the serials that have a name
    loaded,         \* what a save has loaded of it
    lock,           \* storage._SAVE_LOCK
    missed,         \* history: discoveries for whose speaker an entry was made
                    \* after they had looked for one, and not removed since
    removals        \* used-up bound

flows == <<kind, uid, device, known>>
store == <<names, loaded, lock>>
vars == <<flows, step, aborted, entries, missed, store, removals>>

Entries == [is: {"absent", "ignored", "configured"},
            device: Devices \cup {NoDevice}, by: Flows \cup {NoFlow}]

NoEntry == [is |-> "absent", device |-> NoDevice, by |-> NoFlow]
Ignored == [is |-> "ignored", device |-> NoDevice, by |-> NoFlow]

Forms  == {"name", "unsupported"}
Awaits == {"testing", "opening", "remember", "saving"}

TypeOK ==
    /\ kind \in [Flows -> {"none", "manual", "scan", "zeroconf"}]
    /\ step \in [Flows -> {"new", "done"} \cup Forms \cup Awaits]
    /\ uid \in [Flows -> Devices \cup {NoDevice}]
    /\ device \in [Flows -> Devices \cup {NoDevice}]
    /\ known \in [Flows -> BOOLEAN]
    /\ aborted \in [Flows -> BOOLEAN]
    /\ \A f \in Flows : aborted[f] => step[f] \in Awaits \cup {"done"}
    /\ entries \in [Devices -> Entries]
    /\ names \subseteq Devices
    /\ loaded \in [Flows -> SUBSET Devices]
    /\ lock \in Flows \cup {NoFlow}
    /\ lock # NoFlow => step[lock] = "saving"
    /\ missed \subseteq Flows
    /\ removals \in 0..MaxRemovals

Init ==
    /\ kind = [f \in Flows |-> "none"]
    /\ step = [f \in Flows |-> "new"]
    /\ uid = [f \in Flows |-> NoDevice]
    /\ device = [f \in Flows |-> NoDevice]
    /\ known = [f \in Flows |-> FALSE]
    /\ aborted = [f \in Flows |-> FALSE]
    /\ entries = [d \in Devices |-> NoEntry]
    /\ names = {}
    /\ loaded = [f \in Flows |-> {}]
    /\ lock = NoFlow
    /\ missed = {}
    /\ removals = 0

Identified(d) == d \notin Unidentified

(***************************************************************************)
(* Home Assistant.                                                         *)
(***************************************************************************)

InProgress(f) == step[f] \in Forms \cup Awaits /\ ~aborted[f]

\* A discovery that asks its device, or loads the name for its card, has shown
\* nothing yet, and is not listed.
InFirstStep(f) == kind[f] = "zeroconf" /\ step[f] \in {"testing", "opening"}

Listed(f) == InProgress(f) /\ ~InFirstStep(f)

\* async_set_unique_id() with raise_on_progress, as a discovery sets it.
TakenByAnother(f, id) == \E g \in Flows \ {f} : InProgress(g) /\ uid[g] = id

\* _abort_if_unique_id_configured(): the user may set up what was ignored.
SetUp(f, id) ==
    IF kind[f] = "zeroconf" THEN entries[id] # NoEntry ELSE entries[id].is = "configured"

\* A flow goes on to a form or an await; of an aborted one no form is shown.
Goes(f, to) == step' = [step EXCEPT ![f] = IF aborted[f] /\ to \notin Awaits THEN "done" ELSE to]

Ends(f) == Goes(f, "done")

\* The listed flows end with the entry of this id: those at a form at once, the
\* others when their handler returns.  A discovery in its first step goes on; if
\* it took its speaker for a new one, it has missed the entry.
EndsFor(id, ending) ==
    LET hit == ending \cup {g \in Flows : Listed(g) /\ uid[g] = id} IN
    /\ step' = [g \in Flows |-> IF g \in ending \/ (g \in hit /\ step[g] \in Forms)
                                THEN "done" ELSE step[g]]
    /\ aborted' = [g \in Flows |-> aborted[g] \/ (g \in hit \ ending /\ step[g] \in Awaits)]
    /\ missed' = missed \cup {g \in Flows : InFirstStep(g) /\ uid[g] = id
                                             /\ (~known[g] \/ step[g] = "opening")}

\* async_create_entry()
Creates(f, id) ==
    IF aborted[f] THEN Ends(f) /\ UNCHANGED <<aborted, entries, missed>>
    ELSE /\ entries' = [entries EXCEPT ![id] =
                           [is |-> "configured", device |-> device[f], by |-> f]]
         /\ EndsFor(id, {f})

\* _async_finish(): the vendor is shown first if it is another one.
Finishes(f, id) ==
    IF device[f] \in OtherVendor
    THEN Goes(f, "unsupported") /\ UNCHANGED <<aborted, entries, missed>>
    ELSE Creates(f, id)

\* Closing the dialog ends a form, and aborts a handler that is running.
UserCloses(f) ==
    /\ Listed(f)
    /\ IF step[f] \in Forms THEN Ends(f) /\ UNCHANGED aborted
       ELSE aborted' = [aborted EXCEPT ![f] = TRUE] /\ UNCHANGED step
    /\ UNCHANGED <<flows, entries, missed, store, removals>>

\* The user ignores a discovery card.
Ignores(f) ==
    /\ kind[f] = "zeroconf" /\ step[f] = "name"
    /\ entries' = [entries EXCEPT ![uid[f]] = Ignored]
    /\ EndsFor(uid[f], {f})
    /\ UNCHANGED <<flows, store, removals>>

UserRemoves(id) ==
    /\ removals < MaxRemovals /\ removals' = removals + 1
    /\ entries[id] # NoEntry
    /\ entries' = [entries EXCEPT ![id] = NoEntry]
    /\ missed' = {f \in missed : uid[f] # id}
    /\ UNCHANGED <<flows, step, aborted, store>>

(***************************************************************************)
(* The user's own flows: an address typed in, or one picked from a scan.   *)
(***************************************************************************)

Starts(f, k, d, at) ==
    /\ step[f] = "new"
    /\ kind' = [kind EXCEPT ![f] = k]
    /\ device' = [device EXCEPT ![f] = d]
    /\ step' = [step EXCEPT ![f] = at]

\* async_step_manual(): name and address are submitted together.
SubmitsManual(f, d) ==
    /\ Starts(f, "manual", d, "testing")
    /\ UNCHANGED <<uid, known, aborted, entries, missed, store, removals>>

\* async_step_scan(): of the devices that answer, the user picks one to name.  The
\* scan itself leaves nothing behind, and may be repeated.
PicksFromScan(f, d) ==
    /\ Starts(f, "scan", d, "name")
    /\ UNCHANGED <<uid, known, aborted, entries, missed, store, removals>>

\* MUTANT: whatever was in the list may be set up.
Unchecked(f, id) == TRUE

Unconfigured(f, id) == ~SetUp(f, id)

\* The common end of both: the unique id, the check, the name memory.  An open
\* card for the same speaker does not matter.
Claims(f) ==
    LET id == device[f] IN
    /\ uid' = [uid EXCEPT ![f] = id]
    /\ IF ~Unconfigured(f, id) THEN Ends(f) /\ UNCHANGED <<aborted, entries, missed>>
       ELSE IF Identified(id) THEN Goes(f, "remember") /\ UNCHANGED <<aborted, entries, missed>>
       ELSE Finishes(f, id)

\* After an address that does not answer the form is shown again.
ManualTested(f) ==
    /\ kind[f] = "manual" /\ step[f] = "testing"
    /\ \/ Claims(f) /\ UNCHANGED <<kind, device>>
       \/ /\ Goes(f, "new")
          /\ kind' = [kind EXCEPT ![f] = "none"] /\ device' = [device EXCEPT ![f] = NoDevice]
          /\ UNCHANGED <<uid, aborted, entries, missed>>
    /\ UNCHANGED <<known, store, removals>>

\* async_step_scan_confirm()
NamesScanned(f) ==
    /\ kind[f] = "scan" /\ step[f] = "name"
    /\ Claims(f)
    /\ UNCHANGED <<kind, device, known, store, removals>>

(***************************************************************************)
(* A discovery (async_step_zeroconf, async_step_zeroconf_confirm).         *)
(***************************************************************************)

\* An announcement of a serial, at the address of a device.  Whether there is an
\* entry for it is looked up before the device is asked, and one that has this
\* address already ends the flow.
Discovers(f, claimed, d) ==
    /\ \/ ~TakenByAnother(f, claimed) /\ Starts(f, "zeroconf", d, "testing")
       \/ /\ TakenByAnother(f, claimed) \/ entries[claimed] # NoEntry
          /\ Starts(f, "zeroconf", d, "done")
    /\ uid' = [uid EXCEPT ![f] = claimed]
    /\ known' = [known EXCEPT ![f] = entries[claimed] # NoEntry]
    /\ UNCHANGED <<aborted, entries, missed, store, removals>>

\* MUTANT: the announced serial is kept.
AnchoredAsAnnounced(f) == uid[f]

\* The device is the authority on its serial.
Anchor(f) == device[f]

\* MUTANT: the other id is only set.
AnchoredBlindly(f) == TRUE

\* The device answers with another serial than announced: the id of the flow
\* changes, and is checked like the first.
MayAnchor(f) ==
    Anchor(f) # uid[f] => ~TakenByAnother(f, Anchor(f)) /\ ~SetUp(f, Anchor(f))

\* For a known speaker the address in the entry is updated; see Setup.tla.
DeviceConfirms(f) ==
    /\ Identified(device[f])
    /\ known[f] => device[f] = uid[f] /\ ~SetUp(f, uid[f])
    /\ MayAnchor(f)

DiscoveryTested(f) ==
    /\ kind[f] = "zeroconf" /\ step[f] = "testing"
    /\ \/ /\ DeviceConfirms(f)
          /\ uid' = [uid EXCEPT ![f] = Anchor(f)]
          /\ missed' = IF Anchor(f) # uid[f] THEN missed \ {f} ELSE missed
          /\ Goes(f, "opening")
       \/ Ends(f) /\ UNCHANGED <<uid, missed>>
    /\ UNCHANGED <<kind, device, known, aborted, entries, store, removals>>

\* _name_schema(): the stored name is loaded first; nothing is checked again.
ShowsCard(f) ==
    /\ step[f] = "opening"
    /\ Goes(f, "name")
    /\ UNCHANGED <<flows, aborted, entries, missed, store, removals>>

NamesDiscovered(f) ==
    /\ kind[f] = "zeroconf" /\ step[f] = "name"
    /\ Goes(f, "remember")
    /\ UNCHANGED <<flows, aborted, entries, missed, store, removals>>

ConfirmsUnsupported(f) ==
    /\ step[f] = "unsupported"
    /\ Creates(f, uid[f])
    /\ UNCHANGED <<flows, store, removals>>

(***************************************************************************)
(* The name memory (storage.async_remember_name).                          *)
(***************************************************************************)

\* MUTANT: nothing serialises two saves.
NoLock == TRUE

LockIsFree == lock = NoFlow

LoadsNames(f) ==
    /\ step[f] = "remember"
    /\ LockIsFree
    /\ lock' = f
    /\ loaded' = [loaded EXCEPT ![f] = names]
    /\ Goes(f, "saving")
    /\ UNCHANGED <<flows, aborted, entries, missed, names, removals>>

\* MUTANT: the lock is not given back.
KeepsLock == UNCHANGED lock

Unlocks == lock' = NoFlow

SavesNames(f) ==
    /\ step[f] = "saving"
    /\ names' = loaded[f] \cup {uid[f]}
    /\ loaded' = [loaded EXCEPT ![f] = {}]
    /\ Unlocks
    /\ Finishes(f, uid[f])
    /\ UNCHANGED <<flows, removals>>

(***************************************************************************)
(* The specification.                                                      *)
(***************************************************************************)

UserStep(f) ==
    \/ \E d \in Devices : SubmitsManual(f, d) \/ PicksFromScan(f, d)
    \/ NamesScanned(f) \/ NamesDiscovered(f)
    \/ ConfirmsUnsupported(f) \/ UserCloses(f) \/ Ignores(f)

FlowStep(f) ==
    \/ ManualTested(f) \/ DiscoveryTested(f) \/ ShowsCard(f)
    \/ LoadsNames(f) \/ SavesNames(f)

Next ==
    \/ \E f \in Flows : UserStep(f) \/ FlowStep(f)
    \/ \E f \in Flows, claimed, d \in Devices : Discovers(f, claimed, d)
    \/ \E id \in Devices : UserRemoves(id)

Spec == Init /\ [][Next]_vars

(***************************************************************************)
(* Properties.                                                             *)
(***************************************************************************)

\* An entry that is set up is not replaced by another flow, which would take its
\* entities and history with it, however the flows overlap
\* (_abort_if_unique_id_configured in each of them).  The exception is the card of
\* a discovery that was in its first step while the entry was made: nothing is
\* checked again before the user confirms or ignores it (async_step_zeroconf).
NoEntryReplaced ==
    [][\A id \in Devices :
         entries[id].is = "configured" /\ entries'[id] \notin {entries[id], NoEntry}
         => \E f \in missed : uid[f] = id /\ (entries'[id].by = f \/ entries'[id] = Ignored)]_vars

\* The unique id of an entry is what its device reports, never what somebody
\* announced (async_step_zeroconf).
AnchoredOnTheDevice ==
    \A id \in Devices : entries[id].is = "configured" => entries[id].device = id

\* A discovery card stands only for a speaker that has no entry and is not
\* ignored, unless the entry was made while the discovery was in its first step; and
\* there is only one (async_step_zeroconf).
CardsAreForNewSpeakers ==
    \A f \in Flows : kind[f] = "zeroconf" /\ step[f] = "name" =>
        /\ entries[uid[f]] = NoEntry \/ f \in missed
        /\ \A g \in Flows \ {f} : kind[g] = "zeroconf" /\ step[g] = "name" => uid[g] # uid[f]

\* No name is lost from the memory: every speaker that was set up has one, for
\* when it is set up again (storage._save_entry).
EveryNameRemembered ==
    \A id \in Devices : entries[id].is = "configured" /\ Identified(id) => id \in names

=============================================================================
