-------------------------- MODULE ConfigFlowProofs --------------------------
(***************************************************************************)
(* Safety of the config flows for every number of flows, devices and       *)
(* removals, by one inductive invariant.                                   *)
(***************************************************************************)
EXTENDS ConfigFlow, TLAPS

(***************************************************************************)
(* The inductive invariant.                                                *)
(***************************************************************************)

\* A flow past the check of its unique id: what remains is to create the entry.
Claiming(f) ==
    \/ step[f] \in {"remember", "saving", "unsupported"}
    \/ kind[f] = "zeroconf" /\ step[f] \in {"opening", "name"}

\* Every flow that runs has a device, and a discovery a unique id from the start.
FlowsAreBound ==
    \A f \in Flows :
        /\ step[f] \in Forms \cup Awaits => device[f] \in Devices /\ kind[f] # "none"
        /\ step[f] = "opening" => kind[f] = "zeroconf"
        /\ step[f] # "new" /\ kind[f] = "zeroconf" => uid[f] \in Devices
        /\ kind[f] = "zeroconf" => step[f] # "new"

\* What a flow claims is what its device says it is.
ClaimsAreAnchored == \A f \in Flows : Claiming(f) => uid[f] = device[f]

\* Nobody else has set it up since the check, or this flow is no longer wanted, or
\* it has missed the entry.
ClaimsAreFree ==
    \A f \in Flows : Claiming(f) /\ ~aborted[f] /\ f \notin missed
                     => entries[uid[f]].is # "configured"

\* A save works on the memory as it is, because it has the lock.
SavesAreCurrent ==
    \A f \in Flows : step[f] = "saving" => lock = f /\ loaded[f] = names

\* The name is saved before the form about another vendor is shown.
NamedBefore ==
    \A f \in Flows : step[f] = "unsupported" /\ Identified(uid[f]) => uid[f] \in names

\* Two discoveries never stand for the same speaker.
DiscoveriesDiffer ==
    \A f, g \in Flows :
        /\ f # g /\ kind[f] = "zeroconf" /\ kind[g] = "zeroconf"
        /\ InProgress(f) /\ InProgress(g)
        => uid[f] # uid[g]

\* One that began for a new speaker is still for a new speaker, as far as it has
\* not missed an entry.
DiscoveriesAreNew ==
    \A f \in Flows :
        /\ kind[f] = "zeroconf" /\ ~aborted[f] /\ f \notin missed
        /\ step[f] \in {"opening", "name"} \/ (step[f] = "testing" /\ ~known[f])
        => entries[uid[f]] = NoEntry

IInv ==
    /\ TypeOK
    /\ FlowsAreBound
    /\ ClaimsAreAnchored
    /\ ClaimsAreFree
    /\ SavesAreCurrent
    /\ NamedBefore
    /\ DiscoveriesDiffer
    /\ DiscoveriesAreNew
    /\ AnchoredOnTheDevice
    /\ EveryNameRemembered

(***************************************************************************)
(* It holds initially.                                                     *)
(***************************************************************************)

LEMMA NoEntryIsAbsent == NoEntry \in Entries /\ NoEntry.is # "configured"
BY DEF NoEntry, Entries

LEMMA InitHolds == Init => IInv
<1> SUFFICES ASSUME Init PROVE IInv
  OBVIOUS
<1> USE FlowsAssumption, NoEntryIsAbsent DEF Init
<1>1. TypeOK
  BY DEF TypeOK
<1>2. \A f \in Flows : ~Claiming(f) /\ ~InProgress(f)
  BY DEF Claiming, InProgress, Forms, Awaits
<1>3. QED
  BY <1>1, <1>2
     DEF IInv, FlowsAreBound, ClaimsAreAnchored, ClaimsAreFree, SavesAreCurrent, NamedBefore,
         DiscoveriesDiffer, DiscoveriesAreNew, AnchoredOnTheDevice, EveryNameRemembered,
         Forms, Awaits

(***************************************************************************)
(* The two ways a flow goes on: to another form or await, or to its entry. *)
(* Both lemmas take what the action has checked as assumptions.            *)
(***************************************************************************)

Steps == {"new", "done"} \cup Forms \cup Awaits

\* What holds of the lock and of what a save has loaded, once a step is done.
StoreKept ==
    /\ lock \in Flows \cup {NoFlow}
    /\ lock # NoFlow => step[lock] = "saving"
    /\ loaded \in [Flows -> SUBSET Devices]
    /\ SavesAreCurrent

\* A flow at work goes on, after the checks that the place it goes to needs.
LEMMA GoingKeeps ==
    ASSUME IInv, StoreKept',
           NEW f \in Flows, NEW to \in Steps, NEW id \in Devices \cup {NoDevice},
           step[f] \in Forms \cup Awaits, Goes(f, to), to \notin {"new", "testing"},
           uid' = [uid EXCEPT ![f] = id],
           names \subseteq names', names' \subseteq Devices,
           UNCHANGED <<kind, device, known, aborted, entries, removals>>,
           missed' = missed \/ missed' = missed \ {f},
           to = "opening" => kind[f] = "zeroconf",
           (to \in {"remember", "saving", "unsupported"}
              \/ (kind[f] = "zeroconf" /\ to \in {"opening", "name"}))
             => id = device[f] /\ (~aborted[f] /\ f \notin missed' => entries[id].is # "configured"),
           to = "unsupported" /\ Identified(id) => id \in names',
           kind[f] = "zeroconf" =>
             /\ id \in Devices
             /\ id # uid[f] => ~TakenByAnother(f, id)
             /\ to \in {"opening", "name"} /\ ~aborted[f] /\ f \notin missed' => entries[id] = NoEntry
    PROVE  IInv'
<1>t. TypeOK /\ TypeOK'
  BY DEF IInv, TypeOK, StoreKept, Goes, Steps, Forms, Awaits
<1>1. /\ step'[f] \in {to, "done"} /\ uid'[f] = id
      /\ aborted[f] => step'[f] \in Awaits \cup {"done"}
      /\ \A g \in Flows \ {f} : step'[g] = step[g] /\ uid'[g] = uid[g]
  BY <1>t DEF TypeOK, Goes
<1>2. FlowsAreBound' /\ ClaimsAreAnchored'
  BY <1>t, <1>1 DEF IInv, FlowsAreBound, ClaimsAreAnchored, Claiming, Forms, Awaits
<1>3. ClaimsAreFree'
  BY <1>t, <1>1 DEF IInv, ClaimsAreFree, Claiming
<1>4. NamedBefore' /\ EveryNameRemembered' /\ AnchoredOnTheDevice'
  BY <1>t, <1>1 DEF IInv, NamedBefore, EveryNameRemembered, AnchoredOnTheDevice, Identified
<1>5. DiscoveriesDiffer'
  BY <1>t, <1>1 DEF IInv, DiscoveriesDiffer, InProgress, TakenByAnother, Forms, Awaits
<1>6. DiscoveriesAreNew'
  BY <1>t, <1>1 DEF IInv, DiscoveriesAreNew, TypeOK, Awaits
<1>7. QED
  BY <1>t, <1>2, <1>3, <1>4, <1>5, <1>6 DEF IInv, StoreKept

\* Whoever else is at work on the id of a new or ignored entry comes to nothing.
LEMMA EndingKeeps ==
    ASSUME IInv, StoreKept',
           NEW f \in Flows, NEW id \in Devices, NEW entry \in Entries,
           step[f] \in Forms \cup Awaits, ~aborted[f], EndsFor(id, {f}),
           uid' = [uid EXCEPT ![f] = id],
           names \subseteq names', names' \subseteq Devices,
           UNCHANGED <<kind, device, known, removals>>,
           entries' = [entries EXCEPT ![id] = entry],
           kind[f] = "zeroconf" => uid[f] = id,
           entry.is = "configured" =>
             entry.device = id /\ (Identified(id) => id \in names')
    PROVE  IInv'
<1>t. TypeOK
  BY DEF IInv
<1>1. \A g \in Flows \ {f} :
        /\ uid'[g] = uid[g]
        /\ step'[g] = step[g] \/ (step[g] \in Forms /\ step'[g] = "done")
        /\ aborted[g] => aborted'[g]
        /\ step[g] \in Awaits => step'[g] = step[g]
        /\ aborted'[g] => step'[g] \in Awaits \cup {"done"}
        /\ step'[g] \in Forms \cup Awaits /\ ~aborted'[g]
             => (uid[g] # id \/ InFirstStep(g)) /\ ~aborted[g]
        /\ g \in missed => g \in missed'
        /\ InFirstStep(g) /\ uid[g] = id /\ (~known[g] \/ step[g] = "opening")
             => g \in missed'
  BY <1>t DEF TypeOK, EndsFor, Listed, InProgress, Forms, Awaits
<1>2. step'[f] = "done" /\ uid'[f] = id /\ aborted'[f] = aborted[f]
  BY <1>t DEF TypeOK, EndsFor
<1>3. TypeOK'
  <2>1. step' \in [Flows -> Steps] /\ aborted' \in [Flows -> BOOLEAN]
    BY <1>t DEF TypeOK, EndsFor, Steps
  <2>2. entries' \in [Devices -> Entries] /\ uid' \in [Flows -> Devices \cup {NoDevice}]
    BY <1>t DEF TypeOK
  <2>3. \A g \in Flows : aborted'[g] => step'[g] \in Awaits \cup {"done"}
    BY <1>1, <1>2
  <2>4. QED
    BY <1>t, <2>1, <2>2, <2>3 DEF TypeOK, StoreKept, Steps, EndsFor
<1>4. FlowsAreBound' /\ ClaimsAreAnchored'
  BY <1>t, <1>1, <1>2 DEF IInv, FlowsAreBound, ClaimsAreAnchored, Claiming, Forms, Awaits
<1>5. \A d \in Devices : entries'[d] = IF d = id THEN entry ELSE entries[d]
  BY <1>t DEF TypeOK
<1>6. ClaimsAreFree' /\ DiscoveriesAreNew'
  <2> SUFFICES ASSUME NEW g \in Flows
               PROVE  /\ (Claiming(g) /\ ~aborted[g] /\ g \notin missed
                          => entries[uid[g]].is # "configured")'
                      /\ (/\ kind[g] = "zeroconf" /\ ~aborted[g] /\ g \notin missed
                          /\ step[g] \in {"opening", "name"}
                             \/ (step[g] = "testing" /\ ~known[g])
                          => entries[uid[g]] = NoEntry)'
    BY DEF ClaimsAreFree, DiscoveriesAreNew
  <2>1. CASE g = f
    BY <2>1, <1>2 DEF Claiming
  <2>2. CASE g # f /\ step'[g] \in Forms \cup Awaits /\ ~aborted'[g]
    <3>1. /\ uid[g] # id \/ InFirstStep(g)
          /\ ~aborted[g] /\ step'[g] = step[g] /\ uid'[g] = uid[g]
          /\ g \in missed => g \in missed'
          /\ InFirstStep(g) /\ uid[g] = id /\ (~known[g] \/ step[g] = "opening")
               => g \in missed'
      BY <1>1, <2>2 DEF Forms, Awaits
    <3>2. Claiming(g) => uid[g] \in Devices
      BY DEF IInv, FlowsAreBound, ClaimsAreAnchored, Claiming, Forms, Awaits
    <3>3. kind[g] = "zeroconf" => uid[g] \in Devices
      BY DEF IInv, FlowsAreBound
    <3>4. QED
      BY <1>5, <3>1, <3>2, <3>3
         DEF IInv, ClaimsAreFree, DiscoveriesAreNew, Claiming, InFirstStep
  <2>3. CASE g # f /\ ~(step'[g] \in Forms \cup Awaits /\ ~aborted'[g])
    BY <2>3 DEF Claiming, Forms, Awaits
  <2>4. QED
    BY <2>1, <2>2, <2>3
<1>7. NamedBefore'
  BY <1>t, <1>1, <1>2 DEF IInv, NamedBefore, Identified
<1>8. AnchoredOnTheDevice' /\ EveryNameRemembered'
  BY <1>t, <1>5 DEF IInv, AnchoredOnTheDevice, EveryNameRemembered, Identified
<1>9. DiscoveriesDiffer'
  BY <1>t, <1>1, <1>2 DEF IInv, DiscoveriesDiffer, InProgress, Forms, Awaits
<1>10. QED
  BY <1>3, <1>4, <1>6, <1>7, <1>8, <1>9 DEF IInv, StoreKept

\* A flow creates its entry, or shows first that it is of another vendor.
LEMMA FinishingKeeps ==
    ASSUME IInv, StoreKept',
           NEW f \in Flows, NEW id \in Devices,
           step[f] \in Forms \cup Awaits, Finishes(f, id) \/ Creates(f, id),
           device[f] = id, uid' = [uid EXCEPT ![f] = id],
           names \subseteq names', names' \subseteq Devices,
           UNCHANGED <<kind, device, known, removals>>,
           Identified(id) => id \in names',
           ~aborted[f] /\ f \notin missed => entries[id].is # "configured",
           kind[f] = "zeroconf" => uid[f] = id
    PROVE  IInv'
<1>1. CASE Finishes(f, id) /\ device[f] \in OtherVendor
  BY <1>1, GoingKeeps DEF Finishes, Steps, Forms
<1>2. CASE Creates(f, id)
  <2>1. CASE aborted[f]
    BY <1>2, <2>1, GoingKeeps DEF Creates, Ends, Steps
  <2>2. CASE ~aborted[f]
    <3> DEFINE entry == [is |-> "configured", device |-> device[f], by |-> f]
    <3>1. entry \in Entries
      BY DEF Entries
    <3>2. EndsFor(id, {f}) /\ entries' = [entries EXCEPT ![id] = entry]
      BY <1>2, <2>2 DEF Creates
    <3>3. entry.is = "configured" /\ entry.device = id
      OBVIOUS
    <3> HIDE DEF entry
    <3>4. QED
      BY <2>2, <3>1, <3>2, <3>3, EndingKeeps
  <2>3. QED
    BY <2>1, <2>2
<1>3. QED
  BY <1>1, <1>2 DEF Finishes

(***************************************************************************)
(* Every step keeps it.                                                    *)
(***************************************************************************)

\* A flow that starts, or whose form is shown again after a wrong address.
LEMMA StartingKeeps ==
    ASSUME IInv, NEW f \in Flows, NEW d \in Devices,
           SubmitsManual(f, d) \/ PicksFromScan(f, d)
    PROVE  IInv'
<1>t. TypeOK
  BY DEF IInv
<1>1. /\ UNCHANGED <<uid, known, aborted, entries, missed, store, removals>>
      /\ step[f] = "new" /\ step'[f] \in {"testing", "name"}
      /\ kind'[f] \in {"manual", "scan"} /\ device'[f] = d
      /\ step'[f] = "name" => kind'[f] = "scan"
      /\ \A g \in Flows \ {f} : step'[g] = step[g] /\ kind'[g] = kind[g] /\ device'[g] = device[g]
  BY <1>t DEF SubmitsManual, PicksFromScan, Starts, TypeOK
<1>2. TypeOK'
  BY <1>t, <1>1 DEF SubmitsManual, PicksFromScan, Starts, TypeOK, store, Forms, Awaits
<1>3. QED
  BY <1>t, <1>1, <1>2
     DEF IInv, TypeOK, store, FlowsAreBound, ClaimsAreAnchored, ClaimsAreFree, Claiming,
         SavesAreCurrent, NamedBefore, DiscoveriesDiffer, DiscoveriesAreNew, InProgress,
         AnchoredOnTheDevice, EveryNameRemembered, Forms, Awaits

LEMMA DiscoveringKeeps ==
    ASSUME IInv, NEW f \in Flows, NEW claimed \in Devices, NEW d \in Devices,
           Discovers(f, claimed, d)
    PROVE  IInv'
<1>t. TypeOK
  BY DEF IInv
<1>1. /\ UNCHANGED <<aborted, entries, missed, store, removals>>
      /\ step[f] = "new" /\ step'[f] \in {"testing", "done"}
      /\ kind'[f] = "zeroconf" /\ device'[f] = d /\ uid'[f] = claimed
      /\ known'[f] = (entries[claimed] # NoEntry)
      /\ step'[f] = "testing" => ~TakenByAnother(f, claimed)
      /\ \A g \in Flows \ {f} : /\ step'[g] = step[g] /\ kind'[g] = kind[g]
                                /\ device'[g] = device[g] /\ uid'[g] = uid[g]
                                /\ known'[g] = known[g]
  BY <1>t DEF Discovers, Starts, TypeOK
<1>2. TypeOK'
  BY <1>t, <1>1 DEF Discovers, Starts, TypeOK, store, Forms, Awaits
<1>3. DiscoveriesDiffer'
  BY <1>t, <1>1
     DEF IInv, DiscoveriesDiffer, InProgress, TakenByAnother, Forms, Awaits
<1>4. QED
  BY <1>t, <1>1, <1>2, <1>3
     DEF IInv, TypeOK, store, FlowsAreBound, ClaimsAreAnchored, ClaimsAreFree, Claiming,
         SavesAreCurrent, NamedBefore, DiscoveriesAreNew,
         AnchoredOnTheDevice, EveryNameRemembered

\* What is kept while nothing happens to the name memory.
LEMMA StoreKeeps ==
    ASSUME IInv, UNCHANGED store,
           \A f \in Flows : step'[f] = "saving" <=> step[f] = "saving"
    PROVE  StoreKept'
BY DEF IInv, TypeOK, StoreKept, SavesAreCurrent, store

\* The unique id is taken over and checked (the common end of manual and scan).
LEMMA ClaimingKeeps ==
    ASSUME IInv, NEW f \in Flows, Claims(f),
           step[f] \in {"testing", "name"}, kind[f] \in {"manual", "scan"},
           UNCHANGED <<kind, device, known, store, removals>>
    PROVE  IInv'
<1>t. TypeOK /\ device[f] \in Devices
  BY DEF IInv, FlowsAreBound, Forms, Awaits
<1> DEFINE id == device[f]
<1>1. uid' = [uid EXCEPT ![f] = id] /\ names' = names /\ names \subseteq Devices
  BY <1>t DEF Claims, store, TypeOK
<1>2. \A g \in Flows : step'[g] = "saving" <=> step[g] = "saving"
  BY <1>t DEF Claims, Ends, Goes, Finishes, Creates, EndsFor, Listed, InProgress, TypeOK, Forms, Awaits
<1>3. StoreKept'
  BY <1>2, StoreKeeps
<1>4. CASE Ends(f) /\ UNCHANGED <<aborted, entries, missed>>
  BY <1>t, <1>1, <1>3, <1>4, GoingKeeps DEF Ends, Steps, Forms, Awaits
<1>5. CASE Identified(id) /\ Goes(f, "remember") /\ Unconfigured(f, id)
           /\ UNCHANGED <<aborted, entries, missed>>
  BY <1>t, <1>1, <1>3, <1>5, GoingKeeps DEF Steps, Forms, Awaits, Unconfigured, SetUp
<1>6. CASE ~Identified(id) /\ Finishes(f, id) /\ Unconfigured(f, id)
  BY <1>t, <1>1, <1>3, <1>6, FinishingKeeps DEF Forms, Awaits, Unconfigured, SetUp
<1>7. QED
  BY <1>4, <1>5, <1>6 DEF Claims

LEMMA UserFlowKeeps ==
    ASSUME IInv, NEW f \in Flows, ManualTested(f) \/ NamesScanned(f)
    PROVE  IInv'
<1>t. TypeOK
  BY DEF IInv
<1>1. CASE Claims(f) /\ UNCHANGED <<kind, device, known, store, removals>>
  BY <1>1, ClaimingKeeps DEF ManualTested, NamesScanned
<1>2. CASE /\ kind[f] = "manual" /\ step[f] = "testing" /\ Goes(f, "new")
           /\ kind' = [kind EXCEPT ![f] = "none"] /\ device' = [device EXCEPT ![f] = NoDevice]
           /\ UNCHANGED <<uid, known, aborted, entries, missed, store, removals>>
  <2>1. /\ step'[f] \in {"new", "done"} /\ (aborted[f] <=> step'[f] = "done")
        /\ \A g \in Flows \ {f} : step'[g] = step[g] /\ kind'[g] = kind[g] /\ device'[g] = device[g]
    BY <1>t, <1>2 DEF Goes, TypeOK, Awaits
  <2>2. TypeOK'
    BY <1>t, <1>2, <2>1 DEF Goes, TypeOK, store, Awaits
  <2>3. QED
    BY <1>t, <1>2, <2>1, <2>2
       DEF IInv, TypeOK, store, FlowsAreBound, ClaimsAreAnchored, ClaimsAreFree, Claiming,
           SavesAreCurrent, NamedBefore, DiscoveriesDiffer, DiscoveriesAreNew, InProgress,
           AnchoredOnTheDevice, EveryNameRemembered, Forms, Awaits
<1>3. QED
  BY <1>1, <1>2 DEF ManualTested, NamesScanned

\* The device has answered: the id is its own, or the flow ends.
LEMMA DiscoveryTestedKeeps ==
    ASSUME IInv, NEW f \in Flows, DiscoveryTested(f)
    PROVE  IInv'
<1>t. TypeOK /\ device[f] \in Devices /\ uid[f] \in Devices
  BY DEF IInv, FlowsAreBound, DiscoveryTested, Forms, Awaits
<1>1. /\ kind[f] = "zeroconf" /\ step[f] = "testing" /\ step[f] \in Forms \cup Awaits
      /\ UNCHANGED <<kind, device, known, aborted, entries, store, removals>>
      /\ names' = names /\ names \subseteq Devices
  BY <1>t DEF DiscoveryTested, Forms, Awaits, store, TypeOK
<1>2. \A g \in Flows : step'[g] = "saving" <=> step[g] = "saving"
  BY <1>t, <1>1 DEF DiscoveryTested, Ends, Goes, TypeOK
<1>3. StoreKept'
  BY <1>1, <1>2, StoreKeeps
<1>4. CASE /\ DeviceConfirms(f) /\ uid' = [uid EXCEPT ![f] = Anchor(f)] /\ Goes(f, "opening")
           /\ missed' = IF Anchor(f) # uid[f] THEN missed \ {f} ELSE missed
  <2>1. Anchor(f) # uid[f] => ~TakenByAnother(f, Anchor(f))
    BY <1>4 DEF DeviceConfirms, MayAnchor
  <2>2. ~aborted[f] /\ f \notin missed' => entries[Anchor(f)] = NoEntry
    BY <1>t, <1>1, <1>4
       DEF DeviceConfirms, MayAnchor, SetUp, Anchor, IInv, DiscoveriesAreNew, TypeOK
  <2>3. QED
    BY <1>t, <1>1, <1>3, <1>4, <2>1, <2>2, NoEntryIsAbsent, GoingKeeps
       DEF Anchor, Steps, Awaits
<1>5. CASE Ends(f) /\ UNCHANGED <<uid, missed>>
  <2>1. uid' = [uid EXCEPT ![f] = uid[f]]
    BY <1>t, <1>5 DEF TypeOK
  <2>2. QED
    BY <1>t, <1>1, <1>3, <1>5, <2>1, GoingKeeps DEF Ends, Steps
<1>6. QED
  BY <1>4, <1>5 DEF DiscoveryTested

LEMMA ShowsCardKeeps ==
    ASSUME IInv, NEW f \in Flows, ShowsCard(f)
    PROVE  IInv'
<1>t. TypeOK /\ kind[f] = "zeroconf" /\ uid[f] \in Devices
  BY DEF IInv, FlowsAreBound, ShowsCard, Forms, Awaits
<1>1. /\ step[f] = "opening" /\ step[f] \in Forms \cup Awaits
      /\ Goes(f, "name") /\ uid' = [uid EXCEPT ![f] = uid[f]]
      /\ UNCHANGED <<kind, device, known, aborted, entries, missed, store, removals>>
      /\ names' = names /\ names \subseteq Devices
  BY <1>t DEF ShowsCard, Awaits, store, flows, TypeOK
<1>2. \A g \in Flows : step'[g] = "saving" <=> step[g] = "saving"
  BY <1>t, <1>1 DEF Goes, TypeOK
<1>3. StoreKept'
  BY <1>1, <1>2, StoreKeeps
<1>4. uid[f] = device[f] /\ (~aborted[f] /\ f \notin missed => entries[uid[f]] = NoEntry)
  BY <1>t, <1>1 DEF IInv, ClaimsAreAnchored, DiscoveriesAreNew, Claiming
<1>5. QED
  BY <1>t, <1>1, <1>3, <1>4, NoEntryIsAbsent, GoingKeeps DEF Steps, Forms

LEMMA NamesDiscoveredKeeps ==
    ASSUME IInv, NEW f \in Flows, NamesDiscovered(f)
    PROVE  IInv'
<1>t. TypeOK /\ uid[f] \in Devices
  BY DEF IInv, FlowsAreBound, NamesDiscovered, Forms, Awaits
<1>1. /\ kind[f] = "zeroconf" /\ step[f] = "name" /\ step[f] \in Forms \cup Awaits
      /\ Goes(f, "remember") /\ uid' = [uid EXCEPT ![f] = uid[f]]
      /\ UNCHANGED <<kind, device, known, aborted, entries, missed, store, removals>>
      /\ names' = names /\ names \subseteq Devices
  BY <1>t DEF NamesDiscovered, Forms, store, flows, TypeOK
<1>2. \A g \in Flows : step'[g] = "saving" <=> step[g] = "saving"
  BY <1>t, <1>1 DEF Goes, TypeOK
<1>3. StoreKept'
  BY <1>1, <1>2, StoreKeeps
<1>4. uid[f] = device[f] /\ (~aborted[f] /\ f \notin missed => entries[uid[f]].is # "configured")
  BY <1>1 DEF IInv, ClaimsAreAnchored, ClaimsAreFree, Claiming
<1>5. QED
  BY <1>t, <1>1, <1>3, <1>4, GoingKeeps DEF Steps, Awaits

LEMMA ConfirmsUnsupportedKeeps ==
    ASSUME IInv, NEW f \in Flows, ConfirmsUnsupported(f)
    PROVE  IInv'
<1>t. TypeOK
  BY DEF IInv
<1>1. /\ step[f] = "unsupported" /\ step[f] \in Forms \cup Awaits
      /\ Creates(f, uid[f]) /\ uid' = [uid EXCEPT ![f] = uid[f]]
      /\ UNCHANGED <<kind, device, known, store, removals>>
      /\ names' = names /\ names \subseteq Devices
  BY <1>t DEF ConfirmsUnsupported, Forms, store, flows, TypeOK
<1>2. \A g \in Flows : step'[g] = "saving" <=> step[g] = "saving"
  BY <1>t, <1>1 DEF Creates, Ends, Goes, EndsFor, Listed, InProgress, TypeOK, Forms, Awaits
<1>3. StoreKept'
  BY <1>1, <1>2, StoreKeeps
<1>4. uid[f] = device[f] /\ device[f] \in Devices
      /\ (~aborted[f] /\ f \notin missed => entries[uid[f]].is # "configured")
      /\ (Identified(uid[f]) => uid[f] \in names)
  BY <1>1 DEF IInv, ClaimsAreAnchored, ClaimsAreFree, Claiming, FlowsAreBound, NamedBefore
<1>5. QED
  BY <1>1, <1>3, <1>4, FinishingKeeps

LEMMA UserClosesKeeps ==
    ASSUME IInv, NEW f \in Flows, UserCloses(f)
    PROVE  IInv'
<1>t. TypeOK
  BY DEF IInv
<1>1. /\ step[f] \in Forms \cup Awaits /\ uid' = [uid EXCEPT ![f] = uid[f]]
      /\ UNCHANGED <<kind, uid, device, known, entries, missed, store, removals>>
      /\ names' = names /\ names \subseteq Devices
  BY <1>t DEF UserCloses, Listed, InProgress, flows, store, TypeOK
<1>2. \A g \in Flows : step'[g] = "saving" <=> step[g] = "saving"
  BY <1>t, <1>1 DEF UserCloses, Ends, Goes, TypeOK, Forms
<1>3. StoreKept'
  BY <1>1, <1>2, StoreKeeps
<1>4. CASE step[f] \in Forms
  <2>1. Goes(f, "done") /\ UNCHANGED aborted
    BY <1>4 DEF UserCloses, Ends
  <2>2. kind[f] = "zeroconf" => uid[f] \in Devices
    BY <1>1 DEF IInv, FlowsAreBound, Forms, Awaits
  <2>3. uid[f] \in Devices \cup {NoDevice}
    BY <1>t DEF TypeOK
  <2>4. QED
    BY <1>1, <1>3, <2>1, <2>2, <2>3, GoingKeeps DEF Steps
<1>5. CASE step[f] \in Awaits
  <2>1. aborted' = [aborted EXCEPT ![f] = TRUE] /\ UNCHANGED step
    BY <1>5 DEF UserCloses, Forms, Awaits
  <2>2. \A g \in Flows : aborted[g] => aborted'[g]
    BY <1>t, <2>1 DEF TypeOK
  <2>3. TypeOK'
    BY <1>t, <1>1, <1>5, <2>1 DEF TypeOK, store
  <2>4. QED
    BY <1>t, <1>1, <1>3, <2>1, <2>2, <2>3
       DEF IInv, StoreKept, FlowsAreBound, ClaimsAreAnchored, ClaimsAreFree, Claiming,
           NamedBefore, DiscoveriesDiffer, DiscoveriesAreNew, InProgress,
           AnchoredOnTheDevice, EveryNameRemembered
<1>6. QED
  BY <1>1, <1>4, <1>5

LEMMA IgnoresKeeps ==
    ASSUME IInv, NEW f \in Flows, Ignores(f)
    PROVE  IInv'
<1>t. TypeOK /\ uid[f] \in Devices
  BY DEF IInv, FlowsAreBound, Ignores, Forms, Awaits
<1>1. /\ kind[f] = "zeroconf" /\ step[f] \in Forms \cup Awaits /\ ~aborted[f]
      /\ EndsFor(uid[f], {f}) /\ uid' = [uid EXCEPT ![f] = uid[f]]
      /\ entries' = [entries EXCEPT ![uid[f]] = Ignored]
      /\ UNCHANGED <<kind, device, known, store, removals>>
      /\ names' = names /\ names \subseteq Devices
  BY <1>t DEF Ignores, Forms, Awaits, store, flows, TypeOK
<1>2. \A g \in Flows : step'[g] = "saving" <=> step[g] = "saving"
  BY <1>t, <1>1 DEF Ignores, EndsFor, Listed, InProgress, TypeOK, Forms, Awaits
<1>3. StoreKept'
  BY <1>1, <1>2, StoreKeeps
<1>4. Ignored \in Entries /\ Ignored.is # "configured"
  BY DEF Ignored, Entries
<1>5. QED
  BY <1>t, <1>1, <1>3, <1>4, EndingKeeps

LEMMA UserRemovesKeeps ==
    ASSUME IInv, NEW id \in Devices, UserRemoves(id)
    PROVE  IInv'
<1>t. TypeOK
  BY DEF IInv
<1>1. /\ UNCHANGED <<kind, uid, device, known, step, aborted, names, loaded, lock>>
      /\ \A d \in Devices : entries'[d] = IF d = id THEN NoEntry ELSE entries[d]
      /\ missed' \subseteq missed
      /\ \A f \in Flows : f \in missed /\ f \notin missed' => uid[f] = id
  BY <1>t DEF UserRemoves, flows, store, TypeOK
<1>2. TypeOK'
  BY <1>t, <1>1, NoEntryIsAbsent, FlowsAssumption DEF UserRemoves, TypeOK
<1>3. \A f \in Flows : Claiming(f) => uid[f] \in Devices
  BY DEF IInv, FlowsAreBound, ClaimsAreAnchored, Claiming, Forms, Awaits
<1>4. ClaimsAreFree' /\ DiscoveriesAreNew'
  BY <1>1, <1>3, NoEntryIsAbsent
     DEF IInv, ClaimsAreFree, DiscoveriesAreNew, Claiming, FlowsAreBound, Forms, Awaits
<1>5. QED
  BY <1>1, <1>2, <1>4, NoEntryIsAbsent
     DEF IInv, FlowsAreBound, ClaimsAreAnchored, Claiming, SavesAreCurrent, NamedBefore,
         DiscoveriesDiffer, InProgress, AnchoredOnTheDevice, EveryNameRemembered

\* The memory is loaded under the lock.
LEMMA LoadsNamesKeeps ==
    ASSUME IInv, NEW f \in Flows, LoadsNames(f)
    PROVE  IInv'
<1>t. TypeOK
  BY DEF IInv
<1>1. /\ step[f] = "remember" /\ step[f] \in Forms \cup Awaits
      /\ Goes(f, "saving") /\ uid' = [uid EXCEPT ![f] = uid[f]]
      /\ UNCHANGED <<kind, device, known, aborted, entries, missed, removals>>
      /\ names' = names /\ names \subseteq Devices
      /\ lock = NoFlow /\ lock' = f /\ loaded' = [loaded EXCEPT ![f] = names]
  BY <1>t DEF LoadsNames, LockIsFree, Awaits, flows, TypeOK
<1>2. step' = [step EXCEPT ![f] = "saving"]
  BY <1>1 DEF Goes, Awaits
<1>3. \A g \in Flows : step[g] # "saving"
  BY <1>1, FlowsAssumption DEF IInv, SavesAreCurrent
<1>4. StoreKept'
  BY <1>t, <1>1, <1>2, <1>3 DEF StoreKept, SavesAreCurrent, TypeOK
<1>5. uid[f] = device[f] /\ (~aborted[f] /\ f \notin missed => entries[uid[f]].is # "configured")
      /\ device[f] \in Devices
  BY <1>1 DEF IInv, ClaimsAreAnchored, ClaimsAreFree, Claiming, FlowsAreBound
<1>6. QED
  BY <1>1, <1>4, <1>5, GoingKeeps DEF Steps, Awaits

\* The memory is written, the lock given back, and the flow finishes.
LEMMA SavesNamesKeeps ==
    ASSUME IInv, NEW f \in Flows, SavesNames(f)
    PROVE  IInv'
<1>t. TypeOK
  BY DEF IInv
<1>1. uid[f] = device[f] /\ (~aborted[f] /\ f \notin missed => entries[uid[f]].is # "configured")
      /\ device[f] \in Devices
  BY DEF SavesNames, IInv, ClaimsAreAnchored, ClaimsAreFree, Claiming, FlowsAreBound, Awaits
<1>2. /\ step[f] = "saving" /\ step[f] \in Forms \cup Awaits
      /\ Finishes(f, uid[f]) /\ uid' = [uid EXCEPT ![f] = uid[f]]
      /\ UNCHANGED <<kind, device, known, removals>>
      /\ lock' = NoFlow /\ loaded' = [loaded EXCEPT ![f] = {}]
      /\ names' = loaded[f] \cup {uid[f]}
  BY <1>t DEF SavesNames, Unlocks, Awaits, flows, TypeOK
<1>3. loaded[f] = names /\ lock = f
  BY <1>2 DEF IInv, SavesAreCurrent
<1>4. names \subseteq names' /\ names' \subseteq Devices /\ uid[f] \in names'
  BY <1>t, <1>1, <1>2, <1>3 DEF TypeOK
<1>5. \A g \in Flows : step'[g] # "saving"
  <2>1. \A g \in Flows \ {f} : step[g] # "saving"
    BY <1>3 DEF IInv, SavesAreCurrent
  <2>2. QED
    BY <1>t, <1>2, <2>1
       DEF Finishes, Creates, Ends, Goes, EndsFor, Listed, InProgress, TypeOK, Forms, Awaits
<1>6. StoreKept'
  BY <1>t, <1>2, <1>5, FlowsAssumption DEF StoreKept, SavesAreCurrent, TypeOK
<1>7. QED
  BY <1>1, <1>2, <1>4, <1>6, FinishingKeeps

LEMMA StepKeeps == IInv /\ [Next]_vars => IInv'
<1> SUFFICES ASSUME IInv, [Next]_vars PROVE IInv'
  OBVIOUS
<1>1. ASSUME NEW f \in Flows, UserStep(f) PROVE IInv'
  BY <1>1, StartingKeeps, UserFlowKeeps, NamesDiscoveredKeeps, ConfirmsUnsupportedKeeps,
     UserClosesKeeps, IgnoresKeeps DEF UserStep
<1>2. ASSUME NEW f \in Flows, FlowStep(f) PROVE IInv'
  BY <1>2, UserFlowKeeps, DiscoveryTestedKeeps, ShowsCardKeeps, LoadsNamesKeeps,
     SavesNamesKeeps DEF FlowStep
<1>3. ASSUME NEW f \in Flows, NEW claimed \in Devices, NEW d \in Devices,
             Discovers(f, claimed, d)
      PROVE  IInv'
  BY <1>3, DiscoveringKeeps
<1>4. ASSUME NEW id \in Devices, UserRemoves(id) PROVE IInv'
  BY <1>4, UserRemovesKeeps
<1>5. CASE UNCHANGED vars
  BY <1>5
     DEF vars, flows, store, IInv, TypeOK, FlowsAreBound, ClaimsAreAnchored, ClaimsAreFree,
         Claiming, SavesAreCurrent, NamedBefore, DiscoveriesDiffer, DiscoveriesAreNew,
         InProgress, TakenByAnother, AnchoredOnTheDevice, EveryNameRemembered
<1>6. QED
  BY <1>1, <1>2, <1>3, <1>4, <1>5 DEF Next

\* The invariant holds of every run of the flows.
THEOREM InvariantHolds == Spec => []IInv
<1>1. Init => IInv
  BY InitHolds
<1>2. IInv /\ [Next]_vars => IInv'
  BY StepKeeps
<1>3. QED
  BY <1>1, <1>2, PTL DEF Spec

(***************************************************************************)
(* The theorems.                                                           *)
(***************************************************************************)

\* The flows, the entries and the name memory keep their types, and the lock is
\* held only by a flow that saves.
THEOREM TypeCorrect == Spec => []TypeOK
<1>1. IInv => TypeOK
  BY DEF IInv
<1>2. QED
  BY <1>1, InvariantHolds, PTL

\* However many flows overlap, an entry has the unique id its device reports, and
\* not the one somebody announced.
THEOREM AnchoredOnTheDeviceHolds == Spec => []AnchoredOnTheDevice
<1>1. IInv => AnchoredOnTheDevice
  BY DEF IInv
<1>2. QED
  BY <1>1, InvariantHolds, PTL

\* However many flows save a name at the same time, none is lost.
THEOREM EveryNameRememberedHolds == Spec => []EveryNameRemembered
<1>1. IInv => EveryNameRemembered
  BY DEF IInv
<1>2. QED
  BY <1>1, InvariantHolds, PTL

\* A discovery card is for a speaker that has no entry, or whose entry was made
\* during the first step of the discovery, and there is one card of a speaker at most.
THEOREM CardsAreForNewSpeakersHolds == Spec => []CardsAreForNewSpeakers
<1>1. ASSUME IInv PROVE CardsAreForNewSpeakers
  <2>1. \A f \in Flows : kind[f] = "zeroconf" /\ step[f] = "name" => InProgress(f)
    BY <1>1 DEF IInv, TypeOK, InProgress, Forms, Awaits
  <2>2. QED
    BY <1>1, <2>1
       DEF IInv, CardsAreForNewSpeakers, DiscoveriesAreNew, DiscoveriesDiffer, InProgress
<1>2. QED
  BY <1>1, InvariantHolds, PTL

\* No flow replaces an entry that is set up, however the flows overlap: it stays
\* as it is until the user removes it, or confirms or ignores the card of a discovery
\* that was in its first step while the entry was made.
THEOREM NoEntryReplacedHolds == Spec => NoEntryReplaced
<1> DEFINE Replaces(f, id) == uid[f] = id /\ (entries'[id].by = f \/ entries'[id] = Ignored)
           Kept == \A id \in Devices :
                     entries[id].is = "configured" /\ entries'[id] \notin {entries[id], NoEntry}
                     => \E f \in missed : Replaces(f, id)
<1>1. ASSUME IInv, NEW f \in Flows, NEW id \in Devices, Finishes(f, id) \/ Creates(f, id),
             ~aborted[f] /\ entries[id].is = "configured" => f \in missed /\ uid[f] = id
      PROVE  Kept
  <2>1. CASE UNCHANGED entries
    BY <2>1
  <2>2. CASE /\ entries' = [entries EXCEPT ![id] =
                              [is |-> "configured", device |-> device[f], by |-> f]]
             /\ ~aborted[f]
    <3>1. entries \in [Devices -> Entries]
      BY <1>1 DEF IInv, TypeOK
    <3>2. \A d \in Devices \ {id} : entries'[d] = entries[d]
      BY <2>2, <3>1
    <3>3. entries'[id].by = f
      BY <2>2, <3>1
    <3>4. QED
      BY <1>1, <2>2, <3>2, <3>3
  <2>3. QED
    BY <1>1, <2>1, <2>2 DEF Finishes, Creates
<1>2. ASSUME IInv, NEW f \in Flows, UserStep(f) \/ FlowStep(f) PROVE Kept
  <2>1. CASE Claims(f) /\ (ManualTested(f) \/ NamesScanned(f))
    <3>1. device[f] \in Devices
      BY <1>2, <2>1 DEF IInv, FlowsAreBound, ManualTested, NamesScanned, Forms, Awaits
    <3>2. CASE UNCHANGED entries
      BY <3>2
    <3>3. CASE Finishes(f, device[f]) /\ Unconfigured(f, device[f])
      <4>1. entries[device[f]].is # "configured"
        BY <2>1, <3>3 DEF Unconfigured, SetUp, ManualTested, NamesScanned
      <4>2. QED
        BY <1>1, <1>2, <3>1, <3>3, <4>1
    <3>4. QED
      BY <2>1, <3>2, <3>3 DEF Claims
  <2>2. CASE ConfirmsUnsupported(f) \/ SavesNames(f)
    <3>1. /\ device[f] \in Devices /\ uid[f] = device[f]
          /\ ~aborted[f] /\ f \notin missed => entries[uid[f]].is # "configured"
      BY <1>2, <2>2
         DEF IInv, FlowsAreBound, ClaimsAreAnchored, ClaimsAreFree, Claiming,
             ConfirmsUnsupported, SavesNames, Forms, Awaits
    <3>2. QED
      BY <1>1, <1>2, <2>2, <3>1 DEF ConfirmsUnsupported, SavesNames
  <2>3. CASE Ignores(f)
    <3>1. uid[f] \in Devices /\ (entries[uid[f]] = NoEntry \/ f \in missed)
      BY <1>2, <2>3
         DEF IInv, TypeOK, FlowsAreBound, DiscoveriesAreNew, Ignores, Forms, Awaits
    <3>2. /\ entries'[uid[f]] = Ignored
          /\ \A d \in Devices \ {uid[f]} : entries'[d] = entries[d]
      BY <1>2, <2>3, <3>1 DEF Ignores, IInv, TypeOK
    <3>3. QED
      BY <3>1, <3>2, NoEntryIsAbsent
  <2>4. CASE UNCHANGED entries
    BY <2>4
  <2>5. QED
    BY <1>2, <2>1, <2>2, <2>3, <2>4
       DEF UserStep, FlowStep, SubmitsManual, PicksFromScan, NamesDiscovered, UserCloses,
           DiscoveryTested, ShowsCard, LoadsNames, ManualTested, NamesScanned
<1>3. ASSUME IInv, NEW id \in Devices, UserRemoves(id) PROVE Kept
  BY <1>3 DEF UserRemoves, IInv, TypeOK
<1>4. ASSUME IInv, UNCHANGED entries PROVE Kept
  BY <1>4
<1> HIDE DEF Kept
<1>5. IInv /\ [Next]_vars => [Kept]_vars
  BY <1>2, <1>3, <1>4 DEF Next, Discovers, vars
<1>6. QED
  BY <1>5, InvariantHolds, PTL DEF Spec, NoEntryReplaced, Kept

=============================================================================
