# Neumann Connect: specification and proofs

TLA+ modules for the Home Assistant integration in `custom_components/neumann_kh/`, the TLC
configurations that check them on small instances, and theorems about them checked by TLAPS.
Paths below are relative to `custom_components/neumann_kh/` unless they start with `README.md` or
`tests/`.

## 1. The system

One config entry stands for one speaker. Everything runs on Home Assistant's event loop: there are
no threads (except the executor job that writes an export file), so code between two `await`s is
atomic, and every hazard sits at an `await`.

| Part | State | Operations | Talks to |
|---|---|---|---|
| SSC client (`ssc_client.py`) | one TCP connection, `_lock`, `_closed`, `_matched_by_path`, id counter | `get`, `set`, `request`, `close` | the speaker; called by everything else |
| Coordinator (`coordinator.py`) | `data`, `_slow_data`, `_cycle_count`, `_slow_poll_pending`, `_cache_generation`, `_reread_requests`, `_poll_in_flight`, `_confirmed_during_poll`, `action_lock` | poll cycle, `apply_confirmed_value`, `request_reread`, `async_invalidate_and_refresh`, `async_persist`, `claim_device` | client; notifies the entities |
| Entities (`entity.py` and the platforms) | none of their own | `_async_write` | coordinator, client |
| Device actions (`button.py`, `eq.py`, `export_actions.py`, `backup_export.py`, `export_file.py`) | `_armed_at`, `_armed_backup`; the record under way | backup, restore, EQ reset, factory reset, discovery export | client, coordinator, store, export file |
| Stores (`storage.py`) | names, backups, discoveries per serial | save, load under `_SAVE_LOCK` | buttons, config flow |
| Entry (`__init__.py`) | the entry's data, one client per attempt | setup, relocation, unload | client, coordinator, scan |
| Scan (`discovery.py`) | none | `async_scan_for_speakers`, `pick_host` | mDNS |
| Config flows (`config_flow.py`) | the pending step of one flow | manual, scan, zeroconf, reconfigure | client, stores, entry |
| Helpers (`identity.py`, `_util.py`, `const.py`, `eq_containers.py`) | none | serials, trees, token counts, path tables | everyone |

What is hard about it:

- The poll reads some fifty paths in one cycle and holds the client's lock only for one at a time,
  so writes, resets and other actions land *inside* a cycle. Its result is a mixture of old and new.
- Slow paths are read in every tenth cycle and cached in between: a mistake there stays on screen for
  five minutes, or for good if the cache is never corrected.
- Requests time out or are cancelled (the cycle's time limit cancels whatever the poll awaits) while
  their answer is on the way; the connection outlives a request.
- A speaker may answer in one line or several, echo the request's id or not, or not answer at all.
- The four device actions span many requests. They exclude one another, but not the poll, entity
  writes, other software, or the CONTROL switch on the back of the speaker.
- Addresses change while Home Assistant is off or on, and mDNS remembers old announcements.

What makes each part correct:

- *Client*: an answer is made only of lines that belong to its request; a failed request leaves
  nothing behind on the connection; every request ends; a closed client stays closed.
- *Coordinator*: confirmed values are not lost to older ones, a reset clears the cache for good, a
  requested reread happens, a missed answer does not blank an entity, and entities end up agreeing
  with the speaker.
- *Device actions*: a kept snapshot is one state of the speaker, the store is not ahead of the file,
  a restore cut short does not leave the speaker loud, changes are saved where the model needs it.
- *Two-step buttons*: what is restored is what the warning named, one warning is good for one action,
  nothing outdated is restored.
- *Discovery export*: the walk of a speaker's address tree ends within its bounds, files every
  description under its own leaf, misses nothing when nothing goes wrong, and replaces the last
  discovery by a usable one only.
- *Entry*: an entry runs against its own speaker only, finds it again after a move, leaves no
  connection behind.
- *Config flows and stores*: one entry per speaker and none replaced, identified by what the device
  says and not by what is announced, no name lost from the store.

## 2. Modules

| Module | Models | Composed of |
|---|---|---|
| `Coordinator` | the poll cycle, the slow cache, writes, the factory reset, outside changes | the client's lock as one request at a time; implements `SpeakerView` |
| `SpeakerView` | abstract: what the entities may be shown of a speaker | |
| `SSCClient` | the connection, its lock, the id and its token limit, the drain, the read loop | implements `RequestService` |
| `RequestService` | abstract: requests that look atomic | |
| `DeviceActions` | backup, restore, EQ reset, factory reset, entity writes, the save command, file and store | one request per step; implements `ExportShelf` |
| `Buttons` | the two presses of the factory reset and of the restore, the check of the stored backup | an action as the time it holds the lock |
| `Speaker` | what a speaker answers to gets, `osc/schema` and `osc/limits` | |
| `DiscoveryExport` | the known paths, the walk of the address tree, file and store | extends `Speaker`; implements `ExportShelf` |
| `ExportShelf` | abstract: what a file with a copy in the store promises | |
| `Setup` | setup attempts, relocation, unload and the flows that repoint an entry | one request per step |
| `ConfigFlow` | the flows that create entries, the name store and its lock | |
| `MC...` | instances of each of these for TLC | |
| `CoordinatorProofs`, `SSCClientProofs`, `DeviceActionsProofs`, `ButtonsProofs`, `DiscoveryExportProofs`, `SetupProofs`, `ConfigFlowProofs` | theorems about them | each extends its module and `TLAPS` |
| `Induction` | induction over the natural numbers for the recursive functions of the modules | |

A request is one step of `DeviceActions` and `Setup`, and a question with an answer in `Coordinator`. What makes
this sound is that `SSCClient` implements `RequestService`: one request at a time, each sent once at most
and answered with nothing but its own answer, a failed one perhaps sent and perhaps not. That holds under
`Distinguishes` (section 4). The one place where the limit shows, an `osc` request without an id, is
modelled where it matters: a reply of `DiscoveryExport` may be a late line of the reply before. `Buttons` and `DeviceActions` meet
at the action lock: the first says which backup a restore starts with and when, the second what it does.

### Coordinator

The only thing the properties need of a value is *how recent* it is. Each change of a path on the
speaker gets the next stamp, and a value read, confirmed or cached carries the stamp it was taken
with; stamp 0 is Python's `None`. `device` is the speaker, `op` the request holding the client's
lock, the other variables are the fields of `NeumannKHCoordinator` and the locals of
`_async_update_data`. A cycle is `StartPoll` (up to the first await), `PollQuery` and `PollReads` per
path, and one of `PollSucceeds`, `PollDiscarded` (overtaken by a reset), `PollUnanswered`,
`PollFails` (a lost connection or the time limit, also while waiting for the lock). Writes are
`UserSet` and one of four endings, the factory reset is `ResetPressed` and one of three. Paths are read
in any order, because no property depends on the order of the tables. History variables: `floor`
(what the last reset wrote), `lastConfirmed`, `owed` and `rereadDone` (rereads asked for and served).

`SpeakerView` has no poll, no cycle and no cache: the speaker changes, a writer's value is confirmed, a poll
publishes, a reset makes everything kept be forgotten. Its `real` is `device`, `shown` is `data`, `accepted`
is `lastConfirmed`, and `kept` are the slow paths with a value in `slowData`.

### SSCClient

Several callers queue at the lock. The holder connects, or drains what the last answer left
(`Draining`, `DrainsLine`, ...), sends, and reads line by line. A line is what the read loop looks at:
which request it answers, whether it echoes the id, and whether it carries the value asked for, a
null, another part of the tree, an error, junk or too much. Timeouts are steps that may happen
whenever the code waits under one. `takenFrom` is history: whose lines went into which answer.
Cancellation is possible at every await, `close()` is a caller like the others. A request has a number
of tokens; `CarriesXid` is the decision of `_next_xid`, `TooLong` is the speaker's (error 413), and a
request without an id gets an answer without one.

In `RequestService` the request being served is the `holder`, it has been sent in the phase `read`, and what
it has heard is `takenFrom`. Connecting, draining, lines and reconnecting are no steps of it.

### DeviceActions

The speaker has settings, a memory that survives a power cycle, and a control mode. A setting is
muted/unmuted or default/changed; on LOCAL the speaker reports `local` and refuses writes with error
401. Every request has its outcomes: confirmed, not confirmed (stored or not), refused, lost. History:
`torn` (another action wrote while the backup read), `readOn` (the modes it met), `attempted`
(paths the restore has tried), `astray` (those of them that were refused or not confirmed, or changed by
somebody other than a device action since), `unsaved` (confirmed writes no save command followed and no message reported), `cutShort`.

`exported` and `stored` are the `file` and the `store` of `ExportShelf`; the refinement mapping leaves
everything else out. A restart between the two steps leaves the store behind, which the shelf allows.

### Buttons

`armedAt` and `armed` are the fields of the two button entities, `checks` the presses of the restore
button that wait for their load of the store (Home Assistant does not serialise presses). A press that
finds its button armed confirms (`ResetConfirmed`, `RestoreConfirmed`) if `Confirms` holds, and disarms
whether or not the device was free (`Disarmed`); any other restore press begins a check
(`RestoreChecks`), loads (`CheckLoads`) and arms or is refused (`CheckArms`, `CheckRefuses`). The time it
arms with is the time it began (`ArmedSince`). Meanwhile a backup may replace the one in the store
(`BackupStored`). History: `shown` (the backup the latest warning names), `unused` (warnings put up minus
actions started), `replacedAt`.

### Speaker, DiscoveryExport and ExportShelf

An address tree is a function from addresses, sequences of keys, to leaf or container. `Speaker` answers
over it what the recorded behaviour in `tools/ssc_simulator.py` answers. A run of `DiscoveryExport` reads
the known paths in any order, walks the tree and writes the file, then the store. The recursion of
`_walk` is a stack of levels, each with the children it has still to visit: `SchemaArrives` pushes the
level of a container, `Visits` takes one child off the last level and counts it, `Returns` pops. Every
reply may be missing or be a late one (`MayReply`), and `LevelsAt` and `LimitsAt` say what `extract` finds
in it at the address asked for. `WalkCutShort` is the time limit of the walk, which keeps what it has.
History: `whole` (nothing went wrong in this run).

`ExportShelf` has two variables and two steps: the file is replaced by a usable record, the store takes
what the file holds. `DeviceActions` and `DiscoveryExport` both implement it (`KeepsTheShelf`), with
their own notion of usable: a backup with a value to restore, not read on LOCAL throughout; a discovery
that found anything.

### Setup

One entry with its speaker on a segment of a few addresses. `at` says which device has an address now,
`records` what mDNS still announces, `host` and `model` are the stored data, `client`, `clientHost` and
`peer` the client of the attempt, the address it was made with, and the device its connection leads
to. A dropped connection is opened again to the same address, whoever has it by then (`Reached`). An
attempt is `SetupStarts`, `Verifies`, `Refreshes`, `FirstPolls`, `AddsPlatforms`; a failure closes the
client and goes on to `Scans`, `AsksCandidates`, `Relocates`; `SetupCancelled` may come at any await.
Two flows run beside it, each in three steps: it starts (`ZeroconfStarts`, `ReconfigureStarts`), hears
who is at the address (`ZeroconfHears`, `ReconfigureHears`), and writes what it has been told
(`ZeroconfRepoints`, `ReconfigureSaves`) or ends. Between the last two it still asks for version and vendor
and closes its client, so anything may happen there. An address stands for host, port and interface.
History: `swapped` (another device took the address of a client that had verified who it talks to), `left`
(flows whose device has left the address at which it answered them).

### ConfigFlow

Several flows at once, each at a form or at an await. What Home Assistant does is modelled as far as
the code relies on it, and marked external: creating an entry replaces one with the same unique id and
aborts every flow with that id that it lists; it does not list a discovery in its first step, which has not
shown anything yet (`Listed`), so such a discovery goes on, through the answer of its device
(`DiscoveryTested`) and the load of the stored name (`ShowsCard`), to a card. The handler of an aborted flow
runs on to no effect; a discovery is refused while another flow has its id; an ignored speaker may be set up
by the user's own flows. Saving a name is `LoadsNames` and `SavesNames`, with the lock across both. History:
`missed`, the discoveries for whose speaker an entry was made after they had looked for one.

## 3. Runs

| Run | Expected | What it shows |
|---|---|---|
| `MCCoordinator.cfg` | pass | `TypeOK`, `CacheAfterReset`, `ConfirmedKept`, `RereadStaysDue`, `SlowValueStaysKnown`, `ShowsTheSpeaker` (refinement of `SpeakerView`) |
| `MCCoordinatorLive.cfg` | pass | `EventuallyAgrees` |
| `MCSSCClient.cfg` | pass | `TypeOK`, `NoForeignAnswer`, `LeftoversAreCovered`, `NothingLeftOfTheFailed`, `ClosedForGood`, `NeverTooLong` |
| `MCSSCClientLive.cfg` | pass | `EveryCallEnds`, and `ServesOneByOne` (refinement of `RequestService`), against a speaker that pauses at will but echoes every id |
| `MCDeviceActions.cfg` | pass | `TypeOK`, `OneStatePerBackup`, `MutedBeforeLoud`, `KeptUnlessCutShort`, `KeepsTheShelf` (refinement of `ExportShelf`) |
| `MCDeviceActionsUnsaved.cfg` | violation | `KeptAfterEveryAction`, `README.md:45-47` |
| `MCDeviceActionsLocal.cfg` | violation | `NoLocalValueKept`, `README.md:324-325` |
| `MCButtons.cfg` | pass | `TypeOK`, `OneActionPerWarning`, `RestoresWhatWasShown`, `NothingOldIsRestored` |
| `MCDiscoveryExport.cfg` | pass | `TypeOK`, `WithinBounds`, `LimitsOfTheirLeaf`, `NothingLeftOut`, `KeepsTheShelf` (refinement of `ExportShelf`), `RunEnds` |
| `MCSetup.cfg` | pass | `TypeOK`, `OnlyItsSpeaker`, `NoConnectionLeft`, `RepointedByItsSpeaker`, `RetriesEnd` |
| `MCSetupStranger.cfg` | violation | `NothingOfAStranger`, the docstring at `__init__.py:252-255` |
| `MCConfigFlow.cfg` | pass | `TypeOK`, `NoEntryReplaced`, `AnchoredOnTheDevice`, `CardsAreForNewSpeakers`, `EveryNameRemembered` |

**Bounds.**
- `MCCoordinator.cfg`: one fast and two slow paths, `SlowEvery` 2, stamps up to 3, one failure. Two
  slow paths let a cycle have read one and not yet the other when something lands; three stamps give a
  value before, during and after that; with `SlowEvery` 2 slow and fast cycles alternate. The two slow
  paths are interchangeable, hence the symmetry set (safety only).
- `MCCoordinatorLive.cfg`: one fast and one slow path, three stamps, two failures. With three stamps a
  path changes again after a confirmed write, so the overlay does put an older value over a newer one
  that was read, and a reset follows a write. With two failures a write is lost and the cycle that has
  to make up for it fails as well. No run has an optional path (one more fast path, with the sets of
  paths to read it adds, is past what TLC finishes); the theorems of section 4 hold with any number.
- `MCSSCClient.cfg`: three requests for the same path - any line could pass for any answer - two of
  them just short enough for an id, the third one token too long for it (the real limits, 29 and 4,
  with 25, 25 and 26 tokens); answers of up to two lines, both line bounds 2. A third request is needed
  because a leftover travels past a second. All requests are made once, so the system stops:
  `CHECK_DEADLOCK FALSE`.
- `MCDeviceActions.cfg`: one mute path, gain and boost; four presses, one outside event, one failure.
  Four presses cover a backup, arming, and a restore with another action running into any of them.
  The presses are bounded, so the system stops: `CHECK_DEADLOCK FALSE`.
- `MCButtons.cfg`: a gap of 1 and a window of 2 over six moments: a double click, a press inside the
  window, one at its edge and one past it all happen. Five presses let two checks overlap before a
  confirmation and a further press follow it; two backups let the stored one be replaced. Time and
  presses are bounded, so the system stops: `CHECK_DEADLOCK FALSE`.
- `MCDiscoveryExport.cfg`: three trees against 6 nodes and 3 levels: one that just fits both bounds, one
  a level too deep, one a node too wide. Two presses, so that a good discovery can be followed by a
  failing one, and a late reply can come from the run before; two faults. Presses are bounded:
  `CHECK_DEADLOCK FALSE`.
- `MCSSCClientLive.cfg`: two requests, because a request that does not end blocks just the next one.
- `MCSetup.cfg`: three addresses - the stored one, one announced wrongly, one the speaker has - a
  stranger that answers no serial, three events and one failure. Three events are the speaker leaving,
  a stranger taking its place, and one more move, reconfiguration, unload or cancellation. An entry
  whose platform failed waits for its user: `CHECK_DEADLOCK FALSE`.
- `MCConfigFlow.cfg`: three flows (one to be overtaken, one to overtake it, one discovery between
  them, in its first step or with its card open), three devices of which one is of another vendor and one also has no serial, one removal. The
  flows are interchangeable (symmetry, safety only) and run once: `CHECK_DEADLOCK FALSE`.

**Fairness.** `Coordinator`: Home Assistant's timer starts the next cycle; the client's lock is handed
over first come, first served, so a poll that wants it gets it (strong fairness of `PollQuery`); every
request is answered or given up in bounded time; faults and outside changes are bounded, they may
happen but are never required. `SSCClient`: nothing at all is assumed of the speaker. The event loop
resumes whoever can go on, and timeouts fire. A timeout that every line restarts is only certain to
fire while no line comes in, which is why `Settles` and `TimesOut` are fair only with an empty buffer
and the time limit of the read is an action of its own. `Setup`: Home Assistant retries a failed setup
for ever, every await of an attempt ends in bounded time, and mDNS forgets a record that nobody
renews; no discovery flow is required to run. `DiscoveryExport`: each request is answered or given up,
so the run goes on (one weak fairness over its steps, pressing excluded); neither of its time limits is
required to strike, and `RunEnds` shows that the bounds of the walk are enough. `Buttons` and
`DeviceActions` claim no liveness.

**Findings.** Each violating run contradicts a sentence of the repository:

1. `KeptAfterEveryAction`: an EQ reset whose second write fails, or a restore that stops half way,
   changes the speaker and sends no save command (`eq.py:136-139`, `export_actions.py:374-391`).
2. `NoLocalValueKept`: the control mode is read once in the middle of the snapshot, so a switch
   flipped later (or back before) puts local values into the kept backup.
3. `NothingOfAStranger`: the identity is verified once per setup, the connection is opened anew after
   every drop. A device that takes the address later has its values shown under this speaker's name.
   `OnlyItsSpeaker` says what does hold: nothing of a stranger, as long as no device takes the address
   of a client that has verified its speaker.

Met while modelling, and no contradiction of what the repository says:

- A value confirmed during a cycle, then changed by other software, then read: the overlay puts the
  older value back (`coordinator.py:224-225`), for one cycle on a fast path and up to five minutes on a
  slow one. `EventuallyAgrees` shows on an instance where this happens that the newer one wins in the
  end; `ReadIsShown` (section 4) names it as the one way in which a completed cycle does not show what
  it has read.
- A mute that the speaker refuses or does not confirm is skipped, and the restore goes on to the levels
  (`export_actions.py:405-424`): the speaker then plays unmuted at a restored level. The docstring of
  `_write_order` promises the order of the writes, which holds; `MutedBeforeLoud` names the case (`astray`).
- A discovery in its first step is not aborted when another flow sets its speaker up, and checks nothing
  again once its device has answered (`config_flow.py:541-612`): it shows a card for a configured speaker,
  and confirming or ignoring the card replaces the entry. The abort the repository relies on and tests is
  that of an open card (`config_flow.py:355-356`). `NoEntryReplaced` and `CardsAreForNewSpeakers` exclude
  every other way to it and name this one (`missed`).
- A flow that repoints an entry writes an address at which the speaker answered a few requests earlier, and
  may have left since. `RepointedByItsSpeaker` names this (`left`), and `RetriesEnd` shows that the retries
  find the speaker again.
- The documented limitation of matching by path (`ssc_client.py:414-420`) reaches a request that does
  carry an id, when the one before it had none and its speaker pauses longer than the drain waits.
  This is the case the condition of `NoForeignAnswer` in section 4 leaves out.
- The window of the restore button is measured from the press, not from the warning: a slow load of
  the store shortens the time the user has. `NothingOldIsRestored` needs it that way.

## 4. Proofs

`CoordinatorProofs` proves, for every set of paths, every `SlowEvery` and every bound, that
`Coordinator!Spec` implies `TypeOK`, `CacheAfterReset`, `ConfirmedKept`, `RereadStaysDue` (invariants)
and `SlowValueStaysKnown`, `ViewMovesForward` (properties of steps), and that it implements `SpeakerView`
(`ShowsTheSpeaker`). It rests on `PathsAssumption` and
`BoundsAssumption` only.

None of the invariants is inductive: they speak of the cache, while the danger is a value *on its way*
there. The inductive invariant `IInv` adds what holds of the values under way:

- `NothingFromTheFuture`: no stamp anywhere exceeds the speaker's.
- `ReplyIsCurrent`: a reply the poll has not yet taken in is ahead of all that is held of its path,
  and belongs to a path still to be read.
- `CacheLeads`, `CycleLeads`: at each path the running cycle, overlaid with what was confirmed
  meanwhile, is at least as new as the data, the slow cache and the last confirmed value. This is what
  makes publishing it safe, and what the overlay is for.
- `ResetRespected`: a slow cycle that has not been overtaken carries no value from before the last
  reset.
- `RereadServed`: a slow cycle that no reread has overtaken will have read every path that is owed
  one when it ends.
- `CountersGrow`: the counters a cycle noted at its start are never ahead of the real ones.

`StepKeeps` shows one lemma per group of steps (`DeviceStepKeeps`, `PollStepKeeps`, `WriteStepKeeps`,
`ResetStepKeeps`, `StutterKeeps`), each split by action and by conjunct; `InvariantHolds` puts them
together, and the theorems follow from it.

The refinement needs one more invariant, `KeptIsShown`: a slow path with a value in the cache is not shown as
unknown. With it each action is a step of `SpeakerView` or none: changes and writes that were not confirmed are
`Changes`, a confirmed write is `Changes` or `Confirms`, a poll that succeeds is `Publishes` (`SuccessShows`),
one that was overtaken leaves the view alone (`DiscardShowsNothing`), a reset is `Forgets`.

Two properties of steps are the safety half of `EventuallyAgrees`. `ReadIsShown`: a value a cycle has read, while
it is the speaker's, is shown when the cycle ends, unless the cycle fails, a reset overtakes it, or a write of the
same path was confirmed earlier in the cycle: the overlay then shows that older value (`ShowsConfirmed`), and the
next cycle that reads the path, with nothing confirmed before, puts it right. `AgreementLasts`:
an entity that agrees with the speaker does so until the speaker changes; a value that is not cached may drop
out while its path goes unanswered. They need `CycleAccounts`: a cycle reads each path once, and a write is ahead
of what it has read. What they leave to TLC is that cycles go on and end.

`SSCClientProofs` covers any number of requests, paths and lines, and all bounds. Its invariant speaks
of `Pending`, the lines that have arrived followed by those still to come, in the order in which the
client would read them: each answers a request whose answer may still be on the connection, or nothing
(`EachLine`); once an answer echoes its id, so do its later lines (`InOrder`); and a line that could be
taken for another request's answer is there only while `_matched_by_path` has it drained before the next
request is sent (`ToBeDrained`). `NoForeignAnswer` and `LeftoversAreCovered` have a condition,
`Distinguishes`: the speaker does not pause within an answer longer than the drain waits, or every
request carries an id and every line echoes it. That is the documented limitation of the client; without
the condition both are false. The refinement of `RequestService` needs it too, and no further invariant: a
request hears its own answer because of `NoForeignAnswer`, and nobody sends without the lock. `ClosedForGood`, `NothingLeftOfTheFailed` and `NeverTooLong` have none.

`ButtonsProofs` rests on two facts about a backup that was read: it is the one the warning names
(`ArmedIsShown`), and if it has been replaced, then not before the press that loaded it began
(`ChecksReadSince`, `ArmedReadSince`). A warning not yet confirmed is there exactly while its button is
armed (`WarningsCounted`).

`ConfigFlowProofs` strengthens the properties by what holds of a flow past the check of its unique id:
it claims what its device says it is (`ClaimsAreAnchored`), and nobody has set that device up, unless the
flow is aborted or has missed the entry (`ClaimsAreFree`, `DiscoveriesAreNew`). A flow that has missed one was
in its first step then, and only its own card can replace it. `SavesAreCurrent` says why the lock is enough for the names.

`SetupProofs`: a client is open exactly while an attempt works with it or the entry is loaded
(`ClientIsOpen`), and once it has verified its speaker it leads there or nowhere until another device
takes the address (`LeadsToItsSpeaker`). A flow with an answer has it from the speaker, which is where it
answered unless it has left since (`ToldByItsSpeaker`).

`DeviceActionsProofs`: whatever is at work holds the action lock, so nothing tears a backup
(`LockedWhileAtWork`, `NeverTorn`); what is on its way to the file is worth keeping (`WorthyBackups`);
a confirmed write not yet saved has its saving ahead of it (`UnsavedIsAtWork`). `KeepsTheShelfHolds` is
the step simulation of `ExportShelf`. For `MutedBeforeLoud` the invariant `RestoreInOrder` ranks the paths of
a backup - mutes, levels, unmutes - and says that what a restore has not attempted yet is still on its list,
that the list goes up in rank, and that nothing on it ranks below what has been attempted. `TriedHasLanded`
says that the speaker has the backup's value on every path attempted that is not `astray`; it holds because
the action lock keeps the other device actions from writing while a restore runs. The list is made
by a recursive function over the path table (`Listed`); that it has every path of its group and nothing else
is proved by induction over the position in the table, from `Induction`.

`DiscoveryExportProofs` has two invariants. The first holds whatever is lost or late: every reply is one
of this speaker, the nth running call of `_walk` is at depth n (`AtItsDepth`), what is written was read.
From it follow the bounds, the attribution of descriptions and the step simulation of `ExportShelf`. The
second holds while nothing has gone wrong on a speaker that fits the bounds: `Left`, what is at or below
the children still to go, together with the leaves described so far has every leaf of the tree
(`Covered`), nothing is visited twice (`Disjoint`), and the nodes counted plus those left never exceed
the bound (`Budget`), so that no bound is met too early. `NothingLeftOut` follows, for every tree.
A third part is about the length of a run: each step decreases `StepsLeft`, made of the phase, the known paths
still to read and, in the walk, four times the nodes not yet counted plus the open calls of `_walk`. Hence a run takes at most `4 * MaxNodes + 6` steps and one for each
known path (`EveryRunIsBounded`), for every tree. It is the measure behind `RunEnds`, which adds that the run
goes on.

`Induction` derives induction over the natural numbers, about sets instead of predicates, from the
well-foundedness of `<`.

The assumptions are those of the modules: what the constants are, for `DiscoveryExport` that
whatever is in an address tree hangs below containers and that the known paths are finitely many, and for
`DeviceActions` that every restorable path is in its table (once or more often) and that gain, boost, mutes and
other settings are different paths.

Only model-checked: the liveness properties `EventuallyAgrees`, `EveryCallEnds`, `RetriesEnd` and `RunEnds`,
which are out of the prover's reach (`ReadIsShown` and `AgreementLasts`, `EveryRunIsBounded` are the parts of
the first and the last that are not about time). Every other property that a passing run checks is proved.

## 5. Not modelled

- What a value *is*: units, ranges, formatting, translations, the text of notifications. The entity
  platforms are therefore one write and one view of `Coordinator`.
- The path tables of `const.py` and `eq_containers.py`: the modules take sets and orders of paths as
  constants.
- What a limits reply describes of a leaf, and the layout of the exported documents.
- `pick_host`, the preference for link-local addresses among those of one announcement; `mask_serial` and
  the other text helpers: pure functions without state.
- The choice of output paths at setup (`_async_select_output_paths`): it renames paths and keeps no
  state of the entry.
- The server and the tables of the simulator in `tools/`: a development tool. The answers it reproduces,
  which were recorded from speakers, are the speaker of the models. The test suite was read for what
  the code is meant to do.
- Path aliases of the client (`use_path_aliases`): they rename paths consistently.

## 6. Plan

Done, most important behaviour first: `Coordinator`, `SSCClient`, `DeviceActions`, `Setup`, `ConfigFlow`,
`Buttons`, `DiscoveryExport` with `Speaker`, the abstract `ExportShelf`, `RequestService` and `SpeakerView` with
their four refinements, and the proofs of each.

What could follow:

1. Measures behind `EveryCallEnds` and `RetriesEnd`, as `EveryRunIsBounded` is one behind `RunEnds`.
2. `pick_host` and `mask_serial` as operators checked against a reference definition.
