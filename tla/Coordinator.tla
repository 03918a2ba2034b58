----------------------------- MODULE Coordinator -----------------------------
(***************************************************************************)
(* The polling coordinator of one speaker (coordinator.py) together with   *)
(* the actors that change what it shows: the entities that write single    *)
(* values (entity.py), the factory reset button (button.py) and the        *)
(* speaker, which other software can change at any time.                   *)
(*                                                                         *)
(* The only thing the properties need of a value is how recent it is.  The *)
(* value of a path is therefore a stamp: each change the speaker makes to  *)
(* a path gives it the next stamp, and a value read, confirmed or cached   *)
(* carries the stamp it was taken with.  Stamp 0 (Absent) is Python's None *)
(* or a missing key.                                                       *)
(*                                                                         *)
(* All Python code runs on one event loop, so what happens between two     *)
(* awaits is one step here.  The requests themselves are serialised by the *)
(* client's lock (SSCClient.tla); `op' is the request that holds it.       *)
(***************************************************************************)
EXTENDS Integers

CONSTANTS
    FastPaths,      \* read in every cycle (POLL_PATHS of the model)
    OptionalPaths,  \* of those, the ones read only while an entity wants them
    SlowPaths,      \* read in every SlowEvery-th cycle and cached in between
    NoPath,         \* "no path": the field of a request that names none
    SlowEvery,      \* SLOW_POLL_EVERY_N_CYCLES
    MaxStamp,       \* bound: changes of one path of the speaker, plus one
    MaxFaults       \* bound: lost, refused, unanswered or timed out requests

ASSUME PathsAssumption ==
    /\ OptionalPaths \subseteq FastPaths
    /\ FastPaths \ OptionalPaths # {}
    /\ FastPaths \cap SlowPaths = {}
    /\ NoPath \notin FastPaths \cup SlowPaths

ASSUME BoundsAssumption ==
    /\ SlowEvery \in Nat \ {0}
    /\ MaxStamp \in Nat \ {0}
    /\ MaxFaults \in Nat

Paths == FastPaths \cup SlowPaths

Absent == 0
Stamps == 1..MaxStamp
Values == 0..MaxStamp

Nothing == [p \in Paths |-> Absent]

VARIABLES
    device,      \* the speaker: the current stamp of each path
    faults,      \* faults so far (bounded by MaxFaults)
    op,          \* the request holding the client's lock
    ready,       \* self.data is not None: the entities exist
    data,        \* self.data, what the entities show
    slowData,    \* self._slow_data
    cycle,       \* self._cycle_count, modulo SlowEvery
    pending,     \* self._slow_poll_pending
    generation,  \* self._cache_generation
    rereads,     \* self._reread_requests
    polling,     \* self._poll_in_flight
    confirmed,   \* self._confirmed_during_poll: the last value of each path
    includeSlow, genAtStart, rereadsAtStart,   \* locals of _async_update_data
    todo, merged, answered,                    \* locals of _poll_all_paths
    floor,         \* history: the stamps the last factory reset wrote
    lastConfirmed, \* history: the last stamp the speaker confirmed per path
    owed,          \* history: slow paths with a write nobody confirmed, not
                   \* read by a completed cycle since
    rereadDone     \* history: of those, the ones the running cycle has read

pollVars  == <<polling, includeSlow, genAtStart, rereadsAtStart,
               todo, merged, answered>>
cacheVars == <<data, slowData, pending, generation, rereads>>
ghostVars == <<floor, lastConfirmed, owed, rereadDone>>
vars == <<device, faults, op, ready, cycle, confirmed,
          pollVars, cacheVars, ghostVars>>

Kinds   == {"idle", "get", "set", "reset"}
Replies == {"none", "value", "silent", "refused"}

Requests == [kind: Kinds, path: Paths \cup {NoPath}, reply: Replies, stamp: Values]

Request(kind, p) == [kind |-> kind, path |-> p, reply |-> "none", stamp |-> Absent]
Idle == Request("idle", NoPath)

TypeOK ==
    /\ device \in [Paths -> Stamps]
    /\ faults \in 0..MaxFaults
    /\ op \in Requests
    /\ op.kind \in {"get", "set"} => op.path \in Paths
    /\ ready \in BOOLEAN
    /\ data \in [Paths -> Values]
    /\ slowData \in [Paths -> Values]
    /\ cycle \in 0..(SlowEvery - 1)
    /\ pending \in BOOLEAN
    /\ generation \in Nat
    /\ rereads \in Nat
    /\ polling \in BOOLEAN
    /\ confirmed \in [Paths -> Values]
    /\ includeSlow \in BOOLEAN
    /\ genAtStart \in Nat
    /\ rereadsAtStart \in Nat
    /\ todo \subseteq Paths
    /\ merged \in [Paths -> Values]
    /\ answered \in BOOLEAN
    /\ floor \in [Paths -> Values]
    /\ lastConfirmed \in [Paths -> Values]
    /\ owed \subseteq SlowPaths
    /\ rereadDone \subseteq SlowPaths

Init ==
    /\ device = [p \in Paths |-> 1]
    /\ faults = 0
    /\ op = Idle
    /\ ready = FALSE
    /\ data = Nothing
    /\ slowData = Nothing
    /\ cycle = 0
    /\ pending = FALSE
    /\ generation = 0
    /\ rereads = 0
    /\ polling = FALSE
    /\ confirmed = Nothing
    /\ includeSlow = FALSE
    /\ genAtStart = 0
    /\ rereadsAtStart = 0
    /\ todo = {}
    /\ merged = Nothing
    /\ answered = FALSE
    /\ floor = Nothing
    /\ lastConfirmed = Nothing
    /\ owed = {}
    /\ rereadDone = {}

Fault == faults < MaxFaults /\ faults' = faults + 1

(***************************************************************************)
(* The speaker.  It answers the request on the wire; other software (the   *)
(* MA 1 application, a second controller) may change it at any moment.     *)
(***************************************************************************)

Answer(reply, stamp) == op' = [op EXCEPT !.reply = reply, !.stamp = stamp]

\* deep_merge: the newer tree wins wherever it has a value.
Overlay(older, newer) ==
    [p \in Paths |-> IF newer[p] # Absent THEN newer[p] ELSE older[p]]

ExternalChange(p) ==
    /\ device[p] < MaxStamp
    /\ device' = [device EXCEPT ![p] = @ + 1]
    /\ UNCHANGED <<faults, op, ready, cycle, confirmed, pollVars, cacheVars, ghostVars>>

GetAnswered ==
    /\ op.kind = "get" /\ op.reply = "none"
    /\ \/ Answer("value", device[op.path]) /\ UNCHANGED faults
       \/ \E reply \in {"silent", "refused"} : Answer(reply, Absent) /\ Fault
    /\ UNCHANGED <<device, ready, cycle, confirmed, pollVars, cacheVars, ghostVars>>

\* Stored and echoed; stored or ignored without an echo; refused.
SetAnswered ==
    /\ op.kind = "set" /\ op.reply = "none"
    /\ \/ /\ device[op.path] < MaxStamp
          /\ device' = [device EXCEPT ![op.path] = @ + 1]
          /\ \/ Answer("value", device'[op.path]) /\ UNCHANGED faults
             \/ Answer("silent", Absent) /\ Fault
       \/ UNCHANGED device /\ Answer("silent", Absent) /\ Fault
       \/ UNCHANGED <<device, faults>> /\ Answer("refused", Absent)
    /\ UNCHANGED <<ready, cycle, confirmed, pollVars, cacheVars, ghostVars>>

\* A factory reset rewrites every path at once.
ResetAnswered ==
    /\ op.kind = "reset" /\ op.reply = "none"
    /\ \/ /\ \A p \in Paths : device[p] < MaxStamp
          /\ device' = [p \in Paths |-> device[p] + 1]
          /\ floor' = device'
          /\ Answer("value", Absent)
       \/ UNCHANGED <<device, floor>> /\ Answer("refused", Absent)
    /\ UNCHANGED <<faults, ready, cycle, confirmed, pollVars, cacheVars,
                   lastConfirmed, owed, rereadDone>>

(***************************************************************************)
(* The poll cycle.                                                         *)
(***************************************************************************)

\* _fast_paths(): everything before the first success, later without the
\* optional paths no entity has as its context (`wanted').
FastPathsFor(wanted) ==
    IF ready THEN (FastPaths \ OptionalPaths) \cup wanted ELSE FastPaths

\* MUTANT: slow paths are read once and then only on demand.
SlowOnDemandOnly == pending \/ ~ready

SlowIsDue == pending \/ cycle = 0

\* MUTANT: the counter is not reduced to the position in the round.
CycleUncounted == cycle + 1

NextCycle == (cycle + 1) % SlowEvery

StartPoll ==
    /\ ~polling
    /\ includeSlow' = SlowIsDue
    /\ cycle' = NextCycle
    /\ pending' = SlowIsDue
    /\ \E wanted \in SUBSET OptionalPaths :
         todo' = FastPathsFor(wanted) \cup (IF SlowIsDue THEN SlowPaths ELSE {})
    /\ confirmed' = Nothing
    /\ polling' = TRUE
    /\ genAtStart' = generation
    /\ rereadsAtStart' = rereads
    /\ merged' = Nothing
    /\ answered' = FALSE
    /\ UNCHANGED <<device, faults, op, ready, data, slowData, generation,
                   rereads, ghostVars>>

\* The paths are read one by one, each holding the client's lock only for its
\* own request.  The order of the tables means nothing to the properties: the
\* model reads them in every order.
PollQuery(p) ==
    /\ polling /\ p \in todo
    /\ op = Idle
    /\ op' = Request("get", p)
    /\ UNCHANGED <<device, faults, ready, cycle, confirmed, pollVars, cacheVars, ghostVars>>

PollHasReply == polling /\ op.kind = "get" /\ op.reply # "none"

\* The tree and the `answered' flag once the reply at hand is taken in.  A null
\* counts as an answer, a refusal is skipped without counting.
MergedNow   == [merged EXCEPT ![op.path] = op.stamp]
AnsweredNow == answered \/ op.reply # "refused"
RereadNow   == rereadDone \cup ({op.path} \cap owed)

PollReads ==
    /\ PollHasReply
    /\ todo # {op.path}
    /\ todo' = todo \ {op.path}
    /\ merged' = MergedNow
    /\ answered' = AnsweredNow
    /\ rereadDone' = RereadNow
    /\ op' = Idle
    /\ UNCHANGED <<device, faults, ready, cycle, confirmed, polling, includeSlow,
                   genAtStart, rereadsAtStart, cacheVars, floor, lastConfirmed, owed>>

\* The cycle is over: the flag falls in the `finally' of _async_update_data.
\* The locals of the cycle die with it.
EndPoll ==
    /\ polling' = FALSE
    /\ todo' = {}
    /\ merged' = Nothing
    /\ answered' = FALSE
    /\ rereadDone' = {}
    /\ includeSlow' = FALSE
    /\ genAtStart' = 0
    /\ rereadsAtStart' = 0

\* MUTANT: values confirmed during the cycle are not laid over it.
SnapshotWithoutOverlay == MergedNow

\* What the cycle read, overlaid with what was confirmed while it read.
Snapshot == Overlay(MergedNow, confirmed)

LastReply == PollHasReply /\ todo = {op.path} /\ AnsweredNow

\* MUTANT: the cycle does not notice a reset that landed while it was reading.
InvalidationUnnoticed == FALSE

Invalidated == includeSlow /\ genAtStart # generation

\* A reset landed while a slow cycle was reading: its values predate the reset.
PollDiscarded ==
    /\ LastReply
    /\ Invalidated
    /\ data' = IF ready THEN data ELSE Snapshot
    /\ ready' = TRUE
    /\ confirmed' = Nothing
    /\ op' = Idle
    /\ EndPoll
    /\ UNCHANGED <<device, faults, cycle, slowData, pending, generation, rereads,
                   floor, lastConfirmed, owed>>

\* MUTANT: the cache is rebuilt from this cycle alone.
RebuiltSlowData == [p \in Paths |-> IF p \in SlowPaths THEN Snapshot[p] ELSE Absent]

\* _refresh_slow_cache(): a path that gave no value keeps its cached one.
RefreshedSlowData ==
    [p \in Paths |-> IF p \in SlowPaths /\ Snapshot[p] # Absent
                     THEN Snapshot[p] ELSE slowData[p]]

\* MUTANT: every slow cycle clears the flag, whenever the reread was asked for.
RereadUsedUp == pending /\ ~includeSlow

\* The flag falls with a slow cycle, unless a reread was asked for meanwhile.
StillPending == IF includeSlow THEN rereadsAtStart # rereads ELSE pending

PollSucceeds ==
    /\ LastReply
    /\ ~Invalidated
    /\ slowData' = IF includeSlow THEN RefreshedSlowData ELSE slowData
    /\ pending' = StillPending
    /\ data' = Overlay(Snapshot, slowData')
    /\ ready' = TRUE
    /\ confirmed' = Nothing
    /\ op' = Idle
    /\ owed' = owed \ RereadNow
    /\ EndPoll
    /\ UNCHANGED <<device, faults, cycle, generation, rereads, floor, lastConfirmed>>

\* UpdateFailed: the device refused every path.  Home Assistant keeps the data.
PollUnanswered ==
    /\ PollHasReply
    /\ todo = {op.path}
    /\ ~AnsweredNow
    /\ op' = Idle
    /\ EndPoll
    /\ UNCHANGED <<device, faults, ready, cycle, confirmed, cacheVars, floor,
                   lastConfirmed, owed>>

\* SpeakerUnreachable (a get failed), or the time limit of the cycle, which also
\* fires while the poll waits for the lock.
PollFails ==
    /\ polling
    /\ Fault
    /\ op' = IF op.kind = "get" THEN Idle ELSE op
    /\ EndPoll
    /\ UNCHANGED <<device, ready, cycle, confirmed, cacheVars, floor,
                   lastConfirmed, owed>>

(***************************************************************************)
(* An entity writes a value, or a restore does: _async_write().            *)
(***************************************************************************)

UserSet(p) ==
    /\ ready
    /\ op = Idle
    /\ op' = Request("set", p)
    /\ UNCHANGED <<device, faults, ready, cycle, confirmed, pollVars, cacheVars, ghostVars>>

\* MUTANT: a confirmed value does not reach the slow cache.
CacheLeftAlone == slowData

CacheWithConfirmed ==
    IF op.path \in SlowPaths THEN [slowData EXCEPT ![op.path] = op.stamp]
    ELSE slowData

\* apply_confirmed_value(): into the data, the slow cache and the running poll.
SetConfirmed ==
    /\ op.kind = "set" /\ op.reply = "value"
    /\ data' = [data EXCEPT ![op.path] = op.stamp]
    /\ slowData' = CacheWithConfirmed
    /\ confirmed' = IF polling THEN [confirmed EXCEPT ![op.path] = op.stamp]
                    ELSE confirmed
    /\ lastConfirmed' = [lastConfirmed EXCEPT ![op.path] = op.stamp]
    /\ op' = Idle
    /\ UNCHANGED <<device, faults, ready, cycle, pollVars, pending, generation,
                   rereads, floor, owed, rereadDone>>

\* request_reread(): the next poll has to read the path, a slow one included.
RequestReread(p) ==
    /\ pending' = (pending \/ p \in SlowPaths)
    /\ rereads' = IF p \in SlowPaths THEN rereads + 1 ELSE rereads
    /\ owed' = owed \cup ({p} \cap SlowPaths)
    /\ rereadDone' = rereadDone \ {p}
    /\ UNCHANGED <<data, slowData, generation, floor, lastConfirmed>>

SetUnconfirmed ==
    /\ op.kind = "set" /\ op.reply = "silent"
    /\ RequestReread(op.path)
    /\ op' = Idle
    /\ UNCHANGED <<device, faults, ready, cycle, confirmed, pollVars>>

\* The line dropped or no answer came, before or after the speaker took the value.
SetLost ==
    /\ op.kind = "set"
    /\ Fault
    /\ RequestReread(op.path)
    /\ op' = Idle
    /\ UNCHANGED <<device, ready, cycle, confirmed, pollVars>>

SetRefused ==
    /\ op.kind = "set" /\ op.reply = "refused"
    /\ op' = Idle
    /\ UNCHANGED <<device, faults, ready, cycle, confirmed, pollVars, cacheVars, ghostVars>>

(***************************************************************************)
(* The confirmed press of the factory reset button.                        *)
(***************************************************************************)

ResetPressed ==
    /\ ready
    /\ op = Idle
    /\ op' = Request("reset", NoPath)
    /\ UNCHANGED <<device, faults, ready, cycle, confirmed, pollVars, cacheVars, ghostVars>>

\* async_invalidate_and_refresh(), up to the refresh it asks for.
Invalidate ==
    /\ slowData' = Nothing
    /\ pending' = TRUE
    /\ generation' = generation + 1
    /\ UNCHANGED <<data, rereads>>

ResetConfirmed ==
    /\ op.kind = "reset" /\ op.reply = "value"
    /\ Invalidate
    /\ op' = Idle
    /\ UNCHANGED <<device, faults, ready, cycle, confirmed, pollVars, ghostVars>>

\* A speaker that resets reboots: a missing reply is treated as a success.
ResetLost ==
    /\ op.kind = "reset"
    /\ Fault
    /\ Invalidate
    /\ op' = Idle
    /\ UNCHANGED <<device, ready, cycle, confirmed, pollVars, ghostVars>>

ResetRefused ==
    /\ op.kind = "reset" /\ op.reply = "refused"
    /\ op' = Idle
    /\ UNCHANGED <<device, faults, ready, cycle, confirmed, pollVars, cacheVars, ghostVars>>

(***************************************************************************)
(* The specification.                                                      *)
(***************************************************************************)

DeviceStep ==
    \/ \E p \in Paths : ExternalChange(p)
    \/ GetAnswered \/ SetAnswered \/ ResetAnswered

PollStep ==
    \/ StartPoll
    \/ \E p \in Paths : PollQuery(p)
    \/ PollReads \/ PollDiscarded \/ PollSucceeds \/ PollUnanswered \/ PollFails

WriteStep ==
    \/ \E p \in Paths : UserSet(p)
    \/ SetConfirmed \/ SetUnconfirmed \/ SetLost \/ SetRefused

ResetStep == ResetPressed \/ ResetConfirmed \/ ResetLost \/ ResetRefused

Next == DeviceStep \/ PollStep \/ WriteStep \/ ResetStep

Spec == Init /\ [][Next]_vars

(***************************************************************************)
(* Fairness.  Home Assistant's timer starts the next cycle; nothing but a  *)
(* confirmed write restarts it, and those are finite here.  The client's   *)
(* lock is handed over first come, first served, so a cycle that wants it  *)
(* gets it however often others do (strong fairness of PollQuery).  Every  *)
(* request is answered or given up in bounded time, and its caller resumes.*)
(***************************************************************************)
Fairness ==
    /\ WF_vars(StartPoll)
    /\ \A p \in Paths : SF_vars(PollQuery(p))
    /\ WF_vars(GetAnswered) /\ WF_vars(SetAnswered) /\ WF_vars(ResetAnswered)
    /\ WF_vars(PollReads \/ PollDiscarded \/ PollSucceeds \/ PollUnanswered)
    /\ WF_vars(SetConfirmed \/ SetUnconfirmed \/ SetRefused)
    /\ WF_vars(ResetConfirmed \/ ResetRefused)

FairSpec == Spec /\ Fairness

(***************************************************************************)
(* Properties.                                                             *)
(***************************************************************************)

\* Once the press of the factory reset has been dealt with, the slow cache
\* holds nothing the speaker had before that reset - although a cycle that was
\* reading meanwhile still carries such values (async_invalidate_and_refresh
\* and the generation check of _async_update_data).
CacheAfterReset ==
    op.kind # "reset" =>
        \A p \in Paths : slowData[p] # Absent => slowData[p] >= floor[p]

\* A value the speaker confirmed is never covered by an older one, neither in
\* the data nor in the slow cache, whatever a running cycle had read before
\* (apply_confirmed_value and the overlay of _async_update_data).
ConfirmedKept ==
    \A p \in Paths :
        /\ data[p] # Absent => data[p] >= lastConfirmed[p]
        /\ slowData[p] # Absent => slowData[p] >= lastConfirmed[p]

\* While a slow path may hold a write nobody confirmed, the next cycle is a slow
\* one: no cycle that read the path before the write uses the request up
\* (request_reread and its counter).
RereadStaysDue == owed # {} => pending

\* What an entity shows never goes back to an older value of the speaker.
ViewMovesForward ==
    [][\A p \in Paths : data[p] # Absent /\ data'[p] # Absent => data'[p] >= data[p]]_vars

\* Outside a reset, a slow value once known stays known: one missed answer does
\* not drop the entity to "unknown" (_refresh_slow_cache keeps the old value,
\* and every cycle merges the cache back in).
SlowValueStaysKnown ==
    [][\A p \in SlowPaths :
         /\ slowData[p] # Absent => slowData'[p] # Absent \/ generation' # generation
         /\ slowData[p] # Absent /\ data[p] # Absent => data'[p] # Absent]_vars

View == INSTANCE SpeakerView WITH
    Lasting <- SlowPaths,
    real <- device, shown <- data, accepted <- lastConfirmed,
    kept <- {p \in SlowPaths : slowData[p] # Absent}

\* Whatever is lost, confirmed, reset or changed while a cycle reads, the entities
\* see a SpeakerView: a late view of each path, never one that goes back, and none
\* that forgets a slow value (_async_update_data, apply_confirmed_value).
ShowsTheSpeaker == View!Spec

\* After the last change of the speaker the entities end up showing it, on the
\* slow paths too, whatever was lost, refused or reset on the way.
EventuallyAgrees ==
    <>[](\A p \in Paths \ OptionalPaths : data[p] = device[p])

=============================================================================
