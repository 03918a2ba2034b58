-------------------------------- MODULE Setup --------------------------------
(***************************************************************************)
(* The life of one config entry (__init__.py) on a network where speakers  *)
(* change their addresses and announcements outlive them (discovery.py):   *)
(* the setup attempts Home Assistant makes, the relocation after a failed  *)
(* one, unloading, and the two config flows that repoint the entry while   *)
(* any of this runs (config_flow.py: zeroconf and reconfigure).            *)
(*                                                                         *)
(* An address stands for host, port and interface together.  A request is  *)
(* one step: it reaches the device the connection leads to, or, without a  *)
(* connection, whatever has the client's address now (SSCClient.tla).  A   *)
(* flow has its answer before it writes: it still asks for the version and *)
(* the vendor and closes its client, and anything may happen meanwhile.    *)
(***************************************************************************)
EXTENDS Integers

CONSTANTS
    Addresses,
    Home,           \* the one the entry was made with
    Devices,        \* SSC devices on the segment
    Own,            \* the one the entry was made for
    Unidentified,   \* devices that answer no usable serial
    NoAddress, NoDevice, NoSerial,
    MaxEvents,      \* bound: moves, cancelled setups, reconfigures, unloads
    MaxFaults       \* bound: requests, records or platforms that fail

ASSUME NetworkAssumption ==
    /\ Home \in Addresses
    /\ Own \in Devices
    /\ Unidentified \subseteq Devices \ {Own}
    /\ NoAddress \notin Addresses
    /\ NoDevice \notin Devices /\ NoSerial \notin Devices
    /\ MaxEvents \in Nat /\ MaxFaults \in Nat

Serials == Devices \cup {NoSerial}

\* An announcement: where, and the serial in its TXT record, if it carries one.
Announcements == [host: Addresses, serial: Serials]

VARIABLES
    at,             \* which device has an address now
    records,        \* the announcements mDNS still knows
    host,           \* the stored address
    model,          \* the stored model: the device it was read from
    hasSerial,      \* a serial is stored (entries of early versions have none)
    entry,          \* the entry's state in Home Assistant
    reloadDue,      \* a flow has asked for a reload
    phase,          \* where the setup attempt is
    client,         \* the attempt's client, later the coordinator's
    clientHost,     \* the address that client was made with
    peer,           \* the device its connection leads to
    found,          \* the relocation: candidates, then the matching ones
    zeroconf,       \* the address a zeroconf flow is testing
    reconfigure,    \* the address a reconfigure flow is testing
    told,           \* the device whose answer a flow has and is about to use
    left,           \* history: flows whose device left the address it answered at
    shown,          \* the device whose values the entities were last given
    swapped,        \* history: another device took the address of a client
                     \* that had verified who it talks to
    events, faults  \* used-up bounds

network == <<at, records>>
stored  == <<host, model, hasSerial>>
attempt == <<phase, client, clientHost, peer, found>>
flows   == <<zeroconf, reconfigure, told, left>>
bounds  == <<events, faults>>
vars == <<network, stored, entry, reloadDue, attempt, flows, shown, swapped, bounds>>

FlowKinds == {"zeroconf", "reconfigure"}

\* The address a flow tests.
Tests(f) == IF f = "zeroconf" THEN zeroconf ELSE reconfigure

Phases == {"none", "verify", "refresh", "poll", "platforms", "scan", "ask", "update"}

TypeOK ==
    /\ at \in [Addresses -> Devices \cup {NoDevice}]
    /\ records \subseteq Announcements
    /\ host \in Addresses
    /\ model \in Devices \cup {NoDevice}
    /\ hasSerial \in BOOLEAN
    /\ entry \in {"off", "setup", "retry", "loaded", "error", "stuck"}
    /\ reloadDue \in BOOLEAN
    /\ phase \in Phases
    /\ phase # "none" <=> entry = "setup"
    /\ client \in {"none", "open", "closed"}
    /\ clientHost \in Addresses \cup {NoAddress}
    /\ peer \in Devices \cup {NoDevice}
    /\ found \subseteq Announcements
    /\ zeroconf \in Addresses \cup {NoAddress}
    /\ reconfigure \in Addresses \cup {NoAddress}
    /\ told \in [FlowKinds -> Devices \cup {NoDevice}]
    /\ left \subseteq FlowKinds
    /\ shown \in Devices \cup {NoDevice}
    /\ swapped \in BOOLEAN
    /\ events \in 0..MaxEvents /\ faults \in 0..MaxFaults

\* The speaker is where the entry was made for; the model was not read then.
Init ==
    /\ host = Home
    /\ at = [a \in Addresses |-> IF a = Home THEN Own ELSE NoDevice]
    /\ \E s \in {Own, NoSerial} : records = {[host |-> Home, serial |-> s]}
    /\ model = NoDevice
    /\ hasSerial \in BOOLEAN
    /\ entry = "off" /\ reloadDue = FALSE
    /\ phase = "none" /\ client = "none" /\ clientHost = NoAddress /\ peer = NoDevice
    /\ found = {}
    /\ zeroconf = NoAddress /\ reconfigure = NoAddress
    /\ told = [f \in FlowKinds |-> NoDevice] /\ left = {}
    /\ shown = NoDevice /\ swapped = FALSE
    /\ events = 0 /\ faults = 0

Event == events < MaxEvents /\ events' = events + 1 /\ UNCHANGED faults
Fault == faults < MaxFaults /\ faults' = faults + 1 /\ UNCHANGED events

(***************************************************************************)
(* The network.                                                            *)
(***************************************************************************)

Present(d) == \E a \in Addresses : at[a] = d

\* A device turns up at a free address, gone from where it was, and announces
\* itself with or without its serial.
Moves(d, a) ==
    /\ Event
    /\ at[a] = NoDevice
    /\ at' = [b \in Addresses |-> IF b = a THEN d ELSE IF at[b] = d THEN NoDevice ELSE at[b]]
    /\ \E s \in {d, NoSerial} : records' = records \cup {[host |-> a, serial |-> s]}
    /\ swapped' = (swapped \/ (client = "open" /\ phase # "verify" /\ clientHost = a /\ d # Own))
    /\ left' = left \cup {f \in FlowKinds : told[f] = d /\ Tests(f) # a}
    /\ UNCHANGED <<stored, entry, reloadDue, attempt, zeroconf, reconfigure, told, shown>>

Stale(r) == at[r.host] = NoDevice \/ r.serial \notin {at[r.host], NoSerial}

Expires(r) ==
    /\ r \in records /\ Stale(r)
    /\ records' = records \ {r}
    /\ UNCHANGED <<at, stored, entry, reloadDue, attempt, flows, shown, swapped, bounds>>

SerialOf(d) == IF d \in Unidentified THEN NoSerial ELSE d

\* MUTANT: a device that answers no serial is not contradicted.
NotContradicted(answered) == answered \in {Own, NoSerial}

\* serial_matches() for the entry's serial: fail-closed.
SerialMatches(answered) == answered = Own

(***************************************************************************)
(* A setup attempt (async_setup_entry).                                    *)
(***************************************************************************)

\* The device a request of the client reaches now.
Reached ==
    IF peer = NoDevice THEN at[clientHost]
    ELSE IF at[clientHost] = peer THEN peer ELSE NoDevice

Answered == Reached # NoDevice /\ peer' = Reached /\ UNCHANGED bounds

\* No answer drops the connection.
NotAnswered ==
    /\ peer' = NoDevice
    /\ IF Reached = NoDevice THEN UNCHANGED bounds ELSE Fault

SetupStarts ==
    /\ \/ entry \in {"off", "retry"}
       \/ entry = "error" /\ reloadDue
    /\ entry' = "setup" /\ reloadDue' = FALSE
    /\ phase' = "verify"
    /\ client' = "open" /\ clientHost' = host /\ peer' = NoDevice
    /\ shown' = NoDevice
    /\ UNCHANGED <<network, stored, found, flows, swapped, bounds>>

\* MUTANT: the relocation is left to the background and the retry does not wait.
RelocatesInBackground ==
    /\ client' = "closed"
    /\ phase' = (IF hasSerial THEN "scan" ELSE "none") /\ entry' = "retry"

\* Without a serial there is nothing to look for: Home Assistant just retries.
GiveUpAttempt ==
    /\ client' = "closed"
    /\ IF hasSerial THEN phase' = "scan" /\ UNCHANGED entry
       ELSE phase' = "none" /\ entry' = "retry"

\* _async_verify_identity()
Verifies ==
    /\ phase = "verify"
    /\ \/ /\ ~hasSerial
          /\ phase' = "refresh" /\ UNCHANGED <<entry, client, peer, bounds>>
       \/ /\ hasSerial /\ Answered
          /\ SerialMatches(SerialOf(Reached))
          /\ phase' = "refresh" /\ UNCHANGED <<entry, client>>
       \/ /\ hasSerial /\ Answered
          /\ ~SerialMatches(SerialOf(Reached))
          /\ GiveUpAttempt
       \/ hasSerial /\ NotAnswered /\ GiveUpAttempt
    /\ UNCHANGED <<network, stored, reloadDue, clientHost, found, flows, shown, swapped>>

\* _async_refresh_identity(): no answer, or an unusable one, keeps the model.
Refreshes ==
    /\ phase = "refresh"
    /\ \/ Answered /\ model' \in {model, Reached}
       \/ NotAnswered /\ UNCHANGED model
    /\ phase' = "poll"
    /\ UNCHANGED <<network, host, hasSerial, entry, reloadDue, client, clientHost, found, flows,
                   shown, swapped>>

\* async_config_entry_first_refresh()
FirstPolls ==
    /\ phase = "poll"
    /\ \/ Answered /\ shown' = Reached /\ phase' = "platforms" /\ UNCHANGED <<entry, client>>
       \/ NotAnswered /\ GiveUpAttempt /\ UNCHANGED shown
    /\ UNCHANGED <<network, stored, reloadDue, clientHost, found, flows, swapped>>

AddsPlatforms ==
    /\ phase = "platforms"
    /\ phase' = "none"
    /\ \/ entry' = "loaded" /\ UNCHANGED <<client, peer, bounds>>
       \/ entry' = "error" /\ client' = "closed" /\ peer' = NoDevice /\ Fault
    /\ UNCHANGED <<network, stored, reloadDue, clientHost, found, flows, shown, swapped>>

\* MUTANT: a cancelled setup walks past the cleanup.
CancelledUncleaned == UNCHANGED <<client, peer>>

CancelledCleansUp == client' = "closed" /\ peer' = NoDevice

\* Home Assistant cancels the setup at whichever await it is at.
SetupCancelled ==
    /\ Event
    /\ entry = "setup"
    /\ entry' = "off" /\ phase' = "none" /\ found' = {}
    /\ CancelledCleansUp
    /\ UNCHANGED <<network, stored, reloadDue, clientHost, flows, shown, swapped>>

(***************************************************************************)
(* The relocation after a failed attempt (_async_relocate).                *)
(***************************************************************************)

\* async_scan_for_speakers(): a record may not resolve, or the scan may fail.
\* What is where the entry looked already is no candidate.
Scans ==
    /\ phase = "scan"
    /\ \E seen \in SUBSET records :
         /\ IF seen = records THEN UNCHANGED bounds ELSE Fault
         /\ found' = {r \in seen : r.host # host}
    /\ phase' = "ask"
    /\ UNCHANGED <<network, stored, entry, reloadDue, client, clientHost, peer, flows, shown, swapped>>

\* MUTANT: only what an announcement says of itself counts.
AskNobody(r) == FALSE

\* A candidate that announces no serial is asked.
AnswersOwn(r) == r.serial = NoSerial /\ SerialMatches(SerialOf(at[r.host]))

AsksCandidates ==
    /\ phase = "ask"
    /\ LET matching == {r \in found : SerialMatches(r.serial) \/ AnswersOwn(r)} IN
         \/ found' = matching /\ UNCHANGED bounds
         \/ \E r \in matching : r.serial = NoSerial /\ found' = matching \ {r} /\ Fault
    /\ phase' = "update"
    /\ UNCHANGED <<network, stored, entry, reloadDue, client, clientHost, peer, flows, shown, swapped>>

Announced == {r \in found : r.serial # NoSerial}

\* The announced ones come first; among themselves in the order of their names.
Relocates ==
    /\ phase = "update"
    /\ IF found = {} THEN UNCHANGED host
       ELSE \E r \in (IF Announced # {} THEN Announced ELSE found) : host' = r.host
    /\ phase' = "none" /\ found' = {}
    /\ entry' = "retry"
    /\ UNCHANGED <<network, model, hasSerial, reloadDue, client, clientHost, peer, flows, shown, swapped, bounds>>

(***************************************************************************)
(* A loaded entry.                                                         *)
(***************************************************************************)

Polls ==
    /\ entry = "loaded"
    /\ \/ Answered /\ shown' = Reached
       \/ NotAnswered /\ UNCHANGED shown
    /\ UNCHANGED <<network, stored, entry, reloadDue, phase, client, clientHost, found, flows, swapped>>

\* async_unload_entry(): the connection is closed even if a platform stays.
Unloads ==
    /\ entry = "loaded"
    /\ client' = "closed" /\ peer' = NoDevice
    /\ \/ entry' = "off" /\ IF reloadDue THEN UNCHANGED bounds ELSE Event
       \/ entry' = "stuck" /\ Fault
    /\ UNCHANGED <<network, stored, reloadDue, phase, clientHost, found, flows, shown, swapped>>

(***************************************************************************)
(* The config flows that repoint the entry.                                *)
(***************************************************************************)

\* async_step_zeroconf(): an announcement with a serial, of this entry at another
\* address or of a speaker that has no entry.
ZeroconfStarts(r) ==
    /\ hasSerial
    /\ zeroconf = NoAddress
    /\ r \in records /\ r.serial # NoSerial
    /\ r.serial = Own => r.host # host
    /\ zeroconf' = r.host
    /\ UNCHANGED <<network, stored, entry, reloadDue, attempt, reconfigure, told, left, shown,
                   swapped, bounds>>

\* MUTANT: the announcement alone repoints the entry.
TakenAtItsWord(a) == TRUE

\* _async_test_connection() read this entry's serial at that address.
ConfirmedAt(a) == SerialMatches(SerialOf(at[a]))

Hears(f, a) ==
    /\ a # NoAddress /\ at[a] # NoDevice
    /\ told[f] = NoDevice
    /\ told' = [told EXCEPT ![f] = at[a]]

ZeroconfHears ==
    /\ Hears("zeroconf", zeroconf)
    /\ ConfirmedAt(zeroconf)
    /\ UNCHANGED <<network, stored, entry, reloadDue, attempt, zeroconf, reconfigure, left, shown,
                   swapped, bounds>>

\* A flow is over: nothing of its answer remains.
Over(f) == told' = [told EXCEPT ![f] = NoDevice] /\ left' = left \ {f}

\* A changed address reloads an entry that is loaded or waits for its retry.
ZeroconfRepoints ==
    /\ told["zeroconf"] # NoDevice
    /\ host' = zeroconf
    /\ reloadDue' = (reloadDue \/ (host' # host /\ entry \in {"loaded", "retry"}))
    /\ zeroconf' = NoAddress /\ Over("zeroconf")
    /\ UNCHANGED <<network, model, hasSerial, entry, attempt, reconfigure, shown, swapped,
                   bounds>>

\* Nobody answers, it is another device, or one of the requests fails.
ZeroconfAborts ==
    /\ zeroconf # NoAddress
    /\ IF at[zeroconf] # NoDevice /\ ConfirmedAt(zeroconf) THEN Fault ELSE UNCHANGED bounds
    /\ zeroconf' = NoAddress /\ Over("zeroconf")
    /\ UNCHANGED <<network, stored, entry, reloadDue, attempt, reconfigure, shown, swapped>>

ReconfigureStarts(a) ==
    /\ Event
    /\ reconfigure = NoAddress
    /\ reconfigure' = a
    /\ UNCHANGED <<network, stored, entry, reloadDue, attempt, zeroconf, told, left, shown, swapped>>

\* An entry without a serial takes any device that answers.
ReconfigureHears ==
    /\ Hears("reconfigure", reconfigure)
    /\ hasSerial => SerialMatches(SerialOf(at[reconfigure]))
    /\ UNCHANGED <<network, stored, entry, reloadDue, attempt, zeroconf, reconfigure, left, shown,
                   swapped, bounds>>

ReconfigureSaves ==
    /\ told["reconfigure"] # NoDevice
    /\ host' = reconfigure
    /\ model' \in {model, told["reconfigure"]}
    /\ reloadDue' = TRUE
    /\ reconfigure' = NoAddress /\ Over("reconfigure")
    /\ UNCHANGED <<network, hasSerial, entry, attempt, zeroconf, shown, swapped, bounds>>

\* The form is closed, or the address was refused once too often.
ReconfigureEnds ==
    /\ reconfigure # NoAddress
    /\ reconfigure' = NoAddress /\ Over("reconfigure")
    /\ UNCHANGED <<network, stored, entry, reloadDue, attempt, zeroconf, shown, swapped, bounds>>

(***************************************************************************)
(* The specification.                                                      *)
(***************************************************************************)

NetworkStep ==
    \/ \E d \in Devices, a \in Addresses : Moves(d, a)
    \/ \E r \in Announcements : Expires(r)

SetupStep ==
    SetupStarts \/ Verifies \/ Refreshes \/ FirstPolls \/ AddsPlatforms \/ SetupCancelled

RelocationStep == Scans \/ AsksCandidates \/ Relocates

LoadedStep == Polls \/ Unloads

FlowStep ==
    \/ \E r \in Announcements : ZeroconfStarts(r)
    \/ ZeroconfHears \/ ZeroconfRepoints \/ ZeroconfAborts
    \/ \E a \in Addresses : ReconfigureStarts(a)
    \/ ReconfigureHears \/ ReconfigureSaves \/ ReconfigureEnds

Next == NetworkStep \/ SetupStep \/ RelocationStep \/ LoadedStep \/ FlowStep

Spec == Init /\ [][Next]_vars

(***************************************************************************)
(* Fairness.  Home Assistant retries a failed setup for ever, every await  *)
(* of a setup ends in bounded time, and mDNS forgets a record nobody       *)
(* renews.  Nothing is expected of the flows: announcements of speakers    *)
(* that have only a link-local address never reach them.                   *)
(***************************************************************************)
Fairness ==
    /\ WF_vars(entry = "retry" /\ SetupStarts)
    /\ WF_vars(Verifies \/ Refreshes \/ FirstPolls \/ AddsPlatforms)
    /\ WF_vars(RelocationStep)
    /\ \A r \in Announcements : WF_vars(Expires(r))

FairSpec == Spec /\ Fairness

(***************************************************************************)
(* Properties.                                                             *)
(***************************************************************************)

\* As long as no other device takes the address of a running client, the entry
\* never shows a stranger's values, nor stores its model (_async_verify_identity
\* before anything else is read, reconfigure's check of the serial).
OnlyItsSpeaker ==
    hasSerial /\ ~swapped => shown \in {Own, NoDevice} /\ model \in {Own, NoDevice}

\* No attempt leaves a connection behind, however it ended: failed, cancelled or
\* unloaded.  A speaker accepts about four of them.
NoConnectionLeft ==
    client = "open" => entry = "loaded" \/ phase \in {"verify", "refresh", "poll", "platforms"}

\* A flow points a working entry at the address where its speaker is, whatever
\* moved, stranger or old announcement came between the answer and the write
\* (async_step_zeroconf, async_step_reconfigure); what neither can know is that the
\* speaker has left that address since it answered there.
RepointedByItsSpeaker ==
    [][hasSerial /\ entry = "loaded" /\ host' # host =>
          at[host'] = Own \/ \E f \in left : Tests(f) = host']_vars

\* A setup that keeps failing finds a speaker that is on the network and stays:
\* the retries and the relocation are enough, whatever stale announcements say.
RetriesEnd == ~<>[](hasSerial /\ Present(Own) /\ entry \in {"setup", "retry"})

\* The docstring of _async_verify_identity: nothing of a stranger's state is ever
\* published under this speaker's name.
NothingOfAStranger == hasSerial => shown \in {Own, NoDevice}

=============================================================================
