----------------------------- MODULE SetupProofs -----------------------------
(***************************************************************************)
(* Safety of the life of an entry for every number of addresses, devices,  *)
(* moves, failures and attempts, by one inductive invariant.               *)
(***************************************************************************)
EXTENDS Setup, TLAPS

(***************************************************************************)
(* The inductive invariant.                                                *)
(***************************************************************************)

\* The phases in which an attempt has a client that is open.
AtWork == {"verify", "refresh", "poll", "platforms"}

\* A client is open exactly while an attempt works with it or the entry is loaded.
ClientIsOpen ==
    /\ client = "open" <=> entry = "loaded" \/ phase \in AtWork
    /\ client = "open" => clientHost \in Addresses

\* Once the speaker has told its serial, the client leads to it or to nobody: the
\* address it was made with belongs to the speaker until another device takes it.
LeadsToItsSpeaker ==
    hasSerial /\ ~swapped /\ client = "open" /\ phase # "verify" =>
        at[clientHost] \in {Own, NoDevice} /\ peer \in {Own, NoDevice}

\* A flow that has its answer still tests an address, and the device that answered
\* is the speaker; it is still there unless it has left since.
ToldByItsSpeaker ==
    \A f \in FlowKinds : told[f] # NoDevice =>
        /\ Tests(f) \in Addresses
        /\ hasSerial => told[f] = Own
        /\ at[Tests(f)] = told[f] \/ f \in left

IInv == TypeOK /\ ClientIsOpen /\ LeadsToItsSpeaker /\ OnlyItsSpeaker /\ ToldByItsSpeaker

(***************************************************************************)
(* The serial tells a speaker from every other device.                     *)
(***************************************************************************)

LEMMA SerialTells ==
    ASSUME NEW d \in Devices \cup {NoDevice}, SerialMatches(SerialOf(d))
    PROVE  d = Own
BY NetworkAssumption DEF SerialMatches, SerialOf

LEMMA InitHolds == Init => IInv
<1> SUFFICES ASSUME Init PROVE IInv
  OBVIOUS
<1>1. /\ at \in [Addresses -> Devices \cup {NoDevice}]
      /\ records \subseteq Announcements
  BY NetworkAssumption DEF Init, Announcements, Serials
<1>2. events \in 0..MaxEvents /\ faults \in 0..MaxFaults
  BY NetworkAssumption DEF Init
<1>3. TypeOK
  BY <1>1, <1>2, NetworkAssumption DEF Init, TypeOK, Phases
<1>4. ToldByItsSpeaker
  BY DEF Init, ToldByItsSpeaker
<1>5. QED
  BY <1>3, <1>4 DEF Init, IInv, ClientIsOpen, AtWork, LeadsToItsSpeaker, OnlyItsSpeaker

(***************************************************************************)
(* Every step keeps the types.                                             *)
(***************************************************************************)

LEMMA BoundsKeep ==
    ASSUME TypeOK, Event \/ Fault \/ UNCHANGED bounds
    PROVE  events' \in 0..MaxEvents /\ faults' \in 0..MaxFaults
BY NetworkAssumption DEF TypeOK, Event, Fault, bounds

\* A request of the client reaches a device, or nobody.
LEMMA AnswerTypes ==
    ASSUME TypeOK, clientHost \in Addresses, Answered \/ NotAnswered
    PROVE  /\ Reached \in Devices \cup {NoDevice}
           /\ peer' \in Devices \cup {NoDevice}
           /\ Fault \/ UNCHANGED bounds
BY DEF TypeOK, Answered, NotAnswered, Reached

LEMMA NetworkStepTypes ==
    ASSUME TypeOK, NetworkStep
    PROVE  TypeOK'
<1>1. ASSUME NEW d \in Devices, NEW a \in Addresses, Moves(d, a) PROVE TypeOK'
  <2>1. at' \in [Addresses -> Devices \cup {NoDevice}]
    BY <1>1 DEF Moves, TypeOK
  <2>2. records' \subseteq Announcements
    BY <1>1 DEF Moves, TypeOK, Announcements, Serials
  <2>3. swapped' \in BOOLEAN
    BY <1>1 DEF Moves, TypeOK
  <2>4. left' \subseteq FlowKinds
    BY <1>1 DEF Moves, TypeOK
  <2>5. QED
    BY <1>1, <2>1, <2>2, <2>3, <2>4, BoundsKeep DEF Moves, TypeOK, stored, attempt
<1>2. ASSUME NEW r \in Announcements, Expires(r) PROVE TypeOK'
  BY <1>2 DEF Expires, TypeOK, stored, attempt, flows, bounds
<1>3. QED
  BY <1>1, <1>2 DEF NetworkStep

LEMMA SetupStepTypes ==
    ASSUME TypeOK, ClientIsOpen, SetupStep
    PROVE  TypeOK'
<1> USE DEF network, stored, flows, AtWork, ClientIsOpen
<1>1. CASE SetupStarts
  BY <1>1 DEF SetupStarts, TypeOK, Phases, bounds
<1>2. CASE Verifies
  <2>1. peer' \in Devices \cup {NoDevice} /\ (Fault \/ UNCHANGED bounds)
    BY <1>2, AnswerTypes DEF Verifies, TypeOK
  <2>2. /\ events' \in 0..MaxEvents /\ faults' \in 0..MaxFaults
    BY <2>1, BoundsKeep
  <2>3. /\ phase' \in Phases /\ client' \in {"open", "closed"}
        /\ entry' \in {"setup", "retry"} /\ (phase' = "none" <=> entry' = "retry")
    BY <1>2 DEF Verifies, GiveUpAttempt, TypeOK, Phases
  <2>4. QED
    BY <1>2, <2>1, <2>2, <2>3 DEF Verifies, TypeOK
<1>3. CASE Refreshes
  <2>1. peer' \in Devices \cup {NoDevice} /\ (Fault \/ UNCHANGED bounds)
    BY <1>3, AnswerTypes DEF Refreshes, TypeOK
  <2>2. model' \in Devices \cup {NoDevice}
    BY <1>3, AnswerTypes DEF Refreshes, TypeOK
  <2>3. /\ events' \in 0..MaxEvents /\ faults' \in 0..MaxFaults
    BY <2>1, BoundsKeep
  <2>4. QED
    BY <1>3, <2>1, <2>2, <2>3 DEF Refreshes, TypeOK, Phases
<1>4. CASE FirstPolls
  <2>1. peer' \in Devices \cup {NoDevice} /\ (Fault \/ UNCHANGED bounds)
    BY <1>4, AnswerTypes DEF FirstPolls, TypeOK
  <2>2. shown' \in Devices \cup {NoDevice}
    BY <1>4, AnswerTypes DEF FirstPolls, TypeOK
  <2>3. /\ events' \in 0..MaxEvents /\ faults' \in 0..MaxFaults
    BY <2>1, BoundsKeep
  <2>4. /\ phase' \in Phases /\ client' \in {"open", "closed"}
        /\ entry' \in {"setup", "retry"} /\ (phase' = "none" <=> entry' = "retry")
    BY <1>4 DEF FirstPolls, GiveUpAttempt, TypeOK, Phases
  <2>5. QED
    BY <1>4, <2>1, <2>2, <2>3, <2>4 DEF FirstPolls, TypeOK
<1>5. CASE AddsPlatforms
  BY <1>5, BoundsKeep DEF AddsPlatforms, TypeOK, Phases
<1>6. CASE SetupCancelled
  BY <1>6, BoundsKeep DEF SetupCancelled, CancelledCleansUp, TypeOK, Phases
<1>7. QED
  BY <1>1, <1>2, <1>3, <1>4, <1>5, <1>6 DEF SetupStep

LEMMA RelocationStepTypes ==
    ASSUME TypeOK, RelocationStep
    PROVE  TypeOK'
<1> USE DEF network, flows
<1>1. CASE Scans
  <2>1. found' \subseteq Announcements
    BY <1>1 DEF Scans, TypeOK
  <2>2. Fault \/ UNCHANGED bounds
    BY <1>1 DEF Scans
  <2>3. QED
    BY <1>1, <2>1, <2>2, BoundsKeep DEF Scans, TypeOK, Phases, stored
<1>2. CASE AsksCandidates
  <2>1. found' \subseteq Announcements
    BY <1>2 DEF AsksCandidates, TypeOK
  <2>2. Fault \/ UNCHANGED bounds
    BY <1>2 DEF AsksCandidates
  <2>3. QED
    BY <1>2, <2>1, <2>2, BoundsKeep DEF AsksCandidates, TypeOK, Phases, stored
<1>3. CASE Relocates
  <2>1. host' \in Addresses
    BY <1>3 DEF Relocates, Announced, TypeOK, Announcements
  <2>2. QED
    BY <1>3, <2>1 DEF Relocates, TypeOK, Phases, bounds
<1>4. QED
  BY <1>1, <1>2, <1>3 DEF RelocationStep

LEMMA LoadedStepTypes ==
    ASSUME TypeOK, ClientIsOpen, LoadedStep
    PROVE  TypeOK'
<1> USE DEF network, stored, flows, ClientIsOpen
<1>1. CASE Polls
  <2>1. /\ peer' \in Devices \cup {NoDevice} /\ shown' \in Devices \cup {NoDevice}
        /\ Fault \/ UNCHANGED bounds
    BY <1>1, AnswerTypes DEF Polls, TypeOK
  <2>2. /\ events' \in 0..MaxEvents /\ faults' \in 0..MaxFaults
    BY <2>1, BoundsKeep
  <2>3. QED
    BY <1>1, <2>1, <2>2 DEF Polls, TypeOK
<1>2. CASE Unloads
  <2>1. Event \/ Fault \/ UNCHANGED bounds
    BY <1>2 DEF Unloads
  <2>2. QED
    BY <1>2, <2>1, BoundsKeep DEF Unloads, TypeOK
<1>3. QED
  BY <1>1, <1>2 DEF LoadedStep

\* A flow gets its answer, or is over.
LEMMA AnswersOfFlows ==
    ASSUME TypeOK, NEW f \in FlowKinds, NEW a \in Addresses \cup {NoAddress},
           (Hears(f, a) /\ UNCHANGED left) \/ Over(f)
    PROVE  /\ told' \in [FlowKinds -> Devices \cup {NoDevice}]
           /\ left' \subseteq FlowKinds
<1>1. CASE Hears(f, a) /\ UNCHANGED left
  <2>1. at[a] \in Devices
    BY <1>1 DEF Hears, TypeOK
  <2>2. QED
    BY <1>1, <2>1 DEF Hears, TypeOK
<1>2. CASE Over(f)
  BY <1>2 DEF Over, TypeOK
<1>3. QED
  BY <1>1, <1>2

\* What a flow with an answer writes is an address.
LEMMA ToldTests ==
    ASSUME ToldByItsSpeaker
    PROVE  /\ told["zeroconf"] # NoDevice => zeroconf \in Addresses
           /\ told["reconfigure"] # NoDevice => reconfigure \in Addresses
BY DEF ToldByItsSpeaker, FlowKinds, Tests

LEMMA FlowStepTypes ==
    ASSUME TypeOK, ToldByItsSpeaker, FlowStep
    PROVE  TypeOK'
<1> USE DEF network, attempt
<1>f. "zeroconf" \in FlowKinds /\ "reconfigure" \in FlowKinds
  BY DEF FlowKinds
<1>1. ASSUME NEW r \in Announcements, ZeroconfStarts(r) PROVE TypeOK'
  BY <1>1 DEF ZeroconfStarts, TypeOK, stored, bounds, Announcements
<1>2. CASE ZeroconfHears
  <2>1. told' \in [FlowKinds -> Devices \cup {NoDevice}]
    BY <1>f, <1>2, AnswersOfFlows DEF ZeroconfHears, TypeOK
  <2>2. QED
    BY <1>2, <2>1 DEF ZeroconfHears, TypeOK, stored, bounds
<1>3. CASE ZeroconfRepoints
  <2>1. told' \in [FlowKinds -> Devices \cup {NoDevice}] /\ left' \subseteq FlowKinds
    BY <1>f, <1>3, AnswersOfFlows DEF ZeroconfRepoints, TypeOK
  <2>2. host' \in Addresses
    BY <1>3, ToldTests DEF ZeroconfRepoints
  <2>3. QED
    BY <1>3, <2>1, <2>2 DEF ZeroconfRepoints, TypeOK, bounds
<1>4. CASE ZeroconfAborts
  <2>1. told' \in [FlowKinds -> Devices \cup {NoDevice}] /\ left' \subseteq FlowKinds
    BY <1>f, <1>4, AnswersOfFlows DEF ZeroconfAborts, TypeOK
  <2>2. QED
    BY <1>4, <2>1, BoundsKeep DEF ZeroconfAborts, TypeOK, stored
<1>5. ASSUME NEW a \in Addresses, ReconfigureStarts(a) PROVE TypeOK'
  BY <1>5, BoundsKeep DEF ReconfigureStarts, TypeOK, stored
<1>6. CASE ReconfigureHears
  <2>1. told' \in [FlowKinds -> Devices \cup {NoDevice}]
    BY <1>f, <1>6, AnswersOfFlows DEF ReconfigureHears, TypeOK
  <2>2. QED
    BY <1>6, <2>1 DEF ReconfigureHears, TypeOK, stored, bounds
<1>7. CASE ReconfigureSaves
  <2>1. told' \in [FlowKinds -> Devices \cup {NoDevice}] /\ left' \subseteq FlowKinds
    BY <1>f, <1>7, AnswersOfFlows DEF ReconfigureSaves, TypeOK
  <2>2. host' \in Addresses /\ model' \in Devices \cup {NoDevice}
    BY <1>f, <1>7, ToldTests DEF ReconfigureSaves, TypeOK
  <2>3. QED
    BY <1>7, <2>1, <2>2 DEF ReconfigureSaves, TypeOK, bounds
<1>8. CASE ReconfigureEnds
  <2>1. told' \in [FlowKinds -> Devices \cup {NoDevice}] /\ left' \subseteq FlowKinds
    BY <1>f, <1>8, AnswersOfFlows DEF ReconfigureEnds, TypeOK
  <2>2. QED
    BY <1>8, <2>1 DEF ReconfigureEnds, TypeOK, stored, bounds
<1>9. QED
  BY <1>1, <1>2, <1>3, <1>4, <1>5, <1>6, <1>7, <1>8 DEF FlowStep

LEMMA TypesKeep ==
    ASSUME TypeOK, ClientIsOpen, ToldByItsSpeaker, [Next]_vars
    PROVE  TypeOK'
<1>1. CASE UNCHANGED vars
  BY <1>1 DEF vars, network, stored, attempt, flows, bounds, TypeOK
<1>2. QED
  BY <1>1, NetworkStepTypes, SetupStepTypes, RelocationStepTypes, LoadedStepTypes, FlowStepTypes
     DEF Next

(***************************************************************************)
(* Every step keeps the rest of the invariant.                             *)
(***************************************************************************)

\* What a client whose speaker has told its serial reaches.
LEMMA ReachesItsSpeaker ==
    ASSUME LeadsToItsSpeaker, hasSerial, ~swapped, client = "open", phase # "verify", Answered
    PROVE  Reached = Own /\ peer' = Own
BY DEF LeadsToItsSpeaker, Answered, Reached

\* Who has told a flow what changes with the flows and the network only.
LEMMA ToldKeeps ==
    ASSUME ToldByItsSpeaker, UNCHANGED <<at, hasSerial, flows>>
    PROVE  ToldByItsSpeaker'
BY DEF ToldByItsSpeaker, Tests, flows

LEMMA NetworkStepKeeps ==
    ASSUME IInv, NetworkStep
    PROVE  IInv'
<1>t. TypeOK'
  BY NetworkStepTypes DEF IInv
<1>1. ASSUME NEW d \in Devices, NEW a \in Addresses, Moves(d, a) PROVE IInv'
  <2>1. UNCHANGED <<stored, entry, attempt, shown>>
    BY <1>1 DEF Moves
  <2>2. ClientIsOpen' /\ (~swapped' => ~swapped)
    BY <1>1, <2>1 DEF Moves, IInv, TypeOK, ClientIsOpen, attempt
  <2>3. LeadsToItsSpeaker'
    <3> SUFFICES ASSUME hasSerial, ~swapped', client = "open", phase # "verify"
                 PROVE  at'[clientHost] \in {Own, NoDevice} /\ peer \in {Own, NoDevice}
      BY <2>1 DEF LeadsToItsSpeaker, stored, attempt
    <3>1. clientHost \in Addresses /\ at[clientHost] \in {Own, NoDevice}
          /\ peer \in {Own, NoDevice}
      BY <2>2 DEF IInv, ClientIsOpen, LeadsToItsSpeaker
    <3>2. clientHost = a => d = Own
      BY <1>1 DEF Moves
    <3>3. at'[clientHost] = IF clientHost = a THEN d
                            ELSE IF at[clientHost] = d THEN NoDevice ELSE at[clientHost]
      BY <1>1, <3>1 DEF Moves
    <3>4. QED
      BY <3>1, <3>2, <3>3
  <2>4. OnlyItsSpeaker'
    BY <2>1, <2>2 DEF IInv, OnlyItsSpeaker, stored
  <2>5. ToldByItsSpeaker'
    <3> SUFFICES ASSUME NEW f \in FlowKinds, told[f] # NoDevice
                 PROVE  /\ Tests(f) \in Addresses
                        /\ hasSerial => told[f] = Own
                        /\ at'[Tests(f)] = told[f] \/ f \in left'
      BY <1>1, <2>1 DEF Moves, ToldByItsSpeaker, Tests, stored
    <3>1. /\ Tests(f) \in Addresses /\ (hasSerial => told[f] = Own)
          /\ at[Tests(f)] = told[f] \/ f \in left
      BY DEF IInv, ToldByItsSpeaker
    <3>2. CASE told[f] = d /\ Tests(f) # a
      BY <1>1, <3>1, <3>2 DEF Moves
    <3>3. CASE Tests(f) = a
      BY <1>1, <3>1, <3>3 DEF Moves
    <3>4. CASE told[f] # d /\ Tests(f) # a
      BY <1>1, <3>1, <3>4 DEF Moves
    <3>5. QED
      BY <3>1, <3>2, <3>3, <3>4
  <2>6. QED
    BY <1>t, <2>2, <2>3, <2>4, <2>5 DEF IInv
<1>2. ASSUME NEW r \in Announcements, Expires(r) PROVE IInv'
  BY <1>t, <1>2, ToldKeeps
     DEF Expires, IInv, ClientIsOpen, LeadsToItsSpeaker, OnlyItsSpeaker, stored, attempt
<1>3. QED
  BY <1>1, <1>2 DEF NetworkStep

LEMMA SetupStepKeeps ==
    ASSUME IInv, SetupStep
    PROVE  IInv'
<1>t. TypeOK /\ TypeOK' /\ ToldByItsSpeaker'
  <2>1. UNCHANGED <<at, hasSerial, flows>>
    BY DEF SetupStep, SetupStarts, Verifies, Refreshes, FirstPolls, AddsPlatforms, SetupCancelled,
           network, stored
  <2>2. QED
    BY <2>1, SetupStepTypes, ToldKeeps DEF IInv
<1> USE DEF network, stored, flows, ClientIsOpen, AtWork
<1>1. CASE SetupStarts
  BY <1>t, <1>1 DEF SetupStarts, TypeOK, IInv, LeadsToItsSpeaker, OnlyItsSpeaker
<1>2. CASE Verifies
  <2>1. /\ UNCHANGED <<at, host, model, hasSerial, clientHost, shown, swapped>>
        /\ phase = "verify" /\ client = "open" /\ clientHost \in Addresses /\ entry = "setup"
    BY <1>t, <1>2 DEF Verifies, IInv, TypeOK
  <2>2. ClientIsOpen'
    BY <1>2, <2>1 DEF Verifies, GiveUpAttempt
  <2>3. LeadsToItsSpeaker'
    <3>1. CASE hasSerial /\ Answered /\ SerialMatches(SerialOf(Reached))
      <4>1. Reached = Own
        BY <1>t, <2>1, <3>1, AnswerTypes, SerialTells
      <4>2. peer' = Own /\ at[clientHost] = Own
        BY <3>1, <4>1 DEF Answered, Reached
      <4>3. QED
        BY <2>1, <4>2 DEF LeadsToItsSpeaker
    <3>2. CASE ~hasSerial \/ client' = "closed"
      BY <2>1, <3>2 DEF LeadsToItsSpeaker
    <3>3. QED
      BY <1>2, <3>1, <3>2 DEF Verifies, GiveUpAttempt
  <2>4. QED
    BY <1>t, <2>1, <2>2, <2>3 DEF IInv, OnlyItsSpeaker
<1>3. CASE Refreshes \/ FirstPolls
  <2>1. /\ UNCHANGED <<at, host, hasSerial, clientHost, swapped>>
        /\ phase \in {"refresh", "poll"} /\ client = "open" /\ clientHost \in Addresses
        /\ entry = "setup"
        /\ Answered \/ NotAnswered
    BY <1>t, <1>3 DEF Refreshes, FirstPolls, IInv, TypeOK
  <2>2. ClientIsOpen'
    BY <1>3, <2>1 DEF Refreshes, FirstPolls, GiveUpAttempt
  <2>3. hasSerial /\ ~swapped => peer' \in {Own, NoDevice} /\ (Answered => Reached = Own)
    BY <2>1, ReachesItsSpeaker DEF IInv, NotAnswered
  <2>4. LeadsToItsSpeaker'
    BY <2>1, <2>3 DEF IInv, LeadsToItsSpeaker
  <2>5. OnlyItsSpeaker'
    BY <1>3, <2>1, <2>3 DEF Refreshes, FirstPolls, GiveUpAttempt, IInv, OnlyItsSpeaker
  <2>6. QED
    BY <1>t, <2>2, <2>4, <2>5 DEF IInv
<1>4. CASE AddsPlatforms
  BY <1>t, <1>4 DEF AddsPlatforms, TypeOK, IInv, LeadsToItsSpeaker, OnlyItsSpeaker
<1>5. CASE SetupCancelled
  BY <1>t, <1>5
     DEF SetupCancelled, CancelledCleansUp, TypeOK, IInv, LeadsToItsSpeaker, OnlyItsSpeaker
<1>6. QED
  BY <1>1, <1>2, <1>3, <1>4, <1>5 DEF SetupStep

LEMMA RelocationStepKeeps ==
    ASSUME IInv, RelocationStep
    PROVE  IInv'
<1>1. TypeOK /\ TypeOK'
  BY RelocationStepTypes DEF IInv
<1>2. /\ UNCHANGED <<at, model, hasSerial, client, clientHost, peer, shown, swapped>>
      /\ phase \in {"scan", "ask", "update"} /\ phase' \in {"none", "ask", "update"}
      /\ entry = "setup" /\ entry' \in {"setup", "retry"}
  BY <1>1
     DEF RelocationStep, Scans, AsksCandidates, Relocates, network, stored, flows, TypeOK
<1>3. UNCHANGED <<at, hasSerial, flows>>
  BY DEF RelocationStep, Scans, AsksCandidates, Relocates, network, stored
<1>4. QED
  BY <1>1, <1>2, <1>3, ToldKeeps DEF IInv, ClientIsOpen, AtWork, LeadsToItsSpeaker, OnlyItsSpeaker

LEMMA LoadedStepKeeps ==
    ASSUME IInv, LoadedStep
    PROVE  IInv'
<1>t. TypeOK /\ TypeOK' /\ ToldByItsSpeaker'
  <2>1. UNCHANGED <<at, hasSerial, flows>>
    BY DEF LoadedStep, Polls, Unloads, network, stored
  <2>2. QED
    BY <2>1, LoadedStepTypes, ToldKeeps DEF IInv
<1> USE DEF network, stored, flows, ClientIsOpen, AtWork
<1>1. CASE Polls
  <2>1. /\ UNCHANGED <<at, model, hasSerial, entry, phase, client, clientHost, swapped>>
        /\ entry = "loaded" /\ client = "open" /\ phase = "none"
        /\ (Answered /\ shown' = Reached) \/ (NotAnswered /\ UNCHANGED shown)
    BY <1>t, <1>1 DEF Polls, IInv, TypeOK
  <2>2. hasSerial /\ ~swapped =>
          peer' \in {Own, NoDevice} /\ (shown' = Own \/ UNCHANGED shown)
    BY <2>1, ReachesItsSpeaker DEF IInv, NotAnswered
  <2>3. QED
    BY <1>t, <2>1, <2>2 DEF IInv, LeadsToItsSpeaker, OnlyItsSpeaker
<1>2. CASE Unloads
  BY <1>t, <1>2 DEF Unloads, TypeOK, IInv, LeadsToItsSpeaker, OnlyItsSpeaker
<1>3. QED
  BY <1>1, <1>2 DEF LoadedStep

\* What a flow starts to test has not told it anything yet, what it hears is its
\* speaker's answer, and what it heard is forgotten with it.
LEMMA FlowStepTold ==
    ASSUME TypeOK, ToldByItsSpeaker, FlowStep
    PROVE  ToldByItsSpeaker'
<1> SUFFICES ASSUME NEW f \in FlowKinds, told'[f] # NoDevice
             PROVE  /\ Tests(f)' \in Addresses
                    /\ hasSerial' => told'[f] = Own
                    /\ at'[Tests(f)'] = told'[f] \/ f \in left'
  BY DEF ToldByItsSpeaker
<1>u. UNCHANGED <<at, hasSerial>>
  BY DEF FlowStep, ZeroconfStarts, ZeroconfHears, ZeroconfRepoints, ZeroconfAborts,
         ReconfigureStarts, ReconfigureHears, ReconfigureSaves, ReconfigureEnds, network, stored
<1>1. CASE told'[f] = told[f] /\ Tests(f)' = Tests(f) /\ (f \in left => f \in left')
  BY <1>u, <1>1 DEF ToldByItsSpeaker
<1>2. CASE Hears(f, Tests(f)) /\ Tests(f)' = Tests(f)
           /\ (hasSerial => SerialMatches(SerialOf(at[Tests(f)])))
  <2>1. Tests(f) \in Addresses /\ at[Tests(f)] \in Devices /\ told'[f] = at[Tests(f)]
    BY <1>2 DEF Hears, TypeOK, Tests
  <2>2. QED
    BY <1>u, <1>2, <2>1, SerialTells
<1>z. CASE f = "zeroconf"
  <2>1. ASSUME NEW r \in Announcements, ZeroconfStarts(r) PROVE FALSE
    BY <1>z, <2>1, NetworkAssumption DEF ZeroconfStarts, ToldByItsSpeaker, Tests
  <2>2. CASE ZeroconfHears
    BY <1>z, <1>2, <2>2 DEF ZeroconfHears, ConfirmedAt, Tests
  <2>3. ~ZeroconfRepoints /\ ~ZeroconfAborts
    BY <1>z DEF ZeroconfRepoints, ZeroconfAborts, Over, TypeOK
  <2>4. CASE \/ \E a \in Addresses : ReconfigureStarts(a)
             \/ ReconfigureHears \/ ReconfigureSaves \/ ReconfigureEnds
    BY <1>z, <1>1, <2>4
       DEF ReconfigureStarts, ReconfigureHears, ReconfigureSaves, ReconfigureEnds, Hears, Over,
           Tests, TypeOK
  <2>5. QED
    BY <2>1, <2>2, <2>3, <2>4 DEF FlowStep
<1>r. CASE f = "reconfigure"
  <2>1. ASSUME NEW a \in Addresses, ReconfigureStarts(a) PROVE FALSE
    BY <1>r, <2>1, NetworkAssumption DEF ReconfigureStarts, ToldByItsSpeaker, Tests
  <2>2. CASE ReconfigureHears
    BY <1>r, <1>2, <2>2 DEF ReconfigureHears, Tests
  <2>3. ~ReconfigureSaves /\ ~ReconfigureEnds
    BY <1>r DEF ReconfigureSaves, ReconfigureEnds, Over, TypeOK
  <2>4. CASE \/ \E q \in Announcements : ZeroconfStarts(q)
             \/ ZeroconfHears \/ ZeroconfRepoints \/ ZeroconfAborts
    BY <1>r, <1>1, <2>4
       DEF ZeroconfStarts, ZeroconfHears, ZeroconfRepoints, ZeroconfAborts, Hears, Over, Tests,
           TypeOK
  <2>5. QED
    BY <2>1, <2>2, <2>3, <2>4 DEF FlowStep
<1>3. QED
  BY <1>z, <1>r DEF FlowKinds

LEMMA FlowStepKeeps ==
    ASSUME IInv, FlowStep
    PROVE  IInv'
<1>1. TypeOK /\ TypeOK' /\ ToldByItsSpeaker'
  BY FlowStepTypes, FlowStepTold DEF IInv
<1>2. /\ UNCHANGED <<at, hasSerial, entry, phase, client, clientHost, peer, shown, swapped>>
      /\ UNCHANGED model \/ ReconfigureSaves
  BY DEF FlowStep, ZeroconfStarts, ZeroconfHears, ZeroconfRepoints, ZeroconfAborts,
         ReconfigureStarts, ReconfigureHears, ReconfigureSaves, ReconfigureEnds, network, stored,
         attempt
<1>3. ClientIsOpen' /\ LeadsToItsSpeaker'
  BY <1>2 DEF IInv, ClientIsOpen, LeadsToItsSpeaker
<1>4. OnlyItsSpeaker'
  <2>1. CASE ReconfigureSaves
    <3>1. hasSerial => told["reconfigure"] = Own
      BY <2>1 DEF ReconfigureSaves, IInv, ToldByItsSpeaker, FlowKinds
    <3>2. QED
      BY <1>2, <2>1, <3>1 DEF ReconfigureSaves, IInv, OnlyItsSpeaker
  <2>2. CASE UNCHANGED model
    BY <1>2, <2>2 DEF IInv, OnlyItsSpeaker
  <2>3. QED
    BY <1>2, <2>1, <2>2
<1>5. QED
  BY <1>1, <1>3, <1>4 DEF IInv

LEMMA StepKeeps == IInv /\ [Next]_vars => IInv'
<1>1. ASSUME IInv, UNCHANGED vars PROVE IInv'
  <2>1. TypeOK'
    BY <1>1, TypesKeep DEF IInv
  <2>2. ToldByItsSpeaker'
    BY <1>1, ToldKeeps DEF vars, network, stored, IInv
  <2>3. QED
    BY <1>1, <2>1, <2>2
       DEF vars, network, stored, attempt, IInv, ClientIsOpen, LeadsToItsSpeaker, OnlyItsSpeaker
<1>2. QED
  BY <1>1, NetworkStepKeeps, SetupStepKeeps, RelocationStepKeeps, LoadedStepKeeps, FlowStepKeeps
     DEF Next

\* The invariant holds of every life of an entry.
THEOREM InvariantHolds == Spec => []IInv
<1>1. Init => IInv
  BY InitHolds
<1>2. IInv /\ [Next]_vars => IInv'
  BY StepKeeps
<1>3. QED
  BY <1>1, <1>2, PTL DEF Spec

(***************************************************************************)
(* The theorems.                                                           *)
(***************************************************************************)

\* The variables keep their types, and an attempt is under way exactly while the
\* entry is being set up.
THEOREM TypeCorrect == Spec => []TypeOK
<1>1. IInv => TypeOK
  BY DEF IInv
<1>2. QED
  BY <1>1, InvariantHolds, PTL

\* Wherever the devices move, an entry with a serial shows and stores what its own
\* speaker said, until another device takes the address of the running client.
THEOREM OnlyItsSpeakerHolds == Spec => []OnlyItsSpeaker
<1>1. IInv => OnlyItsSpeaker
  BY DEF IInv
<1>2. QED
  BY <1>1, InvariantHolds, PTL

\* However an attempt ends, it leaves no connection behind.
THEOREM NoConnectionLeftHolds == Spec => []NoConnectionLeft
<1>1. IInv => NoConnectionLeft
  BY DEF IInv, ClientIsOpen, AtWork, NoConnectionLeft
<1>2. QED
  BY <1>1, InvariantHolds, PTL

\* A working entry is repointed only at an address where its speaker is, or has been
\* when it answered the flow that now writes.
THEOREM RepointedByItsSpeakerHolds == Spec => RepointedByItsSpeaker
<1>1. ASSUME IInv, [Next]_vars,
             hasSerial, entry = "loaded", host' # host
      PROVE  at[host'] = Own \/ \E f \in left : Tests(f) = host'
  <2>1. TypeOK /\ phase = "none" /\ ToldByItsSpeaker
    BY <1>1 DEF IInv, TypeOK
  <2>2. CASE ZeroconfRepoints
    <3>1. told["zeroconf"] # NoDevice /\ host' = Tests("zeroconf")
      BY <2>2 DEF ZeroconfRepoints, Tests
    <3>2. QED
      BY <1>1, <2>1, <3>1 DEF ToldByItsSpeaker, FlowKinds
  <2>3. CASE ReconfigureSaves
    <3>1. told["reconfigure"] # NoDevice /\ host' = Tests("reconfigure")
      BY <2>3 DEF ReconfigureSaves, Tests
    <3>2. QED
      BY <1>1, <2>1, <3>1 DEF ToldByItsSpeaker, FlowKinds
  <2>4. CASE UNCHANGED vars
    BY <1>1, <2>4 DEF vars, stored
  <2>5. QED
    BY <1>1, <2>1, <2>2, <2>3, <2>4
       DEF Next, NetworkStep, Moves, Expires, SetupStep, SetupStarts, Verifies, Refreshes,
           FirstPolls, AddsPlatforms, SetupCancelled, RelocationStep, Scans, AsksCandidates,
           Relocates, LoadedStep, Polls, Unloads, FlowStep, ZeroconfStarts, ZeroconfHears,
           ZeroconfAborts, ReconfigureStarts, ReconfigureHears, ReconfigureEnds, stored
<1>2. QED
  BY <1>1, InvariantHolds, PTL DEF Spec, RepointedByItsSpeaker

=============================================================================
