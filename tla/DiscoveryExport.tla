--------------------------- MODULE DiscoveryExport ---------------------------
(***************************************************************************)
(* A full device discovery (export_actions.py, discovery_export.py): the   *)
(* values of all known paths, then a walk over the address tree the        *)
(* speaker describes, then the file and the store.                         *)
(*                                                                         *)
(* The walk asks osc/schema at a container and osc/limits at a leaf.  Such *)
(* requests carry no id, so a reply may be a late line of the one before   *)
(* (the limitation SSCClient.tla is about).  Between two awaits the walk   *)
(* runs on its own; its steps over a level are separate here, nothing else *)
(* looks at what they change.                                              *)
(***************************************************************************)
EXTENDS Speaker, FiniteSets, SequencesExt

CONSTANTS
    Keys,           \* the keys an address is made of
    Trees,          \* the address trees a speaker may have, per firmware
    KnownPaths,     \* known_paths_for_model()
    MaxNodes,       \* _MAX_SCHEMA_NODES
    MaxDepth,       \* _MAX_SCHEMA_DEPTH
    MaxPresses,     \* bound: presses of the discovery button
    MaxFaults       \* bound: refused, lost, late or timed out steps, restarts

\* Whatever is in a tree hangs below containers.
ASSUME TreesAssumption ==
    \A tree \in Trees :
        /\ tree \in [DOMAIN tree -> {"leaf", "container"}]
        /\ DOMAIN tree \subseteq Seq(Keys) \ {<<>>}
        /\ \A a \in DOMAIN tree : \A n \in 1..Len(a)-1 : At(tree, SubSeq(a, 1, n)) = "container"

ASSUME KnownAssumption == IsFiniteSet(KnownPaths)

ASSUME BoundsAssumption ==
    /\ MaxNodes \in Nat \ {0} /\ MaxDepth \in Nat \ {0}
    /\ MaxPresses \in Nat /\ MaxFaults \in Nat

Addresses == UNION {DOMAIN tree : tree \in Trees}

\* What a call of _walk still has to visit: children, by what the reply shows.
Levels == UNION {[S -> {"leaf", "container"}] : S \in SUBSET Addresses}

VARIABLES
    tree,           \* the speaker: its address tree
    describes,      \* it answers osc/schema and osc/limits at all
    phase,          \* where the run is; it holds the action lock unless idle
    toRead, known,  \* known paths still to read; those that gave a value
    stack,          \* the running calls of _walk: their path, children to go
    asking,         \* the address the request under way is about
    count,          \* node_count
    limits,         \* result: the leaves described, with the answer used
    lastSchema, lastLimits,   \* the latest replies, a line of which may be late
    exported, stored,         \* the file, the copy in the store
    runs, faults,   \* used-up bounds; runs also numbers the records
    whole           \* history: nothing went wrong in this run

walkV  == <<stack, asking, count, limits, lastSchema, lastLimits>>
filesV == <<exported, stored>>
vars == <<tree, describes, phase, toRead, known, walkV, filesV, runs, faults, whole>>

Records == [run : Nat, known : SUBSET KnownPaths, limits : SUBSET (Addresses \X Addresses),
            whole : BOOLEAN]

NoRecord == [run |-> 0, known |-> {}, limits |-> {}, whole |-> FALSE]

Phases == {"idle", "known", "schema", "limits", "walk", "file", "store"}
Walking == {"schema", "limits", "walk"}

TypeOK ==
    /\ tree \in Trees
    /\ describes \in BOOLEAN
    /\ phase \in Phases
    /\ toRead \subseteq KnownPaths /\ known \subseteq KnownPaths
    /\ stack \in Seq(Levels)
    /\ asking \in Addresses \cup {<<>>}
    /\ count \in 0..MaxNodes
    /\ limits \subseteq Addresses \X Addresses
    /\ exported.run \in 0..runs /\ stored.run \in 0..runs
    /\ runs \in 0..MaxPresses /\ faults \in 0..MaxFaults
    /\ whole \in BOOLEAN

Init ==
    /\ tree \in Trees
    /\ describes \in BOOLEAN
    /\ phase = "idle"
    /\ toRead = {} /\ known = {}
    /\ stack = <<>> /\ asking = <<>> /\ count = 0 /\ limits = {}
    /\ lastSchema = Nothing /\ lastLimits = Nothing
    /\ exported = NoRecord /\ stored = NoRecord
    /\ runs = 0 /\ faults = 0
    /\ whole = TRUE

Fault == faults < MaxFaults /\ faults' = faults + 1 /\ whole' = FALSE

Fine == UNCHANGED <<faults, whole>>

(***************************************************************************)
(* The known paths.                                                        *)
(***************************************************************************)

\* The action lock is free: claim_device() refuses every other press meanwhile.
Pressed ==
    /\ phase = "idle" /\ runs < MaxPresses
    /\ runs' = runs + 1
    /\ phase' = "known"
    /\ toRead' = KnownPaths /\ known' = {}
    /\ limits' = {} /\ count' = 0
    /\ whole' = TRUE
    /\ UNCHANGED <<tree, describes, stack, asking, lastSchema, lastLimits, filesV, faults>>

\* A path the speaker does not have, or gives no value for, is skipped.
ReadsKnown(p) ==
    /\ phase = "known" /\ p \in toRead
    /\ toRead' = toRead \ {p}
    /\ \/ known' = (IF Answered(tree, p) THEN known \cup {p} ELSE known) /\ Fine
       \/ Fault /\ UNCHANGED known
    /\ UNCHANGED <<tree, describes, phase, walkV, filesV, runs>>

\* The run is over; its locals die with it, and the lock is released.
Ends ==
    /\ phase' = "idle"
    /\ toRead' = {} /\ known' = {}
    /\ stack' = <<>> /\ asking' = <<>> /\ count' = 0 /\ limits' = {}
    /\ UNCHANGED <<lastSchema, lastLimits>>

\* A lost connection or the time limit: DiscoveryTimeoutError, discovery_failed.
KnownAborts ==
    /\ phase = "known" /\ Fault
    /\ Ends
    /\ UNCHANGED <<tree, describes, filesV, runs>>

KnownIsRead ==
    /\ phase = "known" /\ toRead = {}
    /\ phase' = "schema" /\ asking' = <<>>
    /\ UNCHANGED <<tree, describes, toRead, known, stack, count, limits, lastSchema, lastLimits,
                   filesV, runs>>
    /\ Fine

(***************************************************************************)
(* The walk (_walk, _fetch_schema_subtree, _async_query_limits).           *)
(***************************************************************************)

\* extract(): the level a schema reply shows at an address, if any.  Below the
\* address it is about it knows of empty containers, above it of one child.
LevelsAt(reply, path) ==
    LET next == SubSeq(reply.about, 1, Len(path) + 1)
    IN  IF reply.kind # "schema" THEN {}
        ELSE IF path = reply.about THEN {reply.level}
        ELSE IF path \in DOMAIN reply.level /\ reply.level[path] = "container" THEN {<<>>}
        ELSE IF Len(path) < Len(reply.about) /\ IsPrefix(path, reply.about)
             THEN {[a \in {next} |->
                    IF next = reply.about /\ reply.level = <<>> THEN "container" ELSE "leaf"]}
        ELSE {}

\* MUTANT: whatever the reply describes is taken for what was asked.
TakesAnyLimits(reply, path) ==
    IF reply.kind = "limits" THEN {<<path, reply.about>>} ELSE {}

\* Where in the result a description lands, and of which leaf it is: one of
\* another address is not found at the address asked for.
LimitsAt(reply, path) ==
    IF reply.kind = "limits" /\ IsPrefix(path, reply.about)
    THEN {<<reply.about, reply.about>>} ELSE {}

\* What the speaker answers, and what may come in its place: no reply that can be
\* used (an error, a lost line), or a late line of the reply before.
MayReply(reply, own, last) ==
    \/ reply = own /\ Fine
    \/ reply \in {Nothing, last} /\ Fault

SchemaArrives ==
    /\ phase = "schema"
    /\ \E reply \in {IF describes THEN Schema(tree, asking) ELSE Nothing, Nothing, lastSchema} :
         /\ MayReply(reply, IF describes THEN Schema(tree, asking) ELSE Nothing, lastSchema)
         /\ lastSchema' = IF describes THEN Schema(tree, asking) ELSE lastSchema
         /\ IF LevelsAt(reply, asking) = {} THEN UNCHANGED stack
            ELSE \E level \in LevelsAt(reply, asking) : stack' = Append(stack, level)
    /\ phase' = "walk"
    /\ UNCHANGED <<tree, describes, toRead, known, asking, count, limits, lastLimits, filesV, runs>>

\* MUTANT: a leaf that gave nothing is asked again.
AsksAgain(reply) == IF reply = Nothing THEN "limits" ELSE "walk"

AfterLimits(reply) == "walk"

LimitsArrive ==
    /\ phase = "limits"
    /\ \E reply \in {IF describes THEN Limits(tree, asking) ELSE Nothing, Nothing, lastLimits} :
         /\ MayReply(reply, IF describes THEN Limits(tree, asking) ELSE Nothing, lastLimits)
         /\ lastLimits' = IF describes THEN Limits(tree, asking) ELSE lastLimits
         /\ limits' = limits \cup LimitsAt(reply, asking)
         /\ phase' = AfterLimits(reply)
    /\ UNCHANGED <<tree, describes, toRead, known, stack, asking, count, lastSchema, filesV, runs>>

\* MUTANT: as it was once, one node more than the bound.
OneNodeMore == count <= MaxNodes

NodesLeft == count < MaxNodes

\* MUTANT: the deepest level is left out.
OneLevelLess(child) == Len(child) + 1 < MaxDepth

LevelsLeft(child) == Len(child) < MaxDepth

\* The next child of the level at hand: a container is asked for its level, if
\* the bounds allow, a leaf for its limits.
Visits(child) ==
    /\ phase = "walk" /\ stack # <<>>
    /\ child \in DOMAIN Last(stack) /\ NodesLeft
    /\ count' = count + 1
    /\ stack' = [stack EXCEPT ![Len(stack)] = Restrict(@, DOMAIN @ \ {child})]
    /\ asking' = child
    /\ phase' = IF Last(stack)[child] = "leaf" THEN "limits"
                ELSE IF LevelsLeft(child) /\ count + 1 < MaxNodes THEN "schema"
                ELSE "walk"
    /\ UNCHANGED <<tree, describes, toRead, known, limits, lastSchema, lastLimits, filesV, runs>>
    /\ Fine

\* A call of _walk returns to its caller.
Returns ==
    /\ phase = "walk" /\ stack # <<>>
    /\ DOMAIN Last(stack) = {} \/ ~NodesLeft
    /\ stack' = Front(stack)
    /\ UNCHANGED <<tree, describes, phase, toRead, known, asking, count, limits, lastSchema,
                   lastLimits, filesV, runs>>
    /\ Fine

\* The time limit of the walk, or an error out of it: what it has is kept.
WalkCutShort ==
    /\ phase \in Walking /\ (phase = "walk" => stack # <<>>)
    /\ Fault
    /\ phase' = "walk" /\ stack' = <<>>
    /\ UNCHANGED <<tree, describes, toRead, known, asking, count, limits, lastSchema, lastLimits,
                   filesV, runs>>

(***************************************************************************)
(* The file and the store (async_run_discovery).                           *)
(***************************************************************************)

\* MUTANT: an empty run is exported like any other.
AnyRun == TRUE

ReadSomething == known # {} \/ limits # {}

Judged ==
    /\ phase = "walk" /\ stack = <<>>
    /\ IF ReadSomething
       THEN phase' = "file"
            /\ UNCHANGED <<toRead, known, stack, asking, count, limits, lastSchema, lastLimits>>
       ELSE Ends
    /\ UNCHANGED <<tree, describes, filesV, runs>>
    /\ Fine

ThisRecord == [run |-> runs, known |-> known, limits |-> limits, whole |-> whole]

WritesFile ==
    /\ phase = "file"
    /\ \/ exported' = ThisRecord /\ phase' = "store" /\ Fine
          /\ UNCHANGED <<toRead, known, stack, asking, count, limits, lastSchema, lastLimits>>
       \/ Fault /\ Ends /\ UNCHANGED exported
    /\ UNCHANGED <<tree, describes, stored, runs>>

\* A copy nothing reads back: its failure is logged, and the run has succeeded.
Stores ==
    /\ phase = "store"
    /\ \/ stored' = exported /\ Fine
       \/ Fault /\ UNCHANGED stored
    /\ Ends
    /\ UNCHANGED <<tree, describes, exported, runs>>

RunStep ==
    \/ \E p \in KnownPaths : ReadsKnown(p)
    \/ KnownAborts \/ KnownIsRead
    \/ SchemaArrives \/ LimitsArrive
    \/ \E child \in Addresses : Visits(child)
    \/ Returns \/ WalkCutShort
    \/ Judged \/ WritesFile \/ Stores

Next == Pressed \/ RunStep

Spec == Init /\ [][Next]_vars

(***************************************************************************)
(* Fairness.  A request is answered or given up within its timeout, and    *)
(* the event loop resumes the run.  Neither the time limit of the walk nor *)
(* the one of the known paths is relied on.                                *)
(***************************************************************************)
FairSpec == Spec /\ WF_vars(RunStep)

(***************************************************************************)
(* Properties.                                                             *)
(***************************************************************************)

\* Whatever tree a speaker describes, the walk visits at most _MAX_SCHEMA_NODES
\* nodes and asks for no address deeper than _MAX_SCHEMA_DEPTH: both "mean what
\* they say", across the recursion and the loop in each call of it.
WithinBounds == count <= MaxNodes /\ Len(asking) <= MaxDepth /\ Len(stack) <= MaxDepth

\* A description in the result is about the leaf it stands at, although a late
\* reply to the request before may be taken for the answer (_async_query_limits).
LimitsOfTheirLeaf == \A d \in limits : d[1] = d[2] /\ At(tree, d[1]) = "leaf"

FitsBounds ==
    /\ IsFiniteSet(DOMAIN tree) /\ Cardinality(DOMAIN tree) <= MaxNodes
    /\ \A a \in DOMAIN tree : Len(a) <= MaxDepth

\* A run in which nothing went wrong, on a speaker that describes itself and fits
\* the bounds, exports every leaf of its tree and every known path that it has.
NothingLeftOut ==
    exported.whole =>
        /\ exported.known = {p \in KnownPaths : Answered(tree, p)}
        /\ describes /\ FitsBounds =>
             {d[1] : d \in exported.limits} = {a \in DOMAIN tree : tree[a] = "leaf"}

Exports == INSTANCE ExportShelf WITH
    Usable <- {r \in Records : r.known # {} \/ r.limits # {}},
    None <- NoRecord, file <- exported, store <- stored

\* A run that read nothing does not replace the last usable discovery, and the
\* copy is never of a run the user has no file of: this is an ExportShelf.
KeepsTheShelf == Exports!Spec

\* Every run ends and releases the action lock, however much the speaker answers
\* and without the time limits: the bounds of the walk are enough.
RunEnds == phase # "idle" ~> phase = "idle"

=============================================================================
