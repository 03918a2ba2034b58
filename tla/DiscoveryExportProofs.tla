------------------------ MODULE DiscoveryExportProofs ------------------------
(***************************************************************************)
(* Safety of a discovery for every set of address trees, every table of    *)
(* known paths and every bound of the walk, and the refinement of the      *)
(* abstract shelf by the export.                                           *)
(***************************************************************************)
EXTENDS DiscoveryExport, SequenceTheorems, FiniteSetTheorems, TLAPS

Paths == Addresses \cup {<<>>}

(***************************************************************************)
(* Addresses and trees.                                                    *)
(***************************************************************************)

LEMMA TreeTyped ==
    ASSUME tree \in Trees
    PROVE  /\ DOMAIN tree \subseteq Addresses /\ DOMAIN tree \subseteq Seq(Keys) \ {<<>>}
           /\ \A a \in DOMAIN tree : tree[a] \in {"leaf", "container"}
           /\ \A a \in DOMAIN tree : \A n \in 1..Len(a)-1 :
                At(tree, SubSeq(a, 1, n)) = "container"
BY TreesAssumption DEF Addresses

LEMMA PathsAreSeqs ==
    ASSUME NEW p \in Paths
    PROVE  p \in Seq(Keys) /\ Len(p) \in Nat /\ (Len(p) = 0 <=> p = <<>>)
<1>1. p \in Seq(Keys)
  <2>1. CASE p \in Addresses
    BY <2>1, TreesAssumption DEF Addresses
  <2>2. CASE p = <<>>
    BY <2>2
  <2>3. QED
    BY <2>1, <2>2 DEF Paths
<1>2. QED
  BY <1>1, LenProperties, EmptySeq

\* What stands above an address of a tree is a container of it.
LEMMA Above ==
    ASSUME tree \in Trees, NEW a \in DOMAIN tree, NEW n \in 1..Len(a)
    PROVE  /\ SubSeq(a, 1, n) \in DOMAIN tree
           /\ Len(SubSeq(a, 1, n)) = n
           /\ SubSeq(a, 1, n) \in Seq(Keys)
           /\ n < Len(a) => tree[SubSeq(a, 1, n)] = "container"
           /\ \A m \in 0..n : SubSeq(SubSeq(a, 1, n), 1, m) = SubSeq(a, 1, m)
<1>1. a \in Seq(Keys) /\ Len(a) \in Nat
  BY TreeTyped, LenProperties
<1>2. \A i \in 1..n : a[i] \in Keys
  BY <1>1, ElementOfSeq
<1>3. /\ SubSeq(a, 1, n) \in Seq(Keys) /\ Len(SubSeq(a, 1, n)) = n
  <2>1. n \in Int /\ 1 \in Int /\ 1 <= n /\ n - 1 + 1 = n
    BY <1>1
  <2>2. /\ SubSeq(a, 1, n) \in Seq(Keys)
        /\ Len(SubSeq(a, 1, n)) = IF 1 <= n THEN n - 1 + 1 ELSE 0
    BY <1>2, <2>1, SubSeqProperties
  <2>3. QED
    BY <2>1, <2>2
<1>4. ASSUME NEW m \in 0..n
      PROVE  SubSeq(SubSeq(a, 1, n), 1, m) = SubSeq(a, 1, m)
  <2>1. CASE m = 0
    BY <1>3, <2>1, SubSeqEmpty
  <2>2. CASE m \in 1..n
    BY <1>1, <2>2, SubSeqOfSubSeq
  <2>3. QED
    BY <2>1, <2>2
<1>5. CASE n = Len(a)
  <2>1. SubSeq(a, 1, n) = a
    BY <1>1, <1>5, SubSeqFull
  <2>2. QED
    <3>1. SubSeq(a, 1, n) \in DOMAIN tree
      BY <2>1
    <3>2. ~(n < Len(a))
      BY <1>1, <1>5
    <3>3. QED
      BY <1>3, <1>4, <3>1, <3>2
<1>6. CASE n # Len(a)
  <2>1. At(tree, SubSeq(a, 1, n)) = "container"
    BY <1>1, <1>6, TreeTyped
  <2>2. SubSeq(a, 1, n) # <<>>
    BY <1>3, EmptySeq
  <2>3. SubSeq(a, 1, n) \in DOMAIN tree /\ tree[SubSeq(a, 1, n)] = "container"
    BY <2>1, <2>2 DEF At
  <2>4. QED
    BY <1>3, <1>4, <2>3
<1>7. QED
  BY <1>5, <1>6

(***************************************************************************)
(* The inductive invariant.                                                *)
(***************************************************************************)

\* Every reply, late or not, is one of this speaker.
OfThisSpeaker ==
    /\ lastSchema \in {Nothing} \cup {Schema(tree, p) : p \in Paths}
    /\ lastLimits \in {Nothing} \cup {Limits(tree, p) : p \in Paths}

\* The nth running call of the walk is at depth n, and so is what it asks about.
AtItsDepth ==
    /\ Len(stack) <= MaxDepth /\ Len(asking) <= MaxDepth
    /\ \A i \in 1..Len(stack) : \A b \in DOMAIN stack[i] : Len(b) = i
    /\ phase = "schema" => Len(asking) = Len(stack) /\ Len(stack) < MaxDepth
    /\ phase \notin Walking => stack = <<>>

\* What is written was read, and is written to the file first.
WorthExporting ==
    /\ exported \in Records /\ stored \in Records
    /\ phase \in {"file", "store"} => ReadSomething
    /\ phase = "store" => exported = ThisRecord

IInv == TypeOK /\ OfThisSpeaker /\ AtItsDepth /\ LimitsOfTheirLeaf /\ WorthExporting

LEMMA NothingIsALevel == <<>> \in Levels
<1>1. <<>> \in [{} -> {"leaf", "container"}]
  OBVIOUS
<1>2. QED
  BY <1>1 DEF Levels

\* Whatever comes in place of a schema reply, it shows a level below the address
\* asked about, of addresses one key longer.
LEMMA LevelsTyped ==
    ASSUME tree \in Trees, NEW path \in Paths,
           NEW reply \in {Nothing} \cup {Schema(tree, p) : p \in Paths},
           NEW level \in LevelsAt(reply, path)
    PROVE  level \in Levels /\ \A b \in DOMAIN level : Len(b) = Len(path) + 1
<1>1. /\ reply.kind = "schema" /\ reply.about \in Paths /\ At(tree, reply.about) = "container"
      /\ reply.level = Level(tree, reply.about)
  BY DEF LevelsAt, Schema, Nothing
<1>2. PICK about \in Paths : reply.about = about
  BY <1>1
<1>3. \/ path = about /\ level = Level(tree, path)
      \/ level = <<>>
      \/ /\ Len(path) < Len(about)
         /\ \E v \in {"leaf", "container"} :
              level = [a \in {SubSeq(about, 1, Len(path) + 1)} |-> v]
  BY <1>1, <1>2 DEF LevelsAt
<1>4. CASE path = about /\ level = Level(tree, path)
  <2>1. DOMAIN level \subseteq DOMAIN tree /\ level = [b \in DOMAIN level |-> tree[b]]
        /\ \A b \in DOMAIN level : Len(b) = Len(path) + 1
    BY <1>4 DEF Level, Below
  <2>2. DOMAIN level \in SUBSET Addresses /\ level \in [DOMAIN level -> {"leaf", "container"}]
    BY <2>1, TreeTyped
  <2>3. QED
    BY <2>1, <2>2 DEF Levels
<1>5. CASE level = <<>>
  <2>1. DOMAIN level = {}
    BY <1>5
  <2>2. QED
    BY <1>5, <2>1, NothingIsALevel
<1>6. CASE Len(path) < Len(about)
           /\ \E v \in {"leaf", "container"} :
                level = [a \in {SubSeq(about, 1, Len(path) + 1)} |-> v]
  <2>1. PICK v \in {"leaf", "container"} : level = [a \in {SubSeq(about, 1, Len(path) + 1)} |-> v]
    BY <1>6
  <2>2. Len(path) + 1 \in 1..Len(about) /\ about # <<>>
    BY <1>6, PathsAreSeqs
  <2>3. about \in DOMAIN tree
    BY <1>1, <1>2, <2>2 DEF At
  <2>4. /\ SubSeq(about, 1, Len(path) + 1) \in Addresses
        /\ Len(SubSeq(about, 1, Len(path) + 1)) = Len(path) + 1
    BY <2>2, <2>3, Above, TreeTyped
  <2>5. DOMAIN level \in SUBSET Addresses /\ level \in [DOMAIN level -> {"leaf", "container"}]
        /\ \A b \in DOMAIN level : Len(b) = Len(path) + 1
    BY <2>1, <2>4
  <2>6. QED
    BY <2>5 DEF Levels
<1>7. QED
  BY <1>3, <1>4, <1>5, <1>6

(***************************************************************************)
(* Every step keeps the invariant.                                         *)
(***************************************************************************)

LEMMA InitHolds == Init => IInv
<1> SUFFICES ASSUME Init PROVE IInv
  OBVIOUS
<1>1. NoRecord \in Records
  BY DEF NoRecord, Records
<1>2. TypeOK
  BY EmptySeq, BoundsAssumption DEF Init, TypeOK, Phases, NoRecord
<1>3. AtItsDepth
  BY EmptySeq, BoundsAssumption DEF Init, AtItsDepth, Walking
<1>4. QED
  BY <1>1, <1>2, <1>3
     DEF Init, IInv, OfThisSpeaker, LimitsOfTheirLeaf, WorthExporting

LEMMA RecordTyped ==
    ASSUME TypeOK
    PROVE  ThisRecord \in Records
BY BoundsAssumption DEF TypeOK, ThisRecord, Records

\* The end of a run leaves no trace of it but what it wrote.
LEMMA EndsKeeps ==
    ASSUME IInv, Ends, UNCHANGED <<tree, describes, runs>>,
           faults' \in 0..MaxFaults, whole' \in BOOLEAN,
           exported' \in Records, stored' \in Records,
           exported'.run \in 0..runs, stored'.run \in 0..runs
    PROVE  IInv'
<1>1. TypeOK'
  BY EmptySeq, BoundsAssumption DEF Ends, IInv, TypeOK, Phases
<1>2. AtItsDepth'
  BY EmptySeq, BoundsAssumption DEF Ends, AtItsDepth, Walking
<1>3. QED
  BY <1>1, <1>2 DEF Ends, IInv, OfThisSpeaker, LimitsOfTheirLeaf, WorthExporting

\* What a step may do to the counter of faults and to the history.
LEMMA FaultsTyped ==
    ASSUME IInv, Fault \/ Fine
    PROVE  faults' \in 0..MaxFaults /\ whole' \in BOOLEAN
<1>1. faults' \in 0..MaxFaults
  BY BoundsAssumption DEF IInv, TypeOK, Fault, Fine
<1>2. whole \in BOOLEAN
  BY DEF IInv, TypeOK
<1>3. whole' = FALSE \/ whole' = whole
  BY DEF Fault, Fine
<1>4. whole' \in BOOLEAN
  BY <1>2, <1>3, ZenonT(10)
<1>5. QED
  BY <1>1, <1>4

LEMMA PressedKeeps ==
    ASSUME IInv, Pressed
    PROVE  IInv'
<1>1. TypeOK'
  BY BoundsAssumption DEF Pressed, IInv, TypeOK, Phases, filesV
<1>2. AtItsDepth'
  BY DEF Pressed, IInv, AtItsDepth, Walking
<1>3. QED
  BY <1>1, <1>2
     DEF Pressed, IInv, OfThisSpeaker, LimitsOfTheirLeaf, WorthExporting, filesV

LEMMA KnownKeeps ==
    ASSUME IInv, (\E p \in KnownPaths : ReadsKnown(p)) \/ KnownAborts \/ KnownIsRead
    PROVE  IInv'
<1>1. CASE \E p \in KnownPaths : ReadsKnown(p)
  <2>1. PICK p \in KnownPaths : ReadsKnown(p)
    BY <1>1
  <2>2. /\ phase = "known" /\ toRead' = toRead \ {p} /\ known' \in {known, known \cup {p}}
        /\ UNCHANGED <<tree, describes, phase, walkV, filesV, runs>>
        /\ Fault \/ Fine
    BY <2>1 DEF ReadsKnown
  <2>3. TypeOK'
    BY <2>2, FaultsTyped DEF IInv, TypeOK, walkV, filesV
  <2>4. QED
    BY <2>2, <2>3
       DEF IInv, OfThisSpeaker, AtItsDepth, LimitsOfTheirLeaf, WorthExporting, walkV, filesV
<1>2. CASE KnownAborts
  BY <1>2, EndsKeeps, FaultsTyped DEF KnownAborts, filesV, IInv, TypeOK, WorthExporting
<1>3. CASE KnownIsRead
  <2>1. TypeOK'
    BY <1>3, FaultsTyped DEF KnownIsRead, IInv, TypeOK, Phases, filesV
  <2>2. AtItsDepth'
    BY <1>3, EmptySeq, BoundsAssumption DEF KnownIsRead, IInv, AtItsDepth, Walking
  <2>3. QED
    BY <1>3, <2>1, <2>2
       DEF KnownIsRead, IInv, OfThisSpeaker, LimitsOfTheirLeaf, WorthExporting, filesV
<1>4. QED
  BY <1>1, <1>2, <1>3

\* The reply to a schema request, or what came in its place, is of this speaker.
LEMMA SchemaReplyTyped ==
    ASSUME IInv, SchemaArrives
    PROVE  /\ phase = "schema" /\ phase' = "walk" /\ asking \in Paths
           /\ Fault \/ Fine
           /\ lastSchema' \in {Nothing} \cup {Schema(tree, p) : p \in Paths}
           /\ \/ stack' = stack
              \/ \E level \in Levels : /\ stack' = Append(stack, level)
                                       /\ \A b \in DOMAIN level : Len(b) = Len(asking) + 1
           /\ UNCHANGED <<tree, describes, toRead, known, asking, count, limits, lastLimits,
                          filesV, runs>>
<1>1. asking \in Paths /\ tree \in Trees
  BY DEF IInv, TypeOK, Paths
<1>2. PICK own \in {Nothing} \cup {Schema(tree, p) : p \in Paths} :
        own = IF describes THEN Schema(tree, asking) ELSE Nothing
  BY <1>1
<1>3. PICK reply \in {own, Nothing, lastSchema} :
        /\ MayReply(reply, own, lastSchema)
        /\ lastSchema' \in {own, lastSchema}
        /\ IF LevelsAt(reply, asking) = {} THEN UNCHANGED stack
           ELSE \E level \in LevelsAt(reply, asking) : stack' = Append(stack, level)
  BY <1>2 DEF SchemaArrives
<1>4. reply \in {Nothing} \cup {Schema(tree, p) : p \in Paths}
      /\ lastSchema' \in {Nothing} \cup {Schema(tree, p) : p \in Paths}
  BY <1>2, <1>3 DEF IInv, OfThisSpeaker
<1>5. Fault \/ Fine
  BY <1>3 DEF MayReply
<1>6. \/ stack' = stack
      \/ \E level \in Levels : /\ stack' = Append(stack, level)
                               /\ \A b \in DOMAIN level : Len(b) = Len(asking) + 1
  <2>1. CASE stack' = stack
    BY <2>1
  <2>2. CASE \E level \in LevelsAt(reply, asking) : stack' = Append(stack, level)
    <3>1. PICK level \in LevelsAt(reply, asking) : stack' = Append(stack, level)
      BY <2>2
    <3>2. level \in Levels /\ \A b \in DOMAIN level : Len(b) = Len(asking) + 1
      BY <1>1, <1>4, LevelsTyped
    <3>3. QED
      BY <3>1, <3>2
  <2>3. QED
    BY <1>3, <2>1, <2>2
<1>7. QED
  BY <1>1, <1>4, <1>5, <1>6 DEF SchemaArrives

LEMMA SchemaKeeps ==
    ASSUME IInv, SchemaArrives
    PROVE  IInv'
<1>1. stack \in Seq(Levels) /\ Len(stack) \in Nat /\ AtItsDepth
  BY LenProperties DEF IInv, TypeOK
<1>2. PICK level \in Levels \cup {<<>>} :
        \/ stack' = stack
        \/ /\ level \in Levels /\ stack' = Append(stack, level)
           /\ \A b \in DOMAIN level : Len(b) = Len(stack) + 1
  BY <1>1, SchemaReplyTyped DEF AtItsDepth
<1>3. CASE stack' = stack
  <2>1. AtItsDepth'
    BY <1>1, <1>3, SchemaReplyTyped DEF AtItsDepth, Walking
  <2>2. TypeOK'
    BY <1>1, <1>3, SchemaReplyTyped, FaultsTyped DEF IInv, TypeOK, Phases, filesV
  <2>3. QED
    BY <2>1, <2>2, SchemaReplyTyped
       DEF IInv, OfThisSpeaker, LimitsOfTheirLeaf, WorthExporting, filesV
<1>4. CASE stack' # stack
  <2>1. /\ stack' \in Seq(Levels) /\ Len(stack') = Len(stack) + 1
        /\ \A i \in 1..Len(stack) : stack'[i] = stack[i]
        /\ \A b \in DOMAIN stack'[Len(stack) + 1] : Len(b) = Len(stack) + 1
    BY <1>1, <1>2, <1>4, AppendProperties
  <2>2. AtItsDepth'
    <3>1. phase = "schema" /\ phase' = "walk" /\ asking' = asking
      BY SchemaReplyTyped
    <3>2. Len(stack') <= MaxDepth
      BY <1>1, <2>1, <3>1, BoundsAssumption DEF AtItsDepth
    <3>3. ASSUME NEW i \in 1..Len(stack'), NEW b \in DOMAIN stack'[i]
          PROVE  Len(b) = i
      BY <1>1, <2>1, <3>3 DEF AtItsDepth
    <3>4. QED
      BY <1>1, <3>1, <3>2, <3>3 DEF AtItsDepth, Walking
  <2>3. TypeOK'
    BY <2>1, SchemaReplyTyped, FaultsTyped DEF IInv, TypeOK, Phases, filesV
  <2>4. QED
    BY <2>2, <2>3, SchemaReplyTyped
       DEF IInv, OfThisSpeaker, LimitsOfTheirLeaf, WorthExporting, filesV
<1>5. QED
  BY <1>3, <1>4

LEMMA LimitsKeeps ==
    ASSUME IInv, LimitsArrive
    PROVE  IInv'
<1>1. asking \in Paths /\ tree \in Trees /\ DOMAIN tree \subseteq Addresses
  BY TreeTyped DEF IInv, TypeOK, Paths
<1>2. PICK own \in {Nothing} \cup {Limits(tree, p) : p \in Paths} :
        own = IF describes THEN Limits(tree, asking) ELSE Nothing
  BY <1>1
<1>3. PICK reply \in {own, Nothing, lastLimits} :
        /\ MayReply(reply, own, lastLimits)
        /\ lastLimits' \in {own, lastLimits}
        /\ limits' = limits \cup LimitsAt(reply, asking)
  BY <1>2 DEF LimitsArrive
<1>4. reply \in {Nothing} \cup {Limits(tree, p) : p \in Paths}
      /\ lastLimits' \in {Nothing} \cup {Limits(tree, p) : p \in Paths}
  BY <1>2, <1>3 DEF IInv, OfThisSpeaker
<1>5. Fault \/ Fine
  BY <1>3 DEF MayReply
<1>6. \A d \in LimitsAt(reply, asking) :
        d \in Addresses \X Addresses /\ d[1] = d[2] /\ At(tree, d[1]) = "leaf"
  <2>1. ASSUME reply.kind = "limits"
        PROVE  reply.about \in DOMAIN tree /\ At(tree, reply.about) = "leaf"
    BY <1>4, <2>1 DEF Limits, Nothing, At
  <2>2. QED
    BY <1>1, <2>1 DEF LimitsAt
<1>7. /\ phase = "limits" /\ phase' = "walk"
      /\ UNCHANGED <<tree, describes, toRead, known, stack, asking, count, lastSchema, filesV, runs>>
  BY DEF LimitsArrive, AfterLimits
<1>8. TypeOK'
  BY <1>3, <1>5, <1>6, <1>7, FaultsTyped DEF IInv, TypeOK, Phases, filesV
<1>9. LimitsOfTheirLeaf'
  BY <1>3, <1>6, <1>7 DEF IInv, LimitsOfTheirLeaf
<1>10. QED
  BY <1>4, <1>7, <1>8, <1>9 DEF IInv, OfThisSpeaker, AtItsDepth, Walking, WorthExporting, filesV

\* What a visit does to the levels still to go: the child leaves the last one.
LEMMA VisitTakesChild ==
    ASSUME IInv, NEW child \in Addresses, Visits(child)
    PROVE  /\ stack \in Seq(Levels) /\ Len(stack) \in Nat \ {0} /\ AtItsDepth
           /\ phase = "walk" /\ child \in DOMAIN stack[Len(stack)] /\ Len(child) = Len(stack)
           /\ count < MaxNodes /\ count' = count + 1 /\ asking' = child
           /\ stack' \in Seq(Levels) /\ Len(stack') = Len(stack)
           /\ \A i \in 1..Len(stack) :
                /\ DOMAIN stack'[i] = IF i = Len(stack) THEN DOMAIN stack[i] \ {child}
                                       ELSE DOMAIN stack[i]
                /\ \A b \in DOMAIN stack'[i] : stack'[i][b] = stack[i][b]
           /\ phase' \in {"limits", "schema", "walk"} /\ (phase' = "schema" => LevelsLeft(child))
           /\ UNCHANGED <<tree, describes, toRead, known, limits, lastSchema, lastLimits,
                          filesV, runs>>
           /\ Fine
<1>1. stack \in Seq(Levels) /\ Len(stack) \in Nat \ {0} /\ AtItsDepth
  BY LenProperties, EmptySeq DEF IInv, TypeOK, Visits
<1>2. PICK level \in Levels : level = stack[Len(stack)]
  BY <1>1, ElementOfSeq
<1>3. PICK S \in SUBSET Addresses : level \in [S -> {"leaf", "container"}]
  BY DEF Levels
<1>4. PICK rest \in Levels :
        /\ rest = Restrict(level, DOMAIN level \ {child})
        /\ DOMAIN rest = DOMAIN level \ {child} /\ \A b \in DOMAIN rest : rest[b] = level[b]
  <2>1. DOMAIN level = S /\ S \ {child} \in SUBSET Addresses
    BY <1>3
  <2>2. Restrict(level, S \ {child}) \in [S \ {child} -> {"leaf", "container"}]
    BY <1>3 DEF Restrict
  <2>3. Restrict(level, S \ {child}) \in Levels
    BY <2>1, <2>2 DEF Levels
  <2>4. QED
    BY <2>1, <2>3 DEF Restrict
<1>5. stack' = [stack EXCEPT ![Len(stack)] = rest] /\ Len(stack) \in 1..Len(stack)
  <2>1. stack' = [stack EXCEPT ![Len(stack)] =
                    Restrict(stack[Len(stack)], DOMAIN stack[Len(stack)] \ {child})]
    BY DEF Visits
  <2>2. QED
    BY <1>1, <1>2, <1>4, <2>1
<1>6. /\ stack' \in Seq(Levels) /\ Len(stack') = Len(stack)
      /\ \A i \in 1..Len(stack) : stack'[i] = IF i = Len(stack) THEN rest ELSE stack[i]
  BY <1>1, <1>5, ExceptSeq
<1>7. child \in DOMAIN stack[Len(stack)]
  BY DEF Visits, Last
<1>8. Len(child) = Len(stack)
  BY <1>1, <1>5, <1>7 DEF AtItsDepth
<1>9. ASSUME NEW i \in 1..Len(stack)
      PROVE  /\ DOMAIN stack'[i] = IF i = Len(stack) THEN DOMAIN stack[i] \ {child}
                                    ELSE DOMAIN stack[i]
             /\ \A b \in DOMAIN stack'[i] : stack'[i][b] = stack[i][b]
  BY <1>2, <1>4, <1>6
<1>10. phase' \in {"limits", "schema", "walk"} /\ (phase' = "schema" => LevelsLeft(child))
  BY DEF Visits
<1>11. /\ phase = "walk" /\ count < MaxNodes /\ count' = count + 1 /\ asking' = child
       /\ UNCHANGED <<tree, describes, toRead, known, limits, lastSchema, lastLimits, filesV, runs>>
       /\ Fine
  BY DEF Visits, NodesLeft
<1>12. QED
  BY <1>1, <1>6, <1>7, <1>8, <1>9, <1>10, <1>11

LEMMA VisitsKeeps ==
    ASSUME IInv, NEW child \in Addresses, Visits(child)
    PROVE  IInv'
<1>1. AtItsDepth'
  <2>1. ASSUME NEW i \in 1..Len(stack'), NEW b \in DOMAIN stack'[i]
        PROVE  Len(b) = i
    BY <2>1, VisitTakesChild DEF AtItsDepth
  <2>2. QED
    BY <2>1, VisitTakesChild DEF AtItsDepth, LevelsLeft, Walking
<1>2. TypeOK'
  <2>1. faults' \in 0..MaxFaults /\ whole' \in BOOLEAN
    BY VisitTakesChild, FaultsTyped
  <2>2. count' \in 0..MaxNodes
    BY VisitTakesChild, BoundsAssumption DEF IInv, TypeOK
  <2>3. QED
    BY <2>1, <2>2, VisitTakesChild DEF IInv, TypeOK, Phases, filesV
<1>3. QED
  BY <1>1, <1>2, VisitTakesChild
     DEF IInv, OfThisSpeaker, LimitsOfTheirLeaf, WorthExporting, filesV

\* A call that returns leaves the levels of its callers.
LEMMA ReturnPops ==
    ASSUME IInv, Returns
    PROVE  /\ stack \in Seq(Levels) /\ Len(stack) \in Nat \ {0} /\ AtItsDepth
           /\ stack' \in Seq(Levels) /\ Len(stack') = Len(stack) - 1
           /\ \A i \in 1..Len(stack)-1 : stack'[i] = stack[i]
<1>1. stack \in Seq(Levels) /\ Len(stack) \in Nat \ {0} /\ AtItsDepth
  BY LenProperties, EmptySeq DEF IInv, TypeOK, Returns
<1>2. \A i \in 1..Len(stack)-1 : stack[i] \in Levels
  BY <1>1, ElementOfSeq
<1>3. stack' = SubSeq(stack, 1, Len(stack) - 1)
  BY DEF Returns, Front
<1>4. PICK n \in Nat : n = Len(stack) - 1
  BY <1>1
<1>5. /\ SubSeq(stack, 1, n) \in Seq(Levels)
      /\ Len(SubSeq(stack, 1, n)) = IF 1 <= n THEN n - 1 + 1 ELSE 0
      /\ \A i \in 1..n - 1 + 1 : SubSeq(stack, 1, n)[i] = stack[1 + i - 1]
  BY <1>2, <1>4, SubSeqProperties
<1>6. QED
  BY <1>1, <1>3, <1>4, <1>5

LEMMA WalkEndsKeeps ==
    ASSUME IInv, Returns \/ WalkCutShort \/ Judged
    PROVE  IInv'
<1>1. CASE Returns
  <2>1. phase = "walk" /\ phase' = "walk" /\ asking' = asking
    BY <1>1 DEF Returns
  <2>2. AtItsDepth'
    BY <1>1, <2>1, ReturnPops, BoundsAssumption DEF AtItsDepth, Walking
  <2>3. TypeOK'
    <3>1. faults' \in 0..MaxFaults /\ whole' \in BOOLEAN
      BY <1>1, FaultsTyped DEF Returns
    <3>2. QED
      BY <1>1, <3>1, ReturnPops DEF Returns, IInv, TypeOK, filesV
  <2>4. QED
    BY <1>1, <2>2, <2>3
       DEF Returns, IInv, OfThisSpeaker, LimitsOfTheirLeaf, WorthExporting, filesV
<1>2. CASE WalkCutShort
  <2>1. AtItsDepth'
    BY <1>2, EmptySeq, BoundsAssumption DEF WalkCutShort, IInv, AtItsDepth, Walking
  <2>2. TypeOK'
    <3>1. faults' \in 0..MaxFaults /\ whole' \in BOOLEAN
      BY <1>2, FaultsTyped DEF WalkCutShort
    <3>2. QED
      BY <1>2, <3>1, EmptySeq DEF WalkCutShort, IInv, TypeOK, Phases, filesV
  <2>3. QED
    BY <1>2, <2>1, <2>2
       DEF WalkCutShort, IInv, OfThisSpeaker, LimitsOfTheirLeaf, WorthExporting, Walking, filesV
<1>3. CASE Judged
  <2>1. faults' \in 0..MaxFaults /\ whole' \in BOOLEAN
    BY <1>3, FaultsTyped DEF Judged
  <2>2. CASE ReadSomething
    <3>1. AtItsDepth'
      BY <1>3, <2>2 DEF Judged, IInv, AtItsDepth, Walking
    <3>2. TypeOK'
      BY <1>3, <2>1, <2>2 DEF Judged, IInv, TypeOK, Phases, filesV
    <3>3. QED
      BY <1>3, <2>2, <3>1, <3>2
         DEF Judged, IInv, OfThisSpeaker, LimitsOfTheirLeaf, WorthExporting, ReadSomething, filesV
  <2>3. CASE ~ReadSomething
    BY <1>3, <2>1, <2>3, EndsKeeps DEF Judged, filesV, IInv, TypeOK, WorthExporting
  <2>4. QED
    BY <2>2, <2>3
<1>4. QED
  BY <1>1, <1>2, <1>3

LEMMA WritesFileKeeps ==
    ASSUME IInv, WritesFile
    PROVE  IInv'
<1>1. phase = "file" /\ ReadSomething /\ UNCHANGED <<tree, describes, stored, runs>>
  BY DEF WritesFile, IInv, WorthExporting
<1>2. CASE exported' = ThisRecord /\ phase' = "store" /\ Fine
           /\ UNCHANGED <<toRead, known, stack, asking, count, limits, lastSchema, lastLimits>>
  <2>1. ThisRecord' = ThisRecord /\ ReadSomething' /\ ThisRecord \in Records
    BY <1>1, <1>2, RecordTyped DEF Fine, ThisRecord, ReadSomething, IInv
  <2>2. WorthExporting'
    BY <1>1, <1>2, <2>1 DEF WorthExporting, IInv
  <2>3. AtItsDepth'
    BY <1>1, <1>2 DEF IInv, AtItsDepth, Walking
  <2>4. TypeOK'
    <3>1. faults' \in 0..MaxFaults /\ whole' \in BOOLEAN
      BY <1>2, FaultsTyped
    <3>2. exported'.run \in 0..runs
      BY <1>2 DEF ThisRecord, IInv, TypeOK
    <3>3. QED
      BY <1>1, <1>2, <3>1, <3>2 DEF IInv, TypeOK, Phases
  <2>5. QED
    BY <1>1, <1>2, <2>2, <2>3, <2>4 DEF IInv, OfThisSpeaker, LimitsOfTheirLeaf
<1>3. CASE Fault /\ Ends /\ UNCHANGED exported
  BY <1>1, <1>3, EndsKeeps, FaultsTyped DEF IInv, TypeOK, WorthExporting
<1>4. QED
  BY <1>2, <1>3 DEF WritesFile

LEMMA StoresKeeps ==
    ASSUME IInv, Stores
    PROVE  IInv'
<1>1. /\ Ends /\ UNCHANGED <<tree, describes, exported, runs>> /\ stored' \in {stored, exported}
      /\ Fault \/ Fine
  BY DEF Stores
<1>2. faults' \in 0..MaxFaults /\ whole' \in BOOLEAN
  BY <1>1, FaultsTyped
<1>3. /\ exported' \in Records /\ stored' \in Records
      /\ exported'.run \in 0..runs /\ stored'.run \in 0..runs
  BY <1>1 DEF IInv, TypeOK, WorthExporting
<1>4. QED
  BY <1>1, <1>2, <1>3, EndsKeeps

LEMMA StepKeeps == IInv /\ [Next]_vars => IInv'
<1> SUFFICES ASSUME IInv, [Next]_vars PROVE IInv'
  OBVIOUS
<1>1. CASE Pressed
  BY <1>1, PressedKeeps
<1>2. CASE (\E p \in KnownPaths : ReadsKnown(p)) \/ KnownAborts \/ KnownIsRead
  BY <1>2, KnownKeeps
<1>3. CASE SchemaArrives
  BY <1>3, SchemaKeeps
<1>4. CASE LimitsArrive
  BY <1>4, LimitsKeeps
<1>5. CASE \E child \in Addresses : Visits(child)
  BY <1>5, VisitsKeeps
<1>6. CASE Returns \/ WalkCutShort \/ Judged
  BY <1>6, WalkEndsKeeps
<1>7. CASE WritesFile
  BY <1>7, WritesFileKeeps
<1>8. CASE Stores
  BY <1>8, StoresKeeps
<1>9. CASE UNCHANGED vars
  BY <1>9
     DEF vars, walkV, filesV, IInv, TypeOK, OfThisSpeaker, AtItsDepth, LimitsOfTheirLeaf,
         WorthExporting, ReadSomething, ThisRecord
<1>10. QED
  BY <1>1, <1>2, <1>3, <1>4, <1>5, <1>6, <1>7, <1>8, <1>9 DEF Next, RunStep

\* The invariant holds throughout: no reply, however late, makes the walk lose count
\* of its depth or file anything under another address.
THEOREM InvariantHolds == Spec => []IInv
BY InitHolds, StepKeeps, PTL DEF Spec

\* The state has the types the module gives it (TypeOK).
THEOREM TypeCorrect == Spec => []TypeOK
BY InvariantHolds, PTL DEF IInv

\* Whatever a speaker describes and however late it does, the walk stays within
\* its bounds of nodes and levels (_MAX_SCHEMA_NODES, _MAX_SCHEMA_DEPTH).
THEOREM WithinBoundsHolds == Spec => []WithinBounds
<1>1. IInv => WithinBounds
  BY BoundsAssumption DEF IInv, TypeOK, AtItsDepth, WithinBounds
<1>2. QED
  BY <1>1, InvariantHolds, PTL

\* A description is filed under the leaf it is about, late replies or not
\* (_async_query_limits).
THEOREM LimitsOfTheirLeafHolds == Spec => []LimitsOfTheirLeaf
BY InvariantHolds, PTL DEF IInv

(***************************************************************************)
(* The refinement.                                                         *)
(***************************************************************************)

LEMMA ShelfInit == Init => Exports!Init
BY DEF Init, Exports!Init

LEMMA ShelfStep == IInv /\ [Next]_vars => [Exports!Next]_<<exported, stored>>
<1> SUFFICES ASSUME IInv, [Next]_vars, ~UNCHANGED <<exported, stored>> PROVE Exports!Next
  OBVIOUS
<1>1. WritesFile \/ Stores
  BY DEF Next, RunStep, Pressed, ReadsKnown, KnownAborts, KnownIsRead, SchemaArrives, LimitsArrive,
         Visits, Returns, WalkCutShort, Judged, vars, filesV
<1>2. CASE WritesFile
  <2>1. exported' = ThisRecord /\ UNCHANGED stored
    BY <1>2 DEF WritesFile
  <2>2. ThisRecord \in {r \in Records : r.known # {} \/ r.limits # {}}
    BY <1>2, RecordTyped DEF WritesFile, IInv, WorthExporting, ReadSomething, ThisRecord
  <2>3. QED
    BY <2>1, <2>2 DEF Exports!Next, Exports!Replace
<1>3. CASE Stores
  <2>1. stored' = exported /\ UNCHANGED exported
    BY <1>3 DEF Stores
  <2>2. exported \in {r \in Records : r.known # {} \/ r.limits # {}}
    BY <1>3, RecordTyped DEF Stores, IInv, WorthExporting, ReadSomething, ThisRecord
  <2>3. QED
    BY <2>1, <2>2 DEF Exports!Next, Exports!Copy
<1>4. QED
  BY <1>1, <1>2, <1>3

\* Every discovery is a step of the abstract shelf or none: a run that read nothing
\* replaces nothing, and the store only copies the file (async_run_discovery).
THEOREM KeepsTheShelfHolds == Spec => KeepsTheShelf
BY ShelfInit, ShelfStep, InvariantHolds, PTL DEF Spec, KeepsTheShelf, Exports!Spec

(***************************************************************************)
(* Nothing is left out.                                                    *)
(***************************************************************************)

\* The address b is a or stands above it.
Over(b, a) == Len(b) <= Len(a) /\ SubSeq(a, 1, Len(b)) = b

\* What the walk has still to visit: whatever is at or below a child still to go,
\* and below the container whose level is being asked for.
Queued == {a \in DOMAIN tree : \E i \in 1..Len(stack) : \E b \in DOMAIN stack[i] : Over(b, a)}

Behind == {a \in DOMAIN tree : phase = "schema" /\ Len(asking) < Len(a) /\ Over(asking, a)}

Left == Queued \cup Behind

\* The levels on the stack are those of the tree, and so is what is asked about.
Truthful ==
    /\ \A i \in 1..Len(stack) : \A b \in DOMAIN stack[i] : b \in DOMAIN tree /\ stack[i][b] = tree[b]
    /\ phase = "schema" => At(tree, asking) = "container"
    /\ phase = "limits" => At(tree, asking) = "leaf"

\* Nothing is visited twice: what is being walked was taken out of the levels above.
Disjoint ==
    /\ \A i, j \in 1..Len(stack) : i < j =>
         \A b \in DOMAIN stack[i], c \in DOMAIN stack[j] : ~Over(b, c)
    /\ phase = "schema" =>
         \A i \in 1..Len(stack) : \A b \in DOMAIN stack[i] : ~Over(b, asking)

\* No leaf is lost.
Covered ==
    \A a \in DOMAIN tree : tree[a] = "leaf" =>
        <<a, a>> \in limits \/ a \in Left \/ (phase = "limits" /\ a = asking)

\* The bound of nodes is never met too early.
Budget == count + Cardinality(Left) <= MaxNodes

Thorough ==
    /\ phase = "known" => count = 0
    /\ whole /\ phase = "known" => known = {p \in KnownPaths \ toRead : Answered(tree, p)}
    /\ whole /\ phase \notin {"idle", "known"} => known = {p \in KnownPaths : Answered(tree, p)}
    /\ whole /\ describes /\ FitsBounds /\ phase \notin {"idle", "known"} =>
         Truthful /\ Disjoint /\ Covered /\ Budget
    /\ NothingLeftOut

LEMMA PrefixOfPrefix ==
    ASSUME NEW a \in Seq(Keys), NEW n \in 0..Len(a), NEW m \in 0..n
    PROVE  SubSeq(SubSeq(a, 1, n), 1, m) = SubSeq(a, 1, m)
<1>1. Len(a) \in Nat
  BY LenProperties
<1>2. CASE m = 0
  BY <1>2, SubSeqEmpty
<1>3. CASE m \in 1..n
  BY <1>1, <1>3, SubSeqOfSubSeq
<1>4. QED
  BY <1>2, <1>3

\* Two addresses over a third are one over the other.
LEMMA OverInLine ==
    ASSUME NEW a \in Seq(Keys), NEW b \in Seq(Keys), NEW c \in Seq(Keys)
    PROVE  /\ Over(b, c) /\ Over(c, a) => Over(b, a)
           /\ Over(b, a) /\ Over(c, a) /\ Len(b) <= Len(c) => Over(b, c)
           /\ Over(b, a) /\ Over(c, a) /\ Len(b) = Len(c) => b = c
<1>1. Len(a) \in Nat /\ Len(b) \in Nat /\ Len(c) \in Nat
  BY LenProperties
<1>2. ASSUME Over(c, a), Len(b) <= Len(c)
      PROVE  SubSeq(c, 1, Len(b)) = SubSeq(a, 1, Len(b))
  BY <1>1, <1>2, PrefixOfPrefix DEF Over
<1>3. QED
  BY <1>1, <1>2 DEF Over

LEMMA OverItself ==
    ASSUME NEW a \in Seq(Keys)
    PROVE  Over(a, a)
BY SubSeqFull, LenProperties DEF Over

LEMMA LeftFinite ==
    ASSUME FitsBounds
    PROVE  /\ Left \subseteq DOMAIN tree /\ IsFiniteSet(Left) /\ Cardinality(Left) \in Nat
           /\ \A S \in SUBSET Left : IsFiniteSet(S) /\ Cardinality(S) \in Nat
                                     /\ Cardinality(S) <= Cardinality(Left)
<1>1. Left \subseteq DOMAIN tree
  BY DEF Left, Queued, Behind
<1>2. IsFiniteSet(Left)
  BY <1>1, FS_Subset DEF FitsBounds
<1>3. QED
  BY <1>1, <1>2, FS_Subset, FS_CardinalityType

\* The walk starts with the whole tree ahead of it.
LEMMA WalkBegins ==
    ASSUME IInv, Thorough, KnownIsRead, FitsBounds
    PROVE  Truthful' /\ Disjoint' /\ Covered' /\ Budget'
<1>1. /\ phase = "known" /\ phase' = "schema" /\ asking' = <<>> /\ stack' = <<>> /\ count' = 0
      /\ tree' = tree /\ Len(stack') = 0 /\ Len(asking') = 0
  BY EmptySeq DEF KnownIsRead, Thorough, IInv, AtItsDepth, Walking
<1>2. Left' = DOMAIN tree
  <2>1. Left' \subseteq DOMAIN tree
    BY <1>1 DEF Left, Queued, Behind
  <2>2. ASSUME NEW a \in DOMAIN tree
        PROVE  a \in Behind'
    <3>1. Len(a) \in Nat \ {0}
      BY TreeTyped, EmptySeq DEF IInv, TypeOK
    <3>2. SubSeq(a, 1, 0) = <<>>
      BY SubSeqEmpty
    <3>3. QED
      BY <1>1, <3>1, <3>2 DEF Behind, Over
  <2>3. QED
    BY <2>1, <2>2 DEF Left
<1>3. Truthful' /\ Disjoint'
  BY <1>1 DEF Truthful, Disjoint, At
<1>4. Covered'
  BY <1>1, <1>2 DEF Covered
<1>5. Budget'
  BY <1>1, <1>2, FS_CardinalityType, BoundsAssumption DEF Budget, FitsBounds
<1>6. QED
  BY <1>3, <1>4, <1>5

\* A level that arrives takes the place of what it is the level of.
LEMMA LevelTakesPlace ==
    ASSUME IInv, Thorough, SchemaArrives, Truthful, Disjoint, Covered, Budget, describes, whole'
    PROVE  Truthful' /\ Disjoint' /\ Covered' /\ Budget'
<1>t. /\ tree \in Trees /\ asking \in Seq(Keys) /\ Len(asking) \in Nat
      /\ DOMAIN tree \subseteq Seq(Keys)
  BY TreeTyped, PathsAreSeqs DEF IInv, TypeOK, Paths
<1>1. /\ phase = "schema" /\ phase' = "walk" /\ tree' = tree /\ asking' = asking
      /\ count' = count /\ limits' = limits
      /\ stack \in Seq(Levels) /\ Len(stack) \in Nat /\ Len(asking) = Len(stack)
      /\ \A i \in 1..Len(stack) : \A b \in DOMAIN stack[i] : Len(b) = i
  BY LenProperties DEF SchemaArrives, IInv, TypeOK, AtItsDepth
<1>2. Level(tree, asking) \in Levels /\ stack' = Append(stack, Level(tree, asking))
  <2>1. PICK reply : /\ MayReply(reply, Schema(tree, asking), lastSchema)
                     /\ IF LevelsAt(reply, asking) = {} THEN UNCHANGED stack
                        ELSE \E level \in LevelsAt(reply, asking) : stack' = Append(stack, level)
    BY DEF SchemaArrives
  <2>2. reply = Schema(tree, asking)
    BY <2>1 DEF MayReply, Fault
  <2>3. At(tree, asking) = "container"
    BY <1>1 DEF Truthful
  <2>4. LevelsAt(reply, asking) = {Level(tree, asking)}
    BY <2>2, <2>3 DEF LevelsAt, Schema
  <2>5. asking \in Paths
    BY DEF IInv, TypeOK, Paths
  <2>6. Level(tree, asking) \in Levels
    BY <1>t, <2>2, <2>4, <2>5, LevelsTyped
  <2>7. QED
    BY <2>1, <2>4, <2>6
<1>3. /\ Len(stack') = Len(stack) + 1 /\ \A i \in 1..Len(stack) : stack'[i] = stack[i]
      /\ stack'[Len(stack) + 1] = Level(tree, asking)
  BY <1>1, <1>2, AppendProperties
<1>4. \A b \in DOMAIN Level(tree, asking) :
        /\ b \in DOMAIN tree /\ b \in Seq(Keys) /\ Level(tree, asking)[b] = tree[b]
        /\ Len(b) = Len(asking) + 1 /\ Over(asking, b)
  BY <1>t DEF Level, Below, Over
<1>5. Truthful'
  <2>1. ASSUME NEW i \in 1..Len(stack'), NEW b \in DOMAIN stack'[i]
        PROVE  b \in DOMAIN tree /\ stack'[i][b] = tree[b]
    <3>1. CASE i \in 1..Len(stack)
      BY <1>3, <3>1 DEF Truthful
    <3>2. CASE i = Len(stack) + 1
      BY <1>3, <1>4, <3>2
    <3>3. QED
      BY <1>1, <1>3, <3>1, <3>2
  <2>2. QED
    BY <1>1, <2>1 DEF Truthful
<1>6. Disjoint'
  <2>1. ASSUME NEW i \in 1..Len(stack'), NEW j \in 1..Len(stack'), i < j,
               NEW b \in DOMAIN stack'[i], NEW c \in DOMAIN stack'[j]
        PROVE  ~Over(b, c)
    <3>1. i \in 1..Len(stack) /\ b \in DOMAIN stack[i]
      BY <1>1, <1>3, <2>1
    <3>2. CASE j \in 1..Len(stack)
      BY <1>3, <2>1, <3>1, <3>2 DEF Disjoint
    <3>3. CASE j = Len(stack) + 1
      <4>1. Over(asking, c) /\ c \in Seq(Keys)
        BY <1>3, <1>4, <3>3
      <4>2. b \in Seq(Keys) /\ Len(b) <= Len(asking) /\ ~Over(b, asking)
        BY <1>t, <1>1, <3>1 DEF Disjoint, Truthful
      <4>3. QED
        BY <1>t, <4>1, <4>2, OverInLine
    <3>4. QED
      BY <1>1, <1>3, <3>2, <3>3
  <2>2. QED
    BY <1>1, <2>1 DEF Disjoint
<1>7. Left' = Left
  <2>1. ASSUME NEW a \in DOMAIN tree, NEW i \in 1..Len(stack'), NEW b \in DOMAIN stack'[i],
               Over(b, a)
        PROVE  a \in Left
    <3>1. CASE i \in 1..Len(stack)
      BY <1>3, <2>1, <3>1 DEF Left, Queued
    <3>2. CASE i = Len(stack) + 1
      <4>1. b \in Seq(Keys) /\ Len(b) = Len(asking) + 1 /\ Over(asking, b)
        BY <1>3, <1>4, <3>2
      <4>2. Over(asking, a) /\ Len(asking) < Len(a)
        BY <1>t, <2>1, <4>1, OverInLine, LenProperties DEF Over
      <4>3. QED
        BY <1>1, <4>2 DEF Left, Behind
    <3>3. QED
      BY <1>1, <1>3, <3>1, <3>2
  <2>2. ASSUME NEW a \in Behind
        PROVE  a \in Queued'
    <3>1. a \in DOMAIN tree /\ Len(asking) < Len(a) /\ Over(asking, a) /\ Len(a) \in Nat
      BY <1>t, LenProperties DEF Behind
    <3>2. PICK n \in 1..Len(a) : n = Len(asking) + 1
      BY <1>t, <3>1
    <3>3. PICK b \in DOMAIN tree : /\ b = SubSeq(a, 1, n) /\ Len(b) = n
                                   /\ \A m \in 0..n : SubSeq(b, 1, m) = SubSeq(a, 1, m)
      BY <1>t, <3>1, <3>2, Above
    <3>4. b \in Below(tree, asking) /\ Over(b, a)
      <4>1. Len(asking) \in 0..n /\ n <= Len(a)
        BY <1>t, <3>1, <3>2
      <4>2. SubSeq(b, 1, Len(asking)) = asking
        BY <3>1, <3>3, <4>1 DEF Over
      <4>3. Len(b) = Len(asking) + 1
        BY <3>2, <3>3
      <4>4. Over(b, a)
        BY <3>3, <4>1 DEF Over
      <4>5. QED
        BY <4>2, <4>3, <4>4 DEF Below
    <3>5. b \in DOMAIN stack'[Len(stack) + 1]
      BY <1>3, <3>4 DEF Level
    <3>6. QED
      BY <1>1, <1>3, <3>1, <3>4, <3>5 DEF Queued
  <2>3. Queued \subseteq Queued'
    BY <1>1, <1>3 DEF Queued
  <2>4. Behind' = {}
    BY <1>1 DEF Behind
  <2>5. Left' \subseteq Left
    BY <1>1, <2>1, <2>4 DEF Left, Queued
  <2>6. QED
    BY <2>2, <2>3, <2>5 DEF Left
<1>8. QED
  BY <1>1, <1>5, <1>6, <1>7 DEF Covered, Budget

\* The leaf that was asked about is described.
LEMMA LeafIsDescribed ==
    ASSUME IInv, Thorough, LimitsArrive, Truthful, Disjoint, Covered, Budget, describes, whole'
    PROVE  Truthful' /\ Disjoint' /\ Covered' /\ Budget'
<1>1. /\ phase = "limits" /\ phase' = "walk" /\ tree' = tree /\ asking' = asking
      /\ count' = count /\ stack' = stack /\ asking \in Seq(Keys)
  BY PathsAreSeqs DEF LimitsArrive, AfterLimits, IInv, TypeOK, Paths
<1>2. limits' = limits \cup {<<asking, asking>>}
  <2>1. PICK reply : /\ MayReply(reply, Limits(tree, asking), lastLimits)
                     /\ limits' = limits \cup LimitsAt(reply, asking)
    BY DEF LimitsArrive
  <2>2. reply = Limits(tree, asking)
    BY <2>1 DEF MayReply, Fault
  <2>3. At(tree, asking) = "leaf"
    BY <1>1 DEF Truthful
  <2>4. IsPrefix(asking, asking)
    BY <1>1, LenProperties DEF IsPrefix
  <2>5. LimitsAt(reply, asking) = {<<asking, asking>>}
    BY <2>2, <2>3, <2>4 DEF LimitsAt, Limits
  <2>6. QED
    BY <2>1, <2>5
<1>3. Left' = Left
  BY <1>1 DEF Left, Queued, Behind
<1>4. Truthful' /\ Disjoint' /\ Budget'
  BY <1>1, <1>3 DEF Truthful, Disjoint, Budget
<1>5. Covered'
  BY <1>1, <1>2, <1>3 DEF Covered
<1>6. QED
  BY <1>4, <1>5

\* A child that is visited is one less of what is left; what stands below it is
\* asked for, or there is nothing below it.
LEMMA ChildIsVisited ==
    ASSUME IInv, Thorough, NEW child \in Addresses, Visits(child),
           Truthful, Disjoint, Covered, Budget, FitsBounds
    PROVE  Truthful' /\ Disjoint' /\ Covered' /\ Budget'
<1> DEFINE top == Len(stack)
<1>t. /\ tree \in Trees /\ DOMAIN tree \subseteq Seq(Keys) /\ count \in Nat
      /\ \A a \in DOMAIN tree : Len(a) \in Nat /\ a # <<>>
  BY TreeTyped, LenProperties DEF IInv, TypeOK
<1>1. /\ top \in 1..top /\ top \in Nat \ {0} /\ phase = "walk" /\ child \in DOMAIN stack[top]
      /\ Len(child) = top /\ Len(stack') = top
      /\ count < MaxNodes /\ count' = count + 1 /\ asking' = child
      /\ tree' = tree /\ limits' = limits
      /\ phase' \in {"limits", "schema", "walk"}
      /\ \A i \in 1..top : \A b \in DOMAIN stack[i] : Len(b) = i
  BY VisitTakesChild DEF AtItsDepth
<1>2. \A i \in 1..top : /\ DOMAIN stack'[i] = IF i = top THEN DOMAIN stack[i] \ {child}
                                                ELSE DOMAIN stack[i]
                        /\ \A b \in DOMAIN stack'[i] : stack'[i][b] = stack[i][b]
  BY VisitTakesChild
<1>3. /\ child \in DOMAIN tree /\ child \in Seq(Keys) /\ child # <<>>
      /\ stack[top][child] = tree[child] /\ At(tree, child) = tree[child]
  BY <1>t, <1>1 DEF Truthful, At
<1>4. phase' = IF tree[child] = "leaf" THEN "limits"
               ELSE IF LevelsLeft(child) /\ count + 1 < MaxNodes THEN "schema" ELSE "walk"
  BY <1>3 DEF Visits, Last
<1>5. Truthful'
  <2>1. tree[child] \in {"leaf", "container"}
    BY <1>t, <1>3, TreeTyped
  <2>2. \A i \in 1..top : \A b \in DOMAIN stack'[i] : b \in DOMAIN tree /\ stack'[i][b] = tree[b]
    BY <1>2 DEF Truthful
  <2>3. QED
    BY <1>1, <1>3, <1>4, <2>1, <2>2 DEF Truthful
<1>6. ASSUME NEW i \in 1..top, NEW b \in DOMAIN stack'[i]
      PROVE  ~Over(b, child)
  <2>1. b \in DOMAIN stack[i] /\ (i = top => b # child)
    BY <1>2
  <2>2. CASE i < top
    BY <1>1, <2>1, <2>2 DEF Disjoint
  <2>3. CASE i = top
    <3>1. b \in Seq(Keys) /\ Len(b) = Len(child) /\ b # child
      BY <1>t, <1>1, <2>1, <2>3 DEF Truthful
    <3>2. QED
      BY <1>3, <3>1, OverInLine, OverItself
  <2>4. QED
    BY <1>1, <2>2, <2>3
<1>7. Disjoint'
  <2>1. ASSUME NEW i \in 1..top, NEW j \in 1..top, i < j,
               NEW b \in DOMAIN stack'[i], NEW c \in DOMAIN stack'[j]
        PROVE  ~Over(b, c)
    BY <1>2, <2>1 DEF Disjoint
  <2>2. QED
    BY <1>1, <1>6, <2>1 DEF Disjoint
<1>8. child \in Left
  BY <1>1, <1>3, OverItself DEF Left, Queued
<1>9. Left' \subseteq Left \ {child}
  <2>1. Queued' \subseteq Queued
    BY <1>1, <1>2 DEF Queued
  <2>2. child \notin Queued'
    BY <1>1, <1>6 DEF Queued
  <2>3. \A a \in Behind' : a \in Queued /\ a # child
    BY <1>t, <1>1 DEF Behind, Queued
  <2>4. QED
    BY <2>1, <2>2, <2>3 DEF Left
<1>10. /\ IsFiniteSet(Left) /\ Cardinality(Left) \in Nat
       /\ Cardinality(Left \ {child}) = Cardinality(Left) - 1
       /\ IsFiniteSet(Left \ {child})
       /\ count + Cardinality(Left) <= MaxNodes
  BY <1>8, LeftFinite, FS_RemoveElement DEF Budget
<1>11. Budget'
  <2>1. Cardinality(Left') <= Cardinality(Left \ {child}) /\ Cardinality(Left') \in Nat
    BY <1>9, <1>10, FS_Subset, FS_CardinalityType
  <2>2. QED
    BY <1>t, <1>1, <1>10, <2>1, BoundsAssumption DEF Budget
<1>12. ASSUME NEW a \in DOMAIN tree, tree[a] = "leaf", a \in Left
       PROVE  a \in Left' \/ (phase' = "limits" /\ a = child)
  <2>p. PICK i \in 1..top : \E b \in DOMAIN stack[i] : Over(b, a)
    BY <1>1, <1>12 DEF Left, Queued, Behind
  <2>1. PICK b \in DOMAIN stack[i] : Over(b, a)
    BY <2>p
  <2>2. CASE ~(i = top /\ b = child)
    <3>1. b \in DOMAIN stack'[i]
      BY <1>2, <2>1, <2>2
    <3>2. QED
      BY <1>1, <2>1, <3>1 DEF Left, Queued
  <2>3. CASE b = child /\ tree[child] = "leaf"
    <3>1. CASE Len(child) = Len(a)
      <4>1. SubSeq(a, 1, Len(a)) = child
        BY <2>1, <2>3, <3>1 DEF Over
      <4>2. a = child
        BY <1>t, <4>1, SubSeqFull
      <4>3. QED
        BY <1>4, <2>3, <4>2
    <3>2. CASE Len(child) # Len(a)
      <4>1. Len(child) \in 1..Len(a) /\ Len(child) < Len(a) /\ SubSeq(a, 1, Len(child)) = child
        BY <1>t, <1>1, <1>3, <2>1, <2>3, <3>2 DEF Over
      <4>2. tree[child] = "container"
        BY <1>t, <4>1, Above
      <4>3. QED
        BY <2>3, <4>2
    <3>3. QED
      BY <3>1, <3>2
  <2>4. CASE b = child /\ tree[child] # "leaf"
    <3>1. Over(child, a) /\ a # child /\ Len(child) < Len(a)
      <4>1. a # child /\ Over(child, a)
        BY <1>12, <2>1, <2>4
      <4>2. Len(child) # Len(a)
        BY <1>t, <1>3, <4>1, SubSeqFull DEF Over
      <4>3. QED
        BY <1>t, <1>3, <4>1, <4>2 DEF Over
    <3>2. LevelsLeft(child)
      BY <1>t, <1>3, <3>1, BoundsAssumption DEF LevelsLeft, FitsBounds
    <3>3. count + 1 < MaxNodes
      <4>1. Cardinality(Left \ {child}) # 0
        <5>1. a \in Left \ {child}
          BY <1>12, <3>1
        <5>2. Left \ {child} # {}
          BY <5>1
        <5>3. QED
          BY <1>10, <5>2, FS_EmptySet
      <4>2. Cardinality(Left \ {child}) \in Nat
        BY <1>10, FS_CardinalityType
      <4>3. Cardinality(Left) >= 2
        BY <1>10, <4>1, <4>2
      <4>4. QED
        BY <1>t, <1>10, <4>3, BoundsAssumption
    <3>4. phase' = "schema"
      BY <1>4, <2>4, <3>2, <3>3
    <3>5. QED
      BY <1>1, <3>1, <3>4 DEF Left, Behind
  <2>5. QED
    BY <2>2, <2>3, <2>4
<1>13. Covered'
  BY <1>1, <1>12 DEF Covered
<1>14. QED
  BY <1>5, <1>7, <1>11, <1>13

\* A call of _walk returns with nothing left in its level.
LEMMA CallReturns ==
    ASSUME IInv, Thorough, Returns, Truthful, Disjoint, Covered, Budget, FitsBounds
    PROVE  Truthful' /\ Disjoint' /\ Covered' /\ Budget'
<1> DEFINE top == Len(stack)
<1>1. /\ phase = "walk" /\ phase' = "walk" /\ tree' = tree /\ limits' = limits /\ count' = count
      /\ asking' = asking
      /\ DOMAIN stack[top] = {} \/ ~NodesLeft
  BY DEF Returns, Last
<1>2. /\ top \in Nat \ {0} /\ Len(stack') = top - 1
      /\ \A i \in 1..top-1 : stack'[i] = stack[i]
  BY ReturnPops
<1>3. Truthful' /\ Disjoint'
  BY <1>1, <1>2 DEF Truthful, Disjoint
<1>4. Left' = Left
  <2>1. Left' \subseteq Left
    BY <1>1, <1>2 DEF Left, Queued, Behind
  <2>2. CASE DOMAIN stack[top] = {}
    BY <1>1, <1>2, <2>1, <2>2 DEF Left, Queued, Behind
  <2>3. CASE ~NodesLeft
    <3>1. Cardinality(Left) = 0
      BY <2>3, LeftFinite, BoundsAssumption DEF Budget, NodesLeft, IInv, TypeOK
    <3>2. Left = {}
      BY <3>1, LeftFinite, FS_EmptySet
    <3>3. QED
      BY <2>1, <3>2
  <2>4. QED
    BY <1>1, <2>2, <2>3
<1>5. QED
  BY <1>1, <1>3, <1>4 DEF Covered, Budget

\* With the walk over, every leaf is described.
LEMMA AllIsDescribed ==
    ASSUME IInv, Covered, phase \in {"file", "store"}
    PROVE  {d[1] : d \in limits} = {a \in DOMAIN tree : tree[a] = "leaf"}
<1>1. Left = {}
  BY EmptySeq DEF IInv, AtItsDepth, Walking, Left, Queued, Behind
<1>2. \A a \in DOMAIN tree : tree[a] = "leaf" => <<a, a>> \in limits
  BY <1>1 DEF Covered
<1>3. \A d \in limits : d[1] \in DOMAIN tree /\ tree[d[1]] = "leaf"
  BY DEF IInv, LimitsOfTheirLeaf, At
<1>4. ASSUME NEW a \in DOMAIN tree, tree[a] = "leaf"
      PROVE  a \in {d[1] : d \in limits}
  <2>1. <<a, a>> \in limits /\ <<a, a>>[1] = a
    BY <1>2, <1>4
  <2>2. QED
    BY <2>1
<1>5. QED
  BY <1>3, <1>4

\* While nothing goes wrong, the walk keeps track of the whole tree.
LEMMA WalkKeepsTrack ==
    ASSUME IInv, Thorough, RunStep, whole', describes', FitsBounds',
           phase' \notin {"idle", "known"}
    PROVE  Truthful' /\ Disjoint' /\ Covered' /\ Budget'
<1>1. tree' = tree /\ describes' = describes
  BY DEF RunStep, ReadsKnown, KnownAborts, KnownIsRead, SchemaArrives, LimitsArrive,
         Visits, Returns, WalkCutShort, Judged, WritesFile, Stores
<1>2. describes /\ FitsBounds
  BY <1>1 DEF FitsBounds
<1>3. whole
  BY DEF RunStep, ReadsKnown, KnownAborts, KnownIsRead, SchemaArrives, LimitsArrive, MayReply,
         Visits, Returns, WalkCutShort, Judged, WritesFile, Stores, Fault, Fine
<1>4. phase \notin {"idle", "known"} => Truthful /\ Disjoint /\ Covered /\ Budget
  BY <1>2, <1>3 DEF Thorough
<1>5. CASE KnownIsRead
  BY <1>2, <1>5, WalkBegins
<1>6. CASE SchemaArrives
  BY <1>2, <1>4, <1>6, LevelTakesPlace DEF SchemaArrives
<1>7. CASE LimitsArrive
  BY <1>2, <1>4, <1>7, LeafIsDescribed DEF LimitsArrive
<1>8. CASE \E child \in Addresses : Visits(child)
  BY <1>2, <1>4, <1>8, ChildIsVisited DEF Visits
<1>9. CASE Returns
  BY <1>2, <1>4, <1>9, CallReturns DEF Returns
<1>10. CASE (Judged \/ WritesFile) /\ UNCHANGED <<stack, asking, count, limits>>
  <2>1. /\ phase \notin {"idle", "known", "schema", "limits"}
        /\ phase' \notin {"schema", "limits"}
    BY <1>10 DEF Judged, WritesFile, Ends
  <2>2. Left' = Left
    BY <1>1, <1>10, <2>1 DEF Left, Queued, Behind
  <2>3. QED
    BY <1>1, <1>4, <1>10, <2>1, <2>2 DEF Truthful, Disjoint, Covered, Budget
<1>11. CASE (\E p \in KnownPaths : ReadsKnown(p)) \/ KnownAborts \/ Stores
            \/ ((Judged \/ WritesFile) /\ Ends) \/ WalkCutShort
  BY <1>11 DEF ReadsKnown, KnownAborts, Stores, Ends, WalkCutShort, Fault
<1>12. Judged \/ WritesFile => Ends \/ UNCHANGED <<stack, asking, count, limits>>
  BY DEF Judged, WritesFile
<1>13. QED
  BY <1>5, <1>6, <1>7, <1>8, <1>9, <1>10, <1>11, <1>12 DEF RunStep

LEMMA KnownKeepsTrack ==
    ASSUME IInv, Thorough, RunStep
    PROVE  /\ phase' = "known" => count' = 0
           /\ whole' /\ phase' = "known" =>
                known' = {p \in KnownPaths \ toRead' : Answered(tree', p)}
           /\ whole' /\ phase' \notin {"idle", "known"} =>
                known' = {p \in KnownPaths : Answered(tree', p)}
<1>1. CASE \E p \in KnownPaths : ReadsKnown(p)
  <2>1. PICK p \in KnownPaths : ReadsKnown(p)
    BY <1>1
  <2>2. /\ phase = "known" /\ phase' = "known" /\ tree' = tree /\ count' = count
        /\ p \in toRead /\ toRead' = toRead \ {p}
    BY <2>1 DEF ReadsKnown, walkV
  <2>3. ASSUME whole'
        PROVE  whole /\ known' = IF Answered(tree, p) THEN known \cup {p} ELSE known
    BY <2>1, <2>3 DEF ReadsKnown, Fault, Fine
  <2>4. QED
    BY <2>2, <2>3 DEF Thorough
<1>2. CASE KnownIsRead
  <2>1. phase = "known" /\ toRead = {} /\ phase' = "schema" /\ tree' = tree /\ known' = known
        /\ whole' = whole
    BY <1>2 DEF KnownIsRead, Fine
  <2>2. QED
    BY <2>1 DEF Thorough
<1>3. CASE phase' = "idle"
  BY <1>3
<1>4. CASE /\ phase \notin {"idle", "known"} /\ phase' # "known" /\ tree' = tree /\ known' = known
           /\ whole' => whole
  BY <1>4 DEF Thorough
<1>5. SchemaArrives \/ LimitsArrive \/ (\E child \in Addresses : Visits(child)) \/ Returns
      \/ WalkCutShort =>
        /\ phase \notin {"idle", "known"} /\ phase' # "known" /\ tree' = tree /\ known' = known
        /\ whole' => whole
  <2>1. SchemaArrives => /\ phase = "schema" /\ phase' = "walk" /\ tree' = tree /\ known' = known
                         /\ Fault \/ Fine
    BY DEF SchemaArrives, MayReply
  <2>2. LimitsArrive => /\ phase = "limits" /\ phase' = "walk" /\ tree' = tree /\ known' = known
                        /\ Fault \/ Fine
    BY DEF LimitsArrive, MayReply, AfterLimits
  <2>3. Returns => /\ phase = "walk" /\ phase' = "walk" /\ tree' = tree /\ known' = known /\ Fine
    BY DEF Returns
  <2>4. ASSUME NEW child \in Addresses, Visits(child)
        PROVE  phase = "walk" /\ phase' # "known" /\ tree' = tree /\ known' = known /\ Fine
    BY <2>4 DEF Visits
  <2>5. WalkCutShort =>
          phase \in Walking /\ phase' = "walk" /\ tree' = tree /\ known' = known /\ Fault
    BY DEF WalkCutShort
  <2>6. (Fault => ~whole') /\ (Fine => (whole' => whole))
    BY DEF Fault, Fine
  <2>7. QED
    BY <2>1, <2>2, <2>3, <2>4, <2>5, <2>6 DEF Walking
<1>6. KnownAborts \/ Stores => phase' = "idle"
  BY DEF KnownAborts, Stores, Ends
<1>7. Judged \/ WritesFile =>
        \/ phase' = "idle"
        \/ /\ phase \notin {"idle", "known"} /\ phase' # "known" /\ tree' = tree /\ known' = known
           /\ whole' => whole
  BY DEF Judged, WritesFile, Ends, Fine
<1>8. QED
  BY <1>1, <1>2, <1>3, <1>4, <1>5, <1>6, <1>7 DEF RunStep

\* Only the file is written anew, with what the run has then.
LEMMA FileLeavesNothingOut ==
    ASSUME IInv, Thorough, RunStep
    PROVE  NothingLeftOut'
<1>1. tree' = tree /\ describes' = describes
  BY DEF RunStep, ReadsKnown, KnownAborts, KnownIsRead, SchemaArrives, LimitsArrive,
         Visits, Returns, WalkCutShort, Judged, WritesFile, Stores
<1>2. CASE exported' = exported
  BY <1>1, <1>2 DEF Thorough, NothingLeftOut, FitsBounds
<1>3. CASE exported' # exported
  <2>1. WritesFile /\ exported' = ThisRecord /\ phase = "file"
    BY <1>3
       DEF RunStep, ReadsKnown, KnownAborts, KnownIsRead, SchemaArrives, LimitsArrive,
           Visits, Returns, WalkCutShort, Judged, WritesFile, Stores, filesV
  <2>2. exported'.whole = whole /\ exported'.known = known /\ exported'.limits = limits
    BY <2>1 DEF ThisRecord
  <2>3. whole /\ describes /\ FitsBounds =>
          {d[1] : d \in limits} = {a \in DOMAIN tree : tree[a] = "leaf"}
    BY <2>1, AllIsDescribed DEF Thorough
  <2>4. whole => known = {p \in KnownPaths : Answered(tree, p)}
    BY <2>1 DEF Thorough
  <2>5. QED
    BY <1>1, <2>2, <2>3, <2>4 DEF NothingLeftOut, FitsBounds
<1>4. QED
  BY <1>2, <1>3

LEMMA TrackIsKept == IInv /\ Thorough /\ [Next]_vars => Thorough'
<1> SUFFICES ASSUME IInv, Thorough, [Next]_vars PROVE Thorough'
  OBVIOUS
<1>1. CASE Pressed
  BY <1>1 DEF Pressed, Thorough, NothingLeftOut, FitsBounds, filesV, Answered
<1>2. CASE RunStep
  <2>1. whole' /\ describes' /\ FitsBounds' /\ phase' \notin {"idle", "known"} =>
          Truthful' /\ Disjoint' /\ Covered' /\ Budget'
    BY <1>2, WalkKeepsTrack
  <2>2. QED
    BY <1>2, <2>1, KnownKeepsTrack, FileLeavesNothingOut DEF Thorough
<1>3. CASE UNCHANGED vars
  BY <1>3
     DEF vars, walkV, filesV, Thorough, NothingLeftOut, FitsBounds, Truthful, Disjoint, Covered,
         Budget, Left, Queued, Behind
<1>4. QED
  BY <1>1, <1>2, <1>3 DEF Next

\* A run in which nothing went wrong has missed no leaf and no known path of a
\* speaker that fits the bounds (_walk and both of its bounds).
THEOREM NothingLeftOutHolds == Spec => []NothingLeftOut
<1>1. Init => Thorough
  BY DEF Init, Thorough, NothingLeftOut, NoRecord
<1>2. Thorough => NothingLeftOut
  BY DEF Thorough
<1>3. QED
  BY <1>1, <1>2, TrackIsKept, InvariantHolds, PTL DEF Spec

(***************************************************************************)
(* Every run is bounded.                                                   *)
(***************************************************************************)

\* What the walk has ahead of it at most: a node takes its visit, the question about
\* it, the answer and the return of its call.
WalkLeft ==
    4 * (MaxNodes - count) + Len(stack)
    + (CASE phase = "schema" -> 2 [] phase = "limits" -> 1 [] OTHER -> 0)

\* How many steps a run has left at most.
StepsLeft ==
    CASE phase = "known" -> 4 * MaxNodes + 6 + Cardinality(toRead)
      [] phase \in Walking -> 3 + WalkLeft
      [] phase = "file" -> 2
      [] phase = "store" -> 1
      [] phase = "idle" -> 0

\* The known paths come before the walk.
NotYetCounting == phase = "known" => count = 0

\* The measure, phase by phase.
InNumbers ==
    /\ Len(stack) \in Nat /\ count \in Nat /\ count <= MaxNodes /\ MaxNodes \in Nat
    /\ Cardinality(toRead) \in Nat /\ phase \in Phases
    /\ phase = "known" => StepsLeft = 4 * MaxNodes + 6 + Cardinality(toRead)
    /\ phase = "schema" => StepsLeft = 5 + 4 * (MaxNodes - count) + Len(stack)
    /\ phase = "limits" => StepsLeft = 4 + 4 * (MaxNodes - count) + Len(stack)
    /\ phase = "walk" => StepsLeft = 3 + 4 * (MaxNodes - count) + Len(stack)
    /\ phase = "file" => StepsLeft = 2
    /\ phase = "store" => StepsLeft = 1
    /\ phase = "idle" => StepsLeft = 0

LEMMA LeftInNumbers == IInv => InNumbers
<1> SUFFICES ASSUME IInv PROVE InNumbers
  OBVIOUS
<1>1. Len(stack) \in Nat /\ count \in Nat /\ count <= MaxNodes /\ MaxNodes \in Nat
  BY LenProperties, BoundsAssumption DEF IInv, TypeOK
<1>2. Cardinality(toRead) \in Nat
  BY KnownAssumption, FS_Subset, FS_CardinalityType DEF IInv, TypeOK
<1>3. phase \in Phases
  BY DEF IInv, TypeOK
<1>4. QED
  BY <1>1, <1>2, <1>3 DEF InNumbers, StepsLeft, WalkLeft, Walking, Phases

LEMMA StillInNumbers == IInv' => InNumbers'
BY LeftInNumbers, PTL

LEMMA CountingStarts == IInv /\ NotYetCounting /\ [Next]_vars => NotYetCounting'
<1> SUFFICES ASSUME IInv, NotYetCounting, [Next]_vars PROVE NotYetCounting'
  OBVIOUS
<1>1. phase' = "known" => (phase = "known" /\ count' = count) \/ count' = 0
  BY DEF Next, RunStep, Pressed, ReadsKnown, KnownAborts, KnownIsRead, SchemaArrives,
         LimitsArrive, AfterLimits, Visits, Returns, WalkCutShort, Judged, WritesFile, Stores,
         Ends, vars, walkV
<1>2. QED
  BY <1>1 DEF NotYetCounting

\* The steps of the walk, in numbers.
LEMMA WalkGetsNearer ==
    ASSUME IInv, InNumbers, InNumbers',
           \/ SchemaArrives \/ LimitsArrive \/ (\E child \in Addresses : Visits(child))
           \/ Returns \/ WalkCutShort
    PROVE  StepsLeft' < StepsLeft
<1> USE DEF InNumbers
<1>1. CASE SchemaArrives
  <2>1. /\ phase = "schema" /\ phase' = "walk" /\ count' = count
        /\ stack' = stack \/ \E level \in Levels : stack' = Append(stack, level)
    BY <1>1, SchemaReplyTyped
  <2>2. Len(stack') <= Len(stack) + 1
    BY <2>1, AppendProperties DEF IInv, TypeOK
  <2>3. QED
    BY <2>1, <2>2
<1>2. CASE LimitsArrive
  <2>1. phase = "limits" /\ phase' = "walk" /\ count' = count /\ stack' = stack
    BY <1>2 DEF LimitsArrive, AfterLimits
  <2>2. QED
    BY <2>1
<1>3. CASE \E child \in Addresses : Visits(child)
  <2>1. /\ phase = "walk" /\ count' = count + 1 /\ Len(stack') = Len(stack)
        /\ phase' \in {"limits", "schema", "walk"}
    BY <1>3, VisitTakesChild
  <2>2. QED
    BY <2>1
<1>4. CASE Returns
  <2>1. phase = "walk" /\ phase' = "walk" /\ count' = count /\ Len(stack') = Len(stack) - 1
    BY <1>4, ReturnPops DEF Returns
  <2>2. QED
    BY <2>1
<1>5. CASE WalkCutShort
  <2>1. /\ phase \in Walking /\ phase' = "walk" /\ count' = count /\ stack' = <<>>
        /\ phase = "walk" => Len(stack) # 0
    BY <1>5, EmptySeq DEF WalkCutShort, IInv, TypeOK
  <2>2. Len(stack') = 0
    BY <2>1
  <2>3. QED
    BY <2>1, <2>2 DEF Walking
<1>6. QED
  BY <1>1, <1>2, <1>3, <1>4, <1>5

\* Every step of a run brings it nearer to its end.
LEMMA RunGetsNearer ==
    ASSUME IInv, NotYetCounting, InNumbers, InNumbers', RunStep
    PROVE  StepsLeft' < StepsLeft
<1> USE DEF InNumbers
<1>0. StepsLeft' \in Nat /\ (phase' = "idle" => StepsLeft' = 0)
  BY BoundsAssumption DEF Phases
<1>1. CASE \E p \in KnownPaths : ReadsKnown(p)
  <2>1. PICK p \in KnownPaths : ReadsKnown(p)
    BY <1>1
  <2>2. phase = "known" /\ phase' = "known" /\ p \in toRead /\ toRead' = toRead \ {p}
    BY <2>1 DEF ReadsKnown
  <2>3. IsFiniteSet(toRead)
    BY KnownAssumption, FS_Subset DEF IInv, TypeOK
  <2>4. Cardinality(toRead') = Cardinality(toRead) - 1
    BY <2>2, <2>3, FS_RemoveElement
  <2>5. StepsLeft' = 4 * MaxNodes + 6 + Cardinality(toRead')
    BY <2>2
  <2>6. QED
    BY <2>2, <2>4, <2>5
<1>2. CASE KnownAborts \/ Stores
  <2>1. phase \in {"known", "store"} /\ phase' = "idle"
    BY <1>2 DEF KnownAborts, Stores, Ends
  <2>2. QED
    BY <1>0, <2>1
<1>3. CASE KnownIsRead
  <2>1. phase = "known" /\ phase' = "schema" /\ stack' = stack /\ count' = count
    BY <1>3 DEF KnownIsRead
  <2>2. stack = <<>> /\ count = 0
    BY <2>1 DEF NotYetCounting, IInv, AtItsDepth, Walking
  <2>3. StepsLeft' = 5 + 4 * (MaxNodes - count') + Len(stack')
    BY <2>1
  <2>4. Len(stack') = 0 /\ count' = 0
    BY <2>1, <2>2
  <2>5. QED
    BY <2>1, <2>3, <2>4
<1>4. CASE \/ SchemaArrives \/ LimitsArrive \/ (\E child \in Addresses : Visits(child))
           \/ Returns \/ WalkCutShort
  BY <1>4, WalkGetsNearer
<1>5. CASE Judged
  <2>1. phase = "walk" /\ phase' \in {"file", "idle"}
    BY <1>5 DEF Judged, Ends
  <2>2. StepsLeft' <= 2
    BY <1>0, <2>1
  <2>3. StepsLeft \in Nat /\ StepsLeft >= 3
    BY <2>1
  <2>4. QED
    BY <1>0, <2>2, <2>3
<1>6. CASE WritesFile
  <2>1. phase = "file" /\ phase' \in {"store", "idle"}
    BY <1>6 DEF WritesFile, Ends
  <2>2. StepsLeft' <= 1 /\ StepsLeft = 2
    BY <1>0, <2>1
  <2>3. QED
    BY <1>0, <2>2
<1>7. QED
  BY <1>1, <1>2, <1>3, <1>4, <1>5, <1>6 DEF RunStep

Longest == 4 * MaxNodes + 6 + Cardinality(KnownPaths)

\* No run takes more steps than the bound of nodes allows, whatever the speaker
\* answers and without any time limit: from the press on, each step leaves fewer of
\* them.  With the fairness of the event loop this is RunEnds, for every tree.
THEOREM EveryRunIsBounded ==
    Spec => /\ [](StepsLeft \in Nat)
            /\ [][IF phase = "idle" THEN StepsLeft' = Longest ELSE StepsLeft' < StepsLeft]_vars
<1>1. Init => NotYetCounting
  BY DEF Init, NotYetCounting
<1>2. IInv => StepsLeft \in Nat
  BY LeftInNumbers, BoundsAssumption DEF InNumbers, Phases
<1>3. IInv /\ IInv' /\ NotYetCounting /\ [Next]_vars
        => [IF phase = "idle" THEN StepsLeft' = Longest ELSE StepsLeft' < StepsLeft]_vars
  <2>1. IInv' /\ Pressed => phase = "idle" /\ StepsLeft' = Longest
    BY StillInNumbers DEF Pressed, InNumbers, Longest
  <2>2. RunStep => phase # "idle"
    BY DEF RunStep, ReadsKnown, KnownAborts, KnownIsRead, SchemaArrives, LimitsArrive, Visits,
           Returns, WalkCutShort, Judged, WritesFile, Stores, Walking
  <2>3. QED
    BY <2>1, <2>2, LeftInNumbers, StillInNumbers, RunGetsNearer DEF Next
<1>4. QED
  BY <1>1, <1>2, <1>3, CountingStarts, InvariantHolds, PTL DEF Spec

=============================================================================
