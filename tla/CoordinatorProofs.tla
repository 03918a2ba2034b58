-------------------------- MODULE CoordinatorProofs --------------------------
(***************************************************************************)
(* Safety of the coordinator for every set of paths, every poll period and *)
(* every bound, by one inductive invariant.                                *)
(***************************************************************************)
EXTENDS Coordinator, TLAPS

(***************************************************************************)
(* The inductive invariant.                                                *)
(***************************************************************************)

\* Nothing anybody holds is newer than the speaker.
NothingFromTheFuture ==
    \A p \in Paths :
        /\ data[p] <= device[p]
        /\ slowData[p] <= device[p]
        /\ floor[p] <= device[p]
        /\ lastConfirmed[p] <= device[p]

\* A value on its way back is at least as new as all that is already held: only
\* the holder of the client's lock can change what is held of that path.
ReplyIsCurrent ==
    /\ op.kind \in {"get", "set"} /\ op.reply = "value" =>
         /\ op.stamp # Absent
         /\ op.stamp <= device[op.path]
         /\ op.stamp >= data[op.path]
         /\ op.stamp >= lastConfirmed[op.path]
         /\ op.stamp >= floor[op.path]
    /\ op.reply # "value" => op.stamp = Absent
    /\ op.kind = "get" => polling /\ op.path \in todo
    /\ op.kind \in {"set", "reset"} => ready

\* The slow cache is never behind what is shown.
CacheLeads ==
    /\ \A p \in Paths : slowData[p] # Absent =>
         p \in SlowPaths /\ slowData[p] >= data[p]
    /\ ConfirmedKept

\* What the running cycle would publish for a path is never behind.
CycleLeads ==
    polling => \A p \in Paths :
        /\ merged[p] <= device[p]
        /\ confirmed[p] # Absent =>
             confirmed[p] = data[p] /\ confirmed[p] = lastConfirmed[p]
        /\ merged[p] # Absent /\ confirmed[p] = Absent =>
             merged[p] >= data[p] /\ merged[p] >= lastConfirmed[p]

\* No reset the speaker has carried out is still unknown to the coordinator.
ResetSettled == op.kind = "reset" => op.reply # "value"

\* A slow cycle that no invalidation has overtaken carries post-reset values.
ResetRespected ==
    ResetSettled =>
        /\ \A p \in Paths : slowData[p] # Absent => slowData[p] >= floor[p]
        /\ polling /\ includeSlow /\ genAtStart = generation =>
             \A p \in Paths :
                /\ confirmed[p] # Absent => confirmed[p] >= floor[p]
                /\ merged[p] # Absent /\ confirmed[p] = Absent => merged[p] >= floor[p]

\* A slow cycle that no reread request has overtaken will have read every path
\* somebody is owed.
RereadServed ==
    /\ RereadStaysDue
    /\ polling /\ includeSlow => pending
    /\ polling /\ includeSlow /\ rereadsAtStart = rereads => owed \subseteq todo \cup rereadDone

\* Counters only grow, and nothing can be invalidated before the first success.
CountersGrow ==
    /\ genAtStart <= generation
    /\ rereadsAtStart <= rereads
    /\ ~ready => generation = 0

IInv ==
    /\ TypeOK
    /\ NothingFromTheFuture
    /\ ReplyIsCurrent
    /\ CacheLeads
    /\ CycleLeads
    /\ ResetRespected
    /\ RereadServed
    /\ CountersGrow

(***************************************************************************)
(* Type correctness.                                                       *)
(***************************************************************************)

\* A request starts well typed, and a reply keeps it so.
LEMMA RequestTyped ==
  /\ Idle \in Requests /\ Idle.kind = "idle"
  /\ \A kind \in Kinds, p \in Paths \cup {NoPath} :
        /\ Request(kind, p) \in Requests
        /\ Request(kind, p).kind = kind
        /\ Request(kind, p).path = p
  BY BoundsAssumption DEF Requests, Idle, Request, Kinds, Replies, Values, Absent

LEMMA AnswerTyped ==
  ASSUME op \in Requests, NEW reply \in Replies, NEW stamp \in Values, Answer(reply, stamp)
  PROVE  /\ op' \in Requests
         /\ op'.kind = op.kind
         /\ op'.path = op.path
         /\ op'.reply = reply
         /\ op'.stamp = stamp
  BY DEF Answer, Requests

\* The empty tree is a tree of values.
LEMMA NothingTyped == Nothing \in [Paths -> Values]
  BY BoundsAssumption DEF Nothing, Values, Absent

\* The freshly built coordinator is well typed.
LEMMA InitTyped == Init => TypeOK
<1> SUFFICES ASSUME Init PROVE TypeOK
  OBVIOUS
<1>1. device \in [Paths -> Stamps]
  BY BoundsAssumption DEF Init, Stamps
<1>2. op \in Requests /\ op.kind = "idle"
  BY RequestTyped DEF Init
<1>3. /\ faults \in 0..MaxFaults
      /\ cycle \in 0..(SlowEvery - 1)
      /\ generation \in Nat /\ rereads \in Nat
      /\ genAtStart \in Nat /\ rereadsAtStart \in Nat
  BY BoundsAssumption DEF Init
<1>4. /\ data \in [Paths -> Values] /\ slowData \in [Paths -> Values]
      /\ confirmed \in [Paths -> Values] /\ merged \in [Paths -> Values]
      /\ floor \in [Paths -> Values] /\ lastConfirmed \in [Paths -> Values]
  BY NothingTyped DEF Init
<1>5. QED
  BY <1>1, <1>2, <1>3, <1>4 DEF Init, TypeOK

\* deep_merge of two trees of stamps is a tree of stamps, and at each path it
\* holds the newer tree's value where there is one.
LEMMA OverlayTyped ==
  ASSUME NEW older \in [Paths -> Values], NEW newer \in [Paths -> Values]
  PROVE  Overlay(older, newer) \in [Paths -> Values]
  BY DEF Overlay

\* What the last reply of a cycle leads to is well typed.
LEMMA ReplyTyped ==
  ASSUME TypeOK, PollHasReply
  PROVE  /\ op.path \in Paths
         /\ MergedNow \in [Paths -> Values]
         /\ AnsweredNow \in BOOLEAN
         /\ RereadNow \subseteq SlowPaths
         /\ Snapshot \in [Paths -> Values]
         /\ RefreshedSlowData \in [Paths -> Values]
         /\ StillPending \in BOOLEAN
<1>1. op.path \in Paths /\ op.stamp \in Values
  BY DEF TypeOK, Requests, PollHasReply
<1>2. MergedNow \in [Paths -> Values]
  BY <1>1 DEF TypeOK, MergedNow
<1>3. Snapshot \in [Paths -> Values]
  BY <1>2, OverlayTyped DEF TypeOK, Snapshot
<1>4. RefreshedSlowData \in [Paths -> Values]
  BY <1>3 DEF TypeOK, RefreshedSlowData
<1>5. /\ AnsweredNow \in BOOLEAN
      /\ RereadNow \subseteq SlowPaths
      /\ StillPending \in BOOLEAN
  BY DEF TypeOK, AnsweredNow, RereadNow, StillPending
<1>6. QED
  BY <1>1, <1>2, <1>3, <1>4, <1>5

\* What the speaker does keeps the types.
LEMMA DeviceStepTyped == TypeOK /\ DeviceStep => TypeOK'
<1> SUFFICES ASSUME TypeOK, DeviceStep PROVE TypeOK'
  OBVIOUS
<1> USE DEF TypeOK, pollVars, cacheVars, ghostVars
<1>a. /\ Absent \in Values
      /\ \A p \in Paths : device[p] \in Stamps /\ device[p] \in Values
      /\ \A p \in Paths : device[p] < MaxStamp => device[p] + 1 \in Stamps
  BY BoundsAssumption DEF Absent, Values, Stamps
<1>b. \A r \in {"value", "silent", "refused"} : r \in Replies
  BY DEF Replies
<1>c. Fault => faults' \in 0..MaxFaults
  BY BoundsAssumption DEF Fault
<1>1. ASSUME NEW p \in Paths, ExternalChange(p) PROVE TypeOK'
  BY <1>1, <1>a DEF ExternalChange
<1>2. CASE GetAnswered
  <2>1. op' \in Requests /\ op'.kind = op.kind /\ op'.path = op.path
    BY <1>2, <1>a, <1>b, AnswerTyped DEF GetAnswered
  <2>2. faults' \in 0..MaxFaults
    BY <1>2, <1>c DEF GetAnswered
  <2>3. QED
    BY <1>2, <2>1, <2>2 DEF GetAnswered
<1>3. CASE SetAnswered
  <2>1. device' \in [Paths -> Stamps]
    BY <1>3, <1>a DEF SetAnswered
  <2>2. device'[op.path] \in Values
    BY <1>3, <2>1, BoundsAssumption DEF SetAnswered, Stamps, Values
  <2>3. op' \in Requests /\ op'.kind = op.kind /\ op'.path = op.path
    BY <1>3, <1>a, <1>b, <2>2, AnswerTyped DEF SetAnswered
  <2>4. faults' \in 0..MaxFaults
    BY <1>3, <1>c DEF SetAnswered
  <2>5. QED
    BY <1>3, <2>1, <2>3, <2>4 DEF SetAnswered
<1>4. CASE ResetAnswered
  <2>1. device' \in [Paths -> Stamps] /\ floor' \in [Paths -> Values]
    BY <1>4, <1>a, BoundsAssumption DEF ResetAnswered, Stamps, Values
  <2>2. op' \in Requests /\ op'.kind = op.kind /\ op'.path = op.path
    BY <1>4, <1>a, <1>b, AnswerTyped DEF ResetAnswered
  <2>3. QED
    BY <1>4, <2>1, <2>2 DEF ResetAnswered
<1>5. QED
  BY <1>1, <1>2, <1>3, <1>4 DEF DeviceStep

\* So does every step of a poll cycle (_async_update_data).
LEMMA PollStepTyped == TypeOK /\ PollStep => TypeOK'
<1> SUFFICES ASSUME TypeOK, PollStep PROVE TypeOK'
  OBVIOUS
<1>a. \A kind \in {"get", "idle"} : kind \in Kinds
  BY DEF Kinds
<1>1. CASE StartPoll
  <2>1. NextCycle \in 0..(SlowEvery - 1)
    BY BoundsAssumption DEF TypeOK, NextCycle
  <2>2. PICK wanted \in SUBSET OptionalPaths :
          todo' = FastPathsFor(wanted) \cup (IF SlowIsDue THEN SlowPaths ELSE {})
    BY <1>1 DEF StartPoll
  <2>3. todo' \subseteq Paths
    BY <2>2, PathsAssumption DEF FastPathsFor, Paths
  <2>4. QED
    BY <1>1, <2>1, <2>3, NothingTyped DEF StartPoll, TypeOK, SlowIsDue, ghostVars
<1>2. ASSUME NEW p \in Paths, PollQuery(p) PROVE TypeOK'
  <2>1. op' \in Requests /\ op'.path = p
    BY <1>2, <1>a, RequestTyped DEF PollQuery
  <2>2. QED
    BY <1>2, <2>1 DEF PollQuery, TypeOK, pollVars, cacheVars, ghostVars
<1>3. CASE PollReads
  BY <1>3, ReplyTyped, RequestTyped DEF PollReads, TypeOK, cacheVars
<1>4. CASE PollDiscarded
  <2>1. data' \in [Paths -> Values]
    BY <1>4, ReplyTyped DEF PollDiscarded, LastReply, TypeOK
  <2>2. QED
    BY <1>4, <2>1, NothingTyped, RequestTyped DEF PollDiscarded, EndPoll, TypeOK
<1>5. CASE PollSucceeds
  <2>1. slowData' \in [Paths -> Values] /\ Snapshot \in [Paths -> Values]
    BY <1>5, ReplyTyped DEF PollSucceeds, LastReply, TypeOK
  <2>2. data' \in [Paths -> Values]
    BY <1>5, <2>1, OverlayTyped DEF PollSucceeds
  <2>3. pending' \in BOOLEAN
    BY <1>5, ReplyTyped DEF PollSucceeds, LastReply
  <2>4. QED
    BY <1>5, <2>1, <2>2, <2>3, NothingTyped, RequestTyped
       DEF PollSucceeds, EndPoll, TypeOK
<1>6. CASE PollUnanswered
  BY <1>6, NothingTyped, RequestTyped DEF PollUnanswered, EndPoll, TypeOK, cacheVars
<1>7. CASE PollFails
  <2>1. op' \in {op, Idle}
    BY <1>7 DEF PollFails
  <2>2. faults' \in 0..MaxFaults
    BY <1>7, BoundsAssumption DEF PollFails, Fault, TypeOK
  <2>3. QED
    BY <1>7, <2>1, <2>2, NothingTyped, RequestTyped DEF PollFails, EndPoll, TypeOK, cacheVars
<1>8. QED
  BY <1>1, <1>2, <1>3, <1>4, <1>5, <1>6, <1>7 DEF PollStep

\* So does every step of a write (_async_write).
LEMMA WriteStepTyped == TypeOK /\ WriteStep => TypeOK'
<1> SUFFICES ASSUME TypeOK, WriteStep PROVE TypeOK'
  OBVIOUS
<1> USE BoundsAssumption DEF TypeOK, Requests, Idle, Request, Kinds, Replies, Values, Absent,
        Fault, RequestReread, pollVars, cacheVars, ghostVars
<1>1. ASSUME NEW p \in Paths, UserSet(p) PROVE TypeOK'
  BY <1>1 DEF UserSet
<1>2. CASE SetConfirmed
  BY <1>2 DEF SetConfirmed, CacheWithConfirmed
<1>3. CASE SetUnconfirmed
  BY <1>3 DEF SetUnconfirmed
<1>4. CASE SetLost
  BY <1>4 DEF SetLost
<1>5. CASE SetRefused
  BY <1>5 DEF SetRefused
<1>6. QED
  BY <1>1, <1>2, <1>3, <1>4, <1>5 DEF WriteStep

\* So does every step of a factory reset.
LEMMA ResetStepTyped == TypeOK /\ ResetStep => TypeOK'
<1> SUFFICES ASSUME TypeOK, ResetStep PROVE TypeOK'
  OBVIOUS
<1> USE BoundsAssumption DEF TypeOK, Requests, Idle, Request, Kinds, Replies, Values, Absent, Nothing,
        Fault, Invalidate, pollVars, cacheVars, ghostVars
<1>1. CASE ResetPressed
  BY <1>1 DEF ResetPressed
<1>2. CASE ResetConfirmed
  BY <1>2 DEF ResetConfirmed
<1>3. CASE ResetLost
  BY <1>3 DEF ResetLost
<1>4. CASE ResetRefused
  BY <1>4 DEF ResetRefused
<1>5. QED
  BY <1>1, <1>2, <1>3, <1>4 DEF ResetStep

\* And so does a step of something else.
LEMMA StutterTyped == TypeOK /\ UNCHANGED vars => TypeOK'
  BY DEF TypeOK, vars, pollVars, cacheVars, ghostVars

\* Every variable of the coordinator keeps its type, for every set of paths.
THEOREM TypeCorrect == Spec => []TypeOK
<1>1. TypeOK /\ [Next]_vars => TypeOK'
  BY DeviceStepTyped, PollStepTyped, WriteStepTyped, ResetStepTyped, StutterTyped
     DEF Next
<1>2. QED
  BY InitTyped, <1>1, PTL DEF Spec

(***************************************************************************)
(* The invariant is inductive.                                             *)
(***************************************************************************)

\* Stamps are numbers; said once so that the provers can compare them.
LEMMA StampsAreNumbers ==
  ASSUME TypeOK
  PROVE  /\ Absent = 0
         /\ op.stamp \in Nat
         /\ \A p \in Paths : /\ device[p] \in Nat /\ device[p] > 0
                             /\ data[p] \in Nat /\ slowData[p] \in Nat
                             /\ confirmed[p] \in Nat /\ merged[p] \in Nat
                             /\ floor[p] \in Nat /\ lastConfirmed[p] \in Nat
<1>1. Values \subseteq Nat /\ Absent = 0
  BY BoundsAssumption DEF Values, Absent
<1>2. \A s \in Stamps : s \in Nat /\ s > 0
  BY BoundsAssumption DEF Stamps
<1>3. op.stamp \in Values
  BY DEF TypeOK, Requests
<1>4. QED
  BY <1>1, <1>2, <1>3 DEF TypeOK

\* The same after a step that keeps the types.
LEMMA NextStampsAreNumbers ==
  ASSUME TypeOK'
  PROVE  /\ Absent = 0
         /\ op'.stamp \in Nat
         /\ \A p \in Paths : /\ device'[p] \in Nat /\ device'[p] > 0
                             /\ data'[p] \in Nat /\ slowData'[p] \in Nat
                             /\ confirmed'[p] \in Nat /\ merged'[p] \in Nat
                             /\ floor'[p] \in Nat /\ lastConfirmed'[p] \in Nat
<1>1. Values \subseteq Nat /\ Absent = 0
  BY BoundsAssumption DEF Values, Absent
<1>2. \A s \in Stamps : s \in Nat /\ s > 0
  BY BoundsAssumption DEF Stamps
<1>3. op'.stamp \in Values
  BY DEF TypeOK, Requests
<1>4. QED
  BY <1>1, <1>2, <1>3 DEF TypeOK

\* The freshly built coordinator satisfies the inductive invariant.
LEMMA InitKeeps == Init => IInv
<1> SUFFICES ASSUME Init PROVE IInv
  OBVIOUS
<1>1. TypeOK
  BY InitTyped
<1>2. \A p \in Paths : Nothing[p] = 0 /\ device[p] = 1
  BY DEF Init, Nothing, Absent
<1>3. op = Idle /\ op.kind = "idle" /\ op.reply = "none" /\ op.stamp = Absent
  BY DEF Init, Idle, Request
<1>4. /\ NothingFromTheFuture /\ CacheLeads /\ CycleLeads /\ ResetRespected
  BY <1>2 DEF Init, NothingFromTheFuture, CacheLeads, ConfirmedKept, CycleLeads,
              ResetRespected, Absent
<1>5. ReplyIsCurrent /\ RereadServed /\ CountersGrow
  BY <1>3 DEF Init, ReplyIsCurrent, RereadServed, RereadStaysDue, CountersGrow
<1>6. QED
  BY <1>1, <1>4, <1>5 DEF IInv

\* What the reply at hand adds to the cycle keeps the cycle ahead of all that is
\* held, and so does the snapshot a finished cycle publishes.
LEMMA ReplyLeads ==
  ASSUME IInv, PollHasReply
  PROVE  /\ op.path \in Paths /\ polling /\ op.path \in todo
         /\ \A p \in Paths :
              /\ MergedNow[p] <= device[p]
              /\ MergedNow[p] # Absent /\ confirmed[p] = Absent =>
                   MergedNow[p] >= data[p] /\ MergedNow[p] >= lastConfirmed[p]
              /\ Snapshot[p] <= device[p]
              /\ Snapshot[p] # Absent =>
                   Snapshot[p] >= data[p] /\ Snapshot[p] >= lastConfirmed[p]
         /\ includeSlow /\ genAtStart = generation =>
              \A p \in Paths :
                 /\ MergedNow[p] # Absent /\ confirmed[p] = Absent => MergedNow[p] >= floor[p]
                 /\ Snapshot[p] # Absent => Snapshot[p] >= floor[p]
<1> USE StampsAreNumbers DEF IInv
<1>1. op.path \in Paths /\ polling /\ op.path \in todo
  BY ReplyTyped DEF PollHasReply, ReplyIsCurrent
<1>2. \A p \in Paths : MergedNow[p] = IF p = op.path THEN op.stamp ELSE merged[p]
  BY <1>1 DEF MergedNow, TypeOK
<1>3. \A p \in Paths :
        Snapshot[p] = IF confirmed[p] # Absent THEN confirmed[p] ELSE MergedNow[p]
  BY DEF Snapshot, Overlay
<1>4. op.stamp # Absent =>
        /\ op.stamp <= device[op.path]
        /\ op.stamp >= data[op.path]
        /\ op.stamp >= lastConfirmed[op.path]
        /\ op.stamp >= floor[op.path]
  BY DEF PollHasReply, ReplyIsCurrent
<1>5. \A p \in Paths :
        /\ MergedNow[p] <= device[p]
        /\ MergedNow[p] # Absent /\ confirmed[p] = Absent =>
             MergedNow[p] >= data[p] /\ MergedNow[p] >= lastConfirmed[p]
  BY <1>1, <1>2, <1>4 DEF CycleLeads
<1>6. \A p \in Paths :
        /\ Snapshot[p] <= device[p]
        /\ Snapshot[p] # Absent =>
             Snapshot[p] >= data[p] /\ Snapshot[p] >= lastConfirmed[p]
  BY <1>1, <1>3, <1>5 DEF CycleLeads, NothingFromTheFuture
<1>7. ASSUME includeSlow, genAtStart = generation
      PROVE  \A p \in Paths :
                /\ MergedNow[p] # Absent /\ confirmed[p] = Absent => MergedNow[p] >= floor[p]
                /\ Snapshot[p] # Absent => Snapshot[p] >= floor[p]
  <2>1. ResetSettled
    BY DEF ResetSettled, PollHasReply
  <2>2. \A p \in Paths :
           /\ confirmed[p] # Absent => confirmed[p] >= floor[p]
           /\ merged[p] # Absent /\ confirmed[p] = Absent => merged[p] >= floor[p]
    BY <1>1, <1>7, <2>1 DEF ResetRespected
  <2>3. \A p \in Paths :
           MergedNow[p] # Absent /\ confirmed[p] = Absent => MergedNow[p] >= floor[p]
    BY <1>2, <1>4, <2>2
  <2>4. QED
    BY <1>3, <2>2, <2>3
<1>8. QED
  BY <1>1, <1>5, <1>6, <1>7

\* A step that leaves the coordinator and the request alone keeps everything
\* that does not speak of the speaker; the speaker only moves forward.
LEMMA DeviceStepKeeps == IInv /\ DeviceStep => IInv'
<1> SUFFICES ASSUME IInv, DeviceStep PROVE IInv'
  OBVIOUS
<1> USE StampsAreNumbers, NextStampsAreNumbers
<1>t. TypeOK /\ TypeOK'
  BY DeviceStepTyped DEF IInv
<1>a. /\ UNCHANGED <<ready, confirmed, pollVars, cacheVars, lastConfirmed, owed, rereadDone>>
      /\ op'.kind = op.kind /\ op'.path = op.path
  BY <1>t, AnswerTyped, BoundsAssumption
     DEF DeviceStep, ExternalChange, GetAnswered, SetAnswered, ResetAnswered,
         Answer, ghostVars, TypeOK, Requests
<1>b. \A p \in Paths : device'[p] >= device[p]
  BY <1>t DEF DeviceStep, ExternalChange, GetAnswered, SetAnswered, ResetAnswered, TypeOK
<1>c. floor' # floor => op.kind = "reset" /\ op'.reply = "value" /\ floor' = device'
  BY <1>t DEF DeviceStep, ExternalChange, GetAnswered, SetAnswered, ResetAnswered,
              Answer, ghostVars, TypeOK, Requests
<1> USE DEF pollVars, cacheVars
<1>1. NothingFromTheFuture'
  <2>1. \A p \in Paths : floor'[p] <= device'[p]
    BY <1>t, <1>b, <1>c DEF IInv, NothingFromTheFuture
  <2>2. QED
    BY <1>t, <1>a, <1>b, <2>1 DEF IInv, NothingFromTheFuture
<1>2. ReplyIsCurrent'
  <2>1. CASE \E p \in Paths : ExternalChange(p)
    <3>1. op' = op /\ floor' = floor
      BY <2>1 DEF ExternalChange, ghostVars
    <3>2. QED
      BY <1>t, <1>a, <1>b, <3>1 DEF IInv, ReplyIsCurrent, TypeOK
  <2>2. CASE GetAnswered
    <3>1. device' = device /\ floor' = floor
      BY <2>2 DEF GetAnswered, ghostVars
    <3>2. op' = [op EXCEPT !.reply = op'.reply, !.stamp = op'.stamp]
      BY <2>2 DEF GetAnswered, Answer
    <3>3. op'.reply = "value" => op'.stamp = device[op.path]
      BY <1>t, <2>2 DEF GetAnswered, Answer, TypeOK, Requests
    <3>4. op'.reply # "value" => op'.stamp = Absent
      BY <1>t, <2>2 DEF GetAnswered, Answer, TypeOK, Requests
    <3>5. op.path \in Paths
      BY <1>t, <2>2 DEF GetAnswered, TypeOK
    <3>6. QED
      BY <1>t, <1>a, <3>1, <3>3, <3>4, <3>5 DEF IInv, ReplyIsCurrent, NothingFromTheFuture
  <2>3. CASE SetAnswered
    <3>1. op.path \in Paths /\ floor' = floor /\ op.kind = "set"
      BY <1>t, <2>3 DEF SetAnswered, TypeOK, ghostVars
    <3>2. op'.reply = "value" =>
             op'.stamp = device'[op.path] /\ device'[op.path] = device[op.path] + 1
      BY <1>t, <2>3, <3>1 DEF SetAnswered, Answer, TypeOK, Requests
    <3>3. op'.reply # "value" => op'.stamp = Absent
      BY <1>t, <2>3 DEF SetAnswered, Answer, TypeOK, Requests
    <3>4. QED
      BY <1>t, <1>a, <3>1, <3>2, <3>3 DEF IInv, ReplyIsCurrent, NothingFromTheFuture
  <2>4. CASE ResetAnswered
    <3>1. op.kind = "reset" /\ op'.stamp = Absent
      BY <1>t, <2>4 DEF ResetAnswered, Answer, TypeOK, Requests
    <3>2. QED
      BY <1>a, <3>1 DEF IInv, ReplyIsCurrent
  <2>5. QED
    BY <2>1, <2>2, <2>3, <2>4 DEF DeviceStep
<1>3. CacheLeads'
  BY <1>a DEF IInv, CacheLeads, ConfirmedKept
<1>4. CycleLeads'
  BY <1>t, <1>a, <1>b DEF IInv, CycleLeads
<1>5. ResetRespected'
  <2>1. CASE floor' = floor
    <3>1. ResetSettled' => ResetSettled
      <4>1. CASE op.kind = "reset" /\ op.reply = "value"
        BY <4>1 DEF DeviceStep, ExternalChange, GetAnswered, SetAnswered, ResetAnswered,
                    ResetSettled
      <4>2. QED
        BY <4>1 DEF ResetSettled
    <3>2. QED
      BY <1>a, <2>1, <3>1 DEF IInv, ResetRespected
  <2>2. CASE floor' # floor
    BY <1>a, <1>c, <2>2 DEF ResetRespected, ResetSettled
  <2>3. QED
    BY <2>1, <2>2
<1>6. RereadServed' /\ CountersGrow'
  BY <1>a DEF IInv, RereadServed, RereadStaysDue, CountersGrow
<1>7. QED
  BY <1>t, <1>1, <1>2, <1>3, <1>4, <1>5, <1>6 DEF IInv

\* What the reset, the answer and the reread requests have to do with a cycle
\* that ends, whichever way it ends: nothing is left of it.
LEMMA EndPollKeeps ==
  ASSUME IInv, EndPoll, op'.kind \in {"idle", op.kind}, op'.kind # "get"
  PROVE  /\ CycleLeads'
         /\ genAtStart' = 0 /\ rereadsAtStart' = 0
         /\ ~polling' /\ ~includeSlow'
  BY DEF EndPoll, CycleLeads

\* Every step of a poll cycle keeps the inductive invariant.
LEMMA PollStepKeeps == IInv /\ PollStep => IInv'
<1> SUFFICES ASSUME IInv, PollStep PROVE IInv'
  OBVIOUS
<1> USE StampsAreNumbers, NextStampsAreNumbers
<1>t. TypeOK /\ TypeOK'
  BY PollStepTyped DEF IInv
<1>i. Idle.kind = "idle" /\ Idle.reply = "none" /\ Idle.stamp = Absent
  BY DEF Idle, Request
<1>1. CASE StartPoll
  <2>1. /\ UNCHANGED <<device, op, ready, data, slowData, generation, rereads,
                       floor, lastConfirmed, owed, rereadDone>>
        /\ polling' /\ genAtStart' = generation /\ rereadsAtStart' = rereads
        /\ pending' = SlowIsDue /\ includeSlow' = SlowIsDue
        /\ \A p \in Paths : merged'[p] = Absent /\ confirmed'[p] = Absent
    BY <1>1 DEF StartPoll, ghostVars, Nothing
  <2>2. includeSlow' => SlowPaths \subseteq todo'
    BY <1>1 DEF StartPoll
  <2>3. op.kind = "get" => op.path \in todo'
    BY <1>1 DEF StartPoll, IInv, ReplyIsCurrent
  <2>4. NothingFromTheFuture' /\ CacheLeads'
    BY <2>1 DEF IInv, NothingFromTheFuture, CacheLeads, ConfirmedKept
  <2>5. ReplyIsCurrent'
    BY <2>1, <2>3 DEF IInv, ReplyIsCurrent
  <2>6. CycleLeads'
    BY <1>t, <2>1 DEF CycleLeads
  <2>7. ResetRespected'
    BY <2>1 DEF IInv, ResetRespected, ResetSettled
  <2>8. RereadServed'
    BY <1>t, <2>1, <2>2 DEF IInv, RereadServed, RereadStaysDue, SlowIsDue, TypeOK
  <2>9. CountersGrow'
    BY <1>t, <2>1 DEF IInv, CountersGrow, TypeOK
  <2>10. QED
    BY <1>t, <2>4, <2>5, <2>6, <2>7, <2>8, <2>9 DEF IInv
<1>2. ASSUME NEW p \in Paths, PollQuery(p) PROVE IInv'
  <2>1. /\ UNCHANGED <<device, ready, confirmed, pollVars, cacheVars, ghostVars>>
        /\ polling /\ p \in todo
        /\ op' = Request("get", p) /\ op = Idle
    BY <1>2 DEF PollQuery
  <2>2. op'.kind = "get" /\ op'.path = p /\ op'.reply = "none" /\ op'.stamp = Absent
    BY <2>1 DEF Request
  <2>3. ResetSettled
    BY <1>i, <2>1 DEF ResetSettled
  <2> USE DEF pollVars, cacheVars, ghostVars
  <2>4. NothingFromTheFuture' /\ CacheLeads' /\ CycleLeads' /\ RereadServed' /\ CountersGrow'
    BY <2>1 DEF IInv, NothingFromTheFuture, CacheLeads, ConfirmedKept, CycleLeads,
                RereadServed, RereadStaysDue, CountersGrow
  <2>5. ReplyIsCurrent'
    BY <2>1, <2>2 DEF ReplyIsCurrent
  <2>6. ResetRespected'
    BY <2>1, <2>3 DEF IInv, ResetRespected
  <2>7. QED
    BY <1>t, <2>4, <2>5, <2>6 DEF IInv
<1>3. CASE PollReads
  <2>1. /\ UNCHANGED <<device, ready, confirmed, polling, includeSlow, genAtStart,
                       rereadsAtStart, cacheVars, floor, lastConfirmed, owed>>
        /\ op' = Idle /\ merged' = MergedNow
        /\ todo' = todo \ {op.path} /\ rereadDone' = rereadDone \cup ({op.path} \cap owed)
        /\ ResetSettled
    BY <1>3 DEF PollReads, RereadNow, PollHasReply, ResetSettled
  <2>2. /\ \A p \in Paths :
             /\ MergedNow[p] <= device[p]
             /\ MergedNow[p] # Absent /\ confirmed[p] = Absent =>
                  MergedNow[p] >= data[p] /\ MergedNow[p] >= lastConfirmed[p]
        /\ includeSlow /\ genAtStart = generation =>
             \A p \in Paths :
                MergedNow[p] # Absent /\ confirmed[p] = Absent => MergedNow[p] >= floor[p]
    BY <1>3, ReplyLeads DEF PollReads
  <2> USE DEF cacheVars
  <2>3. NothingFromTheFuture' /\ CacheLeads' /\ CountersGrow'
    BY <2>1 DEF IInv, NothingFromTheFuture, CacheLeads, ConfirmedKept, CountersGrow
  <2>4. ReplyIsCurrent'
    BY <1>i, <2>1 DEF ReplyIsCurrent
  <2>5. CycleLeads'
    BY <2>1, <2>2 DEF IInv, CycleLeads
  <2>6. ResetRespected'
    BY <2>1, <2>2 DEF IInv, ResetRespected
  <2>7. RereadServed'
    BY <2>1 DEF IInv, RereadServed, RereadStaysDue
  <2>8. QED
    BY <1>t, <2>3, <2>4, <2>5, <2>6, <2>7 DEF IInv
<1>4. CASE PollDiscarded
  <2>1. /\ UNCHANGED <<device, slowData, pending, generation, rereads, floor,
                       lastConfirmed, owed>>
        /\ op' = Idle /\ EndPoll /\ ready' /\ Invalidated
    BY <1>4 DEF PollDiscarded
  <2>2. ready /\ data' = data
    BY <1>t, <1>4, <2>1 DEF PollDiscarded, Invalidated, IInv, CountersGrow, TypeOK
  <2>3. CycleLeads' /\ genAtStart' = 0 /\ rereadsAtStart' = 0 /\ ~polling' /\ ~includeSlow'
    BY <1>i, <2>1, EndPollKeeps
  <2>4. ResetSettled
    BY <1>4 DEF PollDiscarded, LastReply, PollHasReply, ResetSettled
  <2>5. NothingFromTheFuture' /\ CacheLeads'
    BY <2>1, <2>2 DEF IInv, NothingFromTheFuture, CacheLeads, ConfirmedKept
  <2>6. ReplyIsCurrent' /\ ResetRespected' /\ RereadServed'
    BY <1>i, <2>1, <2>3, <2>4
       DEF IInv, ReplyIsCurrent, ResetRespected, RereadServed, RereadStaysDue
  <2>7. CountersGrow'
    BY <1>t, <2>1, <2>3 DEF CountersGrow, TypeOK
  <2>8. QED
    BY <1>t, <2>3, <2>5, <2>6, <2>7 DEF IInv
<1>5. CASE PollSucceeds
  <2>1. /\ UNCHANGED <<device, generation, rereads, floor, lastConfirmed>>
        /\ op' = Idle /\ EndPoll /\ ready' /\ PollHasReply /\ todo = {op.path}
        /\ includeSlow => genAtStart = generation
        /\ slowData' = (IF includeSlow THEN RefreshedSlowData ELSE slowData)
        /\ data' = Overlay(Snapshot, slowData')
        /\ pending' = (IF includeSlow THEN rereadsAtStart # rereads ELSE pending)
        /\ owed' = owed \ (rereadDone \cup ({op.path} \cap owed))
    BY <1>5 DEF PollSucceeds, LastReply, Invalidated, StillPending, RereadNow
  <2>2. CycleLeads' /\ genAtStart' = 0 /\ rereadsAtStart' = 0 /\ ~polling' /\ ~includeSlow'
    BY <1>i, <2>1, EndPollKeeps
  <2>3. \A p \in Paths :
          /\ slowData'[p] \in {slowData[p], Snapshot[p]}
          /\ slowData'[p] = Snapshot[p] /\ Snapshot[p] # Absent /\ slowData'[p] # slowData[p] =>
               includeSlow /\ p \in SlowPaths
          /\ includeSlow /\ p \in SlowPaths /\ Snapshot[p] # Absent => slowData'[p] = Snapshot[p]
          /\ slowData[p] # Absent => slowData'[p] # Absent
          /\ slowData'[p] = Absent => slowData[p] = Absent
    BY <2>1 DEF RefreshedSlowData
  <2>4. \A p \in Paths :
          data'[p] = IF slowData'[p] # Absent THEN slowData'[p] ELSE Snapshot[p]
    BY <2>1 DEF Overlay
  <2>5. \A p \in Paths :
          /\ Snapshot[p] <= device[p]
          /\ Snapshot[p] # Absent => Snapshot[p] >= data[p] /\ Snapshot[p] >= lastConfirmed[p]
          /\ includeSlow /\ Snapshot[p] # Absent => Snapshot[p] >= floor[p]
    BY <2>1, ReplyLeads
  <2>6. ResetSettled /\ op.kind = "get"
    BY <2>1 DEF PollHasReply, ResetSettled
  <2>7. NothingFromTheFuture'
    BY <1>t, <2>1, <2>3, <2>4, <2>5 DEF IInv, NothingFromTheFuture
  <2>8. CacheLeads'
    <3>1. \A p \in Paths : slowData'[p] # Absent =>
            /\ p \in SlowPaths
            /\ slowData'[p] >= data'[p]
            /\ slowData'[p] >= lastConfirmed[p]
      BY <1>t, <2>3, <2>4, <2>5 DEF IInv, CacheLeads, ConfirmedKept
    <3>2. \A p \in Paths : data'[p] # Absent => data'[p] >= lastConfirmed[p]
      BY <1>t, <3>1, <2>4, <2>5
    <3>3. QED
      BY <2>1, <3>1, <3>2 DEF CacheLeads, ConfirmedKept
  <2>9. ReplyIsCurrent'
    BY <1>i, <2>1 DEF ReplyIsCurrent
  <2>10. ResetRespected'
    <3>1. \A p \in Paths : slowData'[p] # Absent => slowData'[p] >= floor[p]
      BY <1>t, <2>3, <2>5, <2>6 DEF IInv, ResetRespected
    <3>2. QED
      BY <2>1, <2>2, <3>1 DEF ResetRespected
  <2>11. RereadServed'
    <3>1. CASE includeSlow /\ rereadsAtStart = rereads
      <4>1. owed \subseteq {op.path} \cup rereadDone
        BY <2>1, <3>1 DEF IInv, RereadServed, PollHasReply
      <4>2. owed' = {}
        BY <2>1, <4>1
      <4>3. QED
        BY <2>2, <4>2 DEF RereadServed, RereadStaysDue
    <3>2. CASE includeSlow /\ rereadsAtStart # rereads
      BY <2>1, <2>2, <3>2 DEF RereadServed, RereadStaysDue
    <3>3. CASE ~includeSlow
      BY <2>1, <2>2, <3>3 DEF IInv, RereadServed, RereadStaysDue
    <3>4. QED
      BY <3>1, <3>2, <3>3
  <2>12. CountersGrow'
    BY <1>t, <2>1, <2>2 DEF CountersGrow, TypeOK
  <2>13. QED
    BY <1>t, <2>2, <2>7, <2>8, <2>9, <2>10, <2>11, <2>12 DEF IInv
<1>6. CASE PollUnanswered \/ PollFails
  <2>1. /\ UNCHANGED <<device, ready, cacheVars, floor, lastConfirmed, owed>>
        /\ EndPoll
        /\ (op' = Idle /\ op.kind = "get") \/ (op' = op /\ op.kind # "get")
    <3>1. CASE PollUnanswered
      BY <3>1 DEF PollUnanswered, PollHasReply
    <3>2. CASE PollFails
      BY <3>2 DEF PollFails
    <3>3. QED
      BY <1>6, <3>1, <3>2
  <2>2. op'.kind \in {"idle", op.kind} /\ op'.kind # "get"
    BY <1>i, <2>1
  <2>3. CycleLeads' /\ genAtStart' = 0 /\ rereadsAtStart' = 0 /\ ~polling' /\ ~includeSlow'
    BY <2>1, <2>2, EndPollKeeps
  <2>4. ResetSettled' => ResetSettled
    BY <2>1 DEF ResetSettled
  <2> USE DEF cacheVars
  <2>5. NothingFromTheFuture' /\ CacheLeads'
    BY <2>1 DEF IInv, NothingFromTheFuture, CacheLeads, ConfirmedKept
  <2>6. ReplyIsCurrent'
    BY <1>i, <2>1 DEF IInv, ReplyIsCurrent
  <2>7. ResetRespected' /\ RereadServed'
    BY <2>1, <2>3, <2>4 DEF IInv, ResetRespected, RereadServed, RereadStaysDue
  <2>8. CountersGrow'
    BY <1>t, <2>1, <2>3 DEF IInv, CountersGrow, TypeOK
  <2>9. QED
    BY <1>t, <2>3, <2>5, <2>6, <2>7, <2>8 DEF IInv
<1>7. QED
  BY <1>1, <1>2, <1>3, <1>4, <1>5, <1>6 DEF PollStep

\* Every step of a write keeps it: a confirmed value is the newest there is of
\* its path, and an unconfirmed one asks for the path to be read again.
LEMMA WriteStepKeeps == IInv /\ WriteStep => IInv'
<1> SUFFICES ASSUME IInv, WriteStep PROVE IInv'
  OBVIOUS
<1> USE StampsAreNumbers, NextStampsAreNumbers
<1>t. TypeOK /\ TypeOK'
  BY WriteStepTyped DEF IInv
<1>i. Idle.kind = "idle" /\ Idle.reply = "none" /\ Idle.stamp = Absent
  BY DEF Idle, Request
<1>1. ASSUME NEW p \in Paths, UserSet(p) PROVE IInv'
  <2>1. /\ UNCHANGED <<device, ready, confirmed, pollVars, cacheVars, ghostVars>>
        /\ op' = Request("set", p) /\ op = Idle /\ ready
    BY <1>1 DEF UserSet
  <2>2. op'.kind = "set" /\ op'.reply = "none" /\ op'.stamp = Absent
    BY <2>1 DEF Request
  <2>3. ResetSettled
    BY <1>i, <2>1 DEF ResetSettled
  <2> USE DEF pollVars, cacheVars, ghostVars
  <2>4. NothingFromTheFuture' /\ CacheLeads' /\ CycleLeads' /\ RereadServed' /\ CountersGrow'
    BY <2>1 DEF IInv, NothingFromTheFuture, CacheLeads, ConfirmedKept, CycleLeads,
                RereadServed, RereadStaysDue, CountersGrow
  <2>5. ReplyIsCurrent' /\ ResetRespected'
    BY <2>1, <2>2, <2>3 DEF IInv, ReplyIsCurrent, ResetRespected
  <2>6. QED
    BY <1>t, <2>4, <2>5 DEF IInv
<1>2. CASE SetConfirmed
  <2> DEFINE q == op.path
             v == op.stamp
  <2>1. /\ UNCHANGED <<device, ready, pollVars, pending, generation, rereads,
                       floor, owed, rereadDone>>
        /\ op' = Idle /\ op.kind = "set" /\ ResetSettled
    BY <1>2 DEF SetConfirmed, ResetSettled
  <2>2. /\ q \in Paths /\ v # Absent
        /\ v <= device[q] /\ v >= data[q] /\ v >= lastConfirmed[q] /\ v >= floor[q]
    BY <1>t, <1>2 DEF SetConfirmed, TypeOK, IInv, ReplyIsCurrent
  <2>3. \A p \in Paths :
          /\ data'[p] = IF p = q THEN v ELSE data[p]
          /\ lastConfirmed'[p] = IF p = q THEN v ELSE lastConfirmed[p]
          /\ slowData'[p] = IF p = q /\ q \in SlowPaths THEN v ELSE slowData[p]
          /\ polling => confirmed'[p] = IF p = q THEN v ELSE confirmed[p]
    BY <1>t, <1>2 DEF SetConfirmed, CacheWithConfirmed, TypeOK
  <2> HIDE DEF q, v
  <2> USE DEF pollVars
  <2>4. NothingFromTheFuture'
    BY <1>t, <2>1, <2>2, <2>3 DEF IInv, NothingFromTheFuture
  <2>5. CacheLeads'
    BY <1>t, <2>1, <2>2, <2>3 DEF IInv, CacheLeads, ConfirmedKept
  <2>6. CycleLeads'
    BY <1>t, <2>1, <2>2, <2>3 DEF IInv, CycleLeads
  <2>7. ResetRespected'
    BY <1>t, <2>1, <2>2, <2>3 DEF IInv, ResetRespected
  <2>8. ReplyIsCurrent'
    BY <1>i, <2>1 DEF ReplyIsCurrent
  <2>9. RereadServed' /\ CountersGrow'
    BY <2>1 DEF IInv, RereadServed, RereadStaysDue, CountersGrow
  <2>10. QED
    BY <1>t, <2>4, <2>5, <2>6, <2>7, <2>8, <2>9 DEF IInv
<1>3. CASE SetUnconfirmed \/ SetLost
  <2>1. /\ UNCHANGED <<device, ready, confirmed, pollVars>>
        /\ op' = Idle /\ op.kind = "set" /\ RequestReread(op.path)
    BY <1>3 DEF SetUnconfirmed, SetLost
  <2>2. ResetSettled
    BY <2>1 DEF ResetSettled
  <2> USE DEF pollVars, RequestReread
  <2>3. NothingFromTheFuture' /\ CacheLeads' /\ CycleLeads'
    BY <2>1 DEF IInv, NothingFromTheFuture, CacheLeads, ConfirmedKept, CycleLeads
  <2>4. ReplyIsCurrent' /\ ResetRespected'
    BY <1>i, <2>1, <2>2 DEF IInv, ReplyIsCurrent, ResetRespected
  <2>5. RereadServed'
    <3>1. CASE op.path \in SlowPaths
      <4>1. rereads' = rereads + 1 /\ rereadsAtStart' = rereadsAtStart /\ pending'
        BY <1>t, <2>1, <3>1 DEF TypeOK
      <4>2. QED
        <5>1. rereadsAtStart <= rereads /\ rereads \in Nat /\ rereadsAtStart \in Nat
          BY <1>t DEF IInv, CountersGrow, TypeOK
        <5>2. rereadsAtStart' # rereads'
          BY <4>1, <5>1
        <5>3. QED
          BY <4>1, <5>2 DEF RereadServed, RereadStaysDue
    <3>2. CASE op.path \notin SlowPaths
      <4>1. owed' = owed /\ rereadDone' = rereadDone /\ rereads' = rereads
            /\ pending' = pending
        BY <1>t, <2>1, <3>2 DEF TypeOK
      <4>2. QED
        BY <2>1, <4>1 DEF IInv, RereadServed, RereadStaysDue
    <3>3. QED
      BY <3>1, <3>2
  <2>6. CountersGrow'
    BY <1>t, <2>1 DEF IInv, CountersGrow, TypeOK
  <2>7. QED
    BY <1>t, <2>3, <2>4, <2>5, <2>6 DEF IInv
<1>4. CASE SetRefused
  <2>1. /\ UNCHANGED <<device, ready, confirmed, pollVars, cacheVars, ghostVars>>
        /\ op' = Idle /\ op.kind = "set"
    BY <1>4 DEF SetRefused
  <2>2. ResetSettled
    BY <2>1 DEF ResetSettled
  <2> USE DEF pollVars, cacheVars, ghostVars
  <2>3. NothingFromTheFuture' /\ CacheLeads' /\ CycleLeads' /\ RereadServed' /\ CountersGrow'
    BY <2>1 DEF IInv, NothingFromTheFuture, CacheLeads, ConfirmedKept, CycleLeads,
                RereadServed, RereadStaysDue, CountersGrow
  <2>4. ReplyIsCurrent' /\ ResetRespected'
    BY <1>i, <2>1, <2>2 DEF IInv, ReplyIsCurrent, ResetRespected
  <2>5. QED
    BY <1>t, <2>3, <2>4 DEF IInv
<1>5. QED
  BY <1>1, <1>2, <1>3, <1>4 DEF WriteStep

\* Every step of a factory reset keeps it: the cache is emptied and the running
\* cycle overtaken.
LEMMA ResetStepKeeps == IInv /\ ResetStep => IInv'
<1> SUFFICES ASSUME IInv, ResetStep PROVE IInv'
  OBVIOUS
<1> USE StampsAreNumbers, NextStampsAreNumbers
<1>t. TypeOK /\ TypeOK'
  BY ResetStepTyped DEF IInv
<1>i. Idle.kind = "idle" /\ Idle.reply = "none" /\ Idle.stamp = Absent
  BY DEF Idle, Request
<1>1. CASE ResetPressed \/ ResetRefused
  <2>1. /\ UNCHANGED <<device, ready, confirmed, pollVars, cacheVars, ghostVars>>
        /\ op'.kind # "get" /\ op'.reply = "none" /\ op'.stamp = Absent
        /\ ResetSettled /\ (op'.kind # "idle" => ready)
    <3>1. CASE ResetPressed
      BY <1>i, <3>1 DEF ResetPressed, Request, ResetSettled
    <3>2. CASE ResetRefused
      BY <1>i, <3>2 DEF ResetRefused, ResetSettled
    <3>3. QED
      BY <1>1, <3>1, <3>2
  <2> USE DEF pollVars, cacheVars, ghostVars
  <2>2. NothingFromTheFuture' /\ CacheLeads' /\ CycleLeads' /\ RereadServed' /\ CountersGrow'
    BY <2>1 DEF IInv, NothingFromTheFuture, CacheLeads, ConfirmedKept, CycleLeads,
                RereadServed, RereadStaysDue, CountersGrow
  <2>3. ReplyIsCurrent' /\ ResetRespected'
    BY <2>1 DEF IInv, ReplyIsCurrent, ResetRespected
  <2>4. QED
    BY <1>t, <2>2, <2>3 DEF IInv
<1>2. CASE ResetConfirmed \/ ResetLost
  <2>1. /\ UNCHANGED <<device, ready, confirmed, pollVars, ghostVars, data, rereads>>
        /\ op' = Idle /\ pending' /\ generation' = generation + 1
        /\ \A p \in Paths : slowData'[p] = Absent
    BY <1>2 DEF ResetConfirmed, ResetLost, Invalidate, Nothing
  <2>2. ready /\ genAtStart' # generation'
    <3>1. generation' \in Nat /\ generation \in Nat /\ genAtStart \in Nat
      BY <1>t DEF TypeOK
    <3>2. genAtStart' # generation'
      BY <2>1, <3>1 DEF pollVars, IInv, CountersGrow
    <3>3. ready
      BY <1>2 DEF ResetConfirmed, ResetLost, IInv, ReplyIsCurrent
    <3>4. QED
      BY <3>2, <3>3
  <2> USE DEF pollVars, ghostVars
  <2>3. NothingFromTheFuture' /\ CacheLeads' /\ CycleLeads'
    BY <1>t, <2>1 DEF IInv, NothingFromTheFuture, CacheLeads, ConfirmedKept, CycleLeads
  <2>4. ReplyIsCurrent' /\ ResetRespected' /\ RereadServed'
    BY <1>i, <2>1, <2>2 DEF IInv, ReplyIsCurrent, ResetRespected, RereadServed, RereadStaysDue
  <2>5. CountersGrow'
    BY <1>t, <2>1, <2>2 DEF IInv, CountersGrow, TypeOK
  <2>6. QED
    BY <1>t, <2>3, <2>4, <2>5 DEF IInv
<1>3. QED
  BY <1>1, <1>2 DEF ResetStep

\* A step of something else keeps it.
LEMMA StutterKeeps == IInv /\ UNCHANGED vars => IInv'
  BY StutterTyped
     DEF IInv, vars, pollVars, cacheVars, ghostVars, NothingFromTheFuture, ReplyIsCurrent,
         CacheLeads, ConfirmedKept, CycleLeads, ResetRespected, ResetSettled,
         RereadServed, RereadStaysDue, CountersGrow

\* Every step of the specification keeps it.
LEMMA StepKeeps == IInv /\ [Next]_vars => IInv'
  BY DeviceStepKeeps, PollStepKeeps, WriteStepKeeps, ResetStepKeeps, StutterKeeps DEF Next

\* The inductive invariant holds in every reachable state.
LEMMA InvariantHolds == Spec => []IInv
  BY InitKeeps, StepKeeps, PTL DEF Spec

(***************************************************************************)
(* What follows from the invariant.                                        *)
(***************************************************************************)

\* The slow cache never holds a value from before a factory reset that has been
\* dealt with (async_invalidate_and_refresh, the generation check).
THEOREM CacheAfterResetHolds == Spec => []CacheAfterReset
<1>1. IInv => CacheAfterReset
  BY DEF IInv, ResetRespected, ResetSettled, CacheAfterReset
<1>2. QED
  BY InvariantHolds, <1>1, PTL

\* A value the speaker confirmed is never covered by an older one
\* (apply_confirmed_value, the overlay of _async_update_data).
THEOREM ConfirmedKeptHolds == Spec => []ConfirmedKept
<1>1. IInv => ConfirmedKept
  BY DEF IInv, CacheLeads
<1>2. QED
  BY InvariantHolds, <1>1, PTL

\* A reread somebody asked for is not used up by a cycle that had already read
\* the path (request_reread).
THEOREM RereadStaysDueHolds == Spec => []RereadStaysDue
<1>1. IInv => RereadStaysDue
  BY DEF IInv, RereadServed
<1>2. QED
  BY InvariantHolds, <1>1, PTL

\* The steps that change what is shown, and what they show instead.
LEMMA DataChanges ==
  ASSUME IInv, Next, data' # data
  PROVE  PollDiscarded \/ PollSucceeds \/ SetConfirmed
  BY DEF Next, DeviceStep, PollStep, WriteStep, ResetStep, ExternalChange, GetAnswered,
         SetAnswered, ResetAnswered, StartPoll, PollQuery, PollReads, PollUnanswered, PollFails,
         UserSet, SetUnconfirmed, SetLost, SetRefused, RequestReread, ResetPressed,
         ResetConfirmed, ResetLost, ResetRefused, Invalidate, cacheVars

\* What an entity shows is only ever replaced by something as new or newer.
THEOREM ViewMovesForwardHolds == Spec => ViewMovesForward
<1> DEFINE Forward == \A p \in Paths :
                        data[p] # Absent /\ data'[p] # Absent => data'[p] >= data[p]
<1>1. IInv /\ [Next]_vars => [Forward]_vars
  <2> SUFFICES ASSUME IInv, Next PROVE Forward
    OBVIOUS
  <2> USE StampsAreNumbers
  <2>t. TypeOK
    BY DEF IInv
  <2>1. CASE data' = data
    BY <2>t, <2>1
  <2>2. CASE PollDiscarded
    BY <2>t, <2>2 DEF PollDiscarded, Invalidated, IInv, CountersGrow, TypeOK
  <2>3. CASE PollSucceeds
    <3>1. \A p \in Paths :
            data'[p] = IF slowData'[p] # Absent THEN slowData'[p] ELSE Snapshot[p]
      BY <2>3 DEF PollSucceeds, Overlay
    <3>2. \A p \in Paths : slowData'[p] \in {slowData[p], Snapshot[p]}
      BY <2>3 DEF PollSucceeds, RefreshedSlowData
    <3>3. \A p \in Paths : Snapshot[p] # Absent => Snapshot[p] >= data[p]
      BY <2>3, ReplyLeads DEF PollSucceeds, LastReply
    <3>4. \A p \in Paths : slowData[p] # Absent => slowData[p] >= data[p]
      BY DEF IInv, CacheLeads
    <3>5. QED
      BY <2>t, <3>1, <3>2, <3>3, <3>4
  <2>4. CASE SetConfirmed
    BY <2>t, <2>4 DEF SetConfirmed, IInv, ReplyIsCurrent, TypeOK
  <2>5. QED
    BY <2>1, <2>2, <2>3, <2>4, DataChanges
<1>2. QED
  BY InvariantHolds, <1>1, PTL DEF Spec, ViewMovesForward

\* A slow value that is known stays known, outside a reset, and so does what is
\* shown of it (_refresh_slow_cache).
THEOREM SlowValueStaysKnownHolds == Spec => SlowValueStaysKnown
<1> DEFINE Known == \A p \in SlowPaths :
             /\ slowData[p] # Absent => slowData'[p] # Absent \/ generation' # generation
             /\ slowData[p] # Absent /\ data[p] # Absent => data'[p] # Absent
<1>1. IInv /\ [Next]_vars => [Known]_vars
  <2> SUFFICES ASSUME IInv, Next PROVE Known
    OBVIOUS
  <2> USE StampsAreNumbers
  <2>t. TypeOK /\ \A p \in SlowPaths : p \in Paths
    BY DEF IInv, Paths
  <2>1. CASE SetConfirmed
    <3>1. op.stamp # Absent /\ op.path \in Paths
      BY <2>t, <2>1 DEF SetConfirmed, IInv, ReplyIsCurrent, TypeOK
    <3>2. \A p \in Paths : /\ data'[p] \in {op.stamp, data[p]}
                           /\ slowData'[p] \in {op.stamp, slowData[p]}
      BY <2>t, <2>1 DEF SetConfirmed, CacheWithConfirmed, TypeOK
    <3>3. QED
      BY <2>t, <3>1, <3>2
  <2>2. CASE PollSucceeds
    <3>1. \A p \in Paths :
            data'[p] = IF slowData'[p] # Absent THEN slowData'[p] ELSE Snapshot[p]
      BY <2>2 DEF PollSucceeds, Overlay
    <3>2. \A p \in Paths : slowData[p] # Absent => slowData'[p] # Absent
      BY <2>2 DEF PollSucceeds, RefreshedSlowData
    <3>3. QED
      BY <2>t, <3>1, <3>2
  <2>3. CASE PollDiscarded
    BY <2>t, <2>3 DEF PollDiscarded, Invalidated, IInv, CountersGrow, TypeOK
  <2>4. CASE ResetConfirmed \/ ResetLost
    <3>1. generation \in Nat /\ generation' = generation + 1 /\ data' = data
      BY <2>t, <2>4 DEF ResetConfirmed, ResetLost, Invalidate, TypeOK
    <3>2. QED
      BY <3>1
  <2>5. CASE UNCHANGED <<data, slowData>>
    BY <2>5
  <2>6. QED
    BY <2>1, <2>2, <2>3, <2>4, <2>5
       DEF Next, DeviceStep, PollStep, WriteStep, ResetStep, ExternalChange, GetAnswered,
           SetAnswered, ResetAnswered, StartPoll, PollQuery, PollReads, PollUnanswered,
           PollFails, UserSet, SetUnconfirmed, SetLost, SetRefused, RequestReread,
           ResetPressed, ResetRefused, cacheVars
<1>2. QED
  BY InvariantHolds, <1>1, PTL DEF Spec, SlowValueStaysKnown

(***************************************************************************)
(* The coordinator implements SpeakerView.                                 *)
(***************************************************************************)

Kept == {p \in SlowPaths : slowData[p] # Absent}
viewVars == <<device, data, lastConfirmed, Kept>>

\* What the slow cache has is what is shown.
KeptIsShown ==
    \A p \in Paths : slowData[p] # Absent => ready /\ data[p] = slowData[p]

\* The steps that touch what the view is made of, apart from the speaker.
LEMMA ViewChanges ==
  ASSUME Next, ~PollDiscarded, ~PollSucceeds, ~SetConfirmed, ~ResetConfirmed, ~ResetLost
  PROVE  UNCHANGED <<data, slowData, lastConfirmed>> /\ (ready => ready')
  BY DEF Next, DeviceStep, PollStep, WriteStep, ResetStep, ExternalChange, GetAnswered,
         SetAnswered, ResetAnswered, StartPoll, PollQuery, PollReads, PollUnanswered, PollFails,
         UserSet, SetUnconfirmed, SetLost, SetRefused, RequestReread, ResetPressed,
         ResetRefused, cacheVars, ghostVars

\* The speaker's stamps only grow.
LEMMA SpeakerMovesForward ==
  ASSUME IInv, Next
  PROVE  \A p \in Paths : device'[p] >= device[p]
<1> USE StampsAreNumbers
<1>t. TypeOK
  BY DEF IInv
<1>1. CASE device' = device
  BY <1>t, <1>1
<1>2. CASE \E p \in Paths : device' = [device EXCEPT ![p] = device[p] + 1]
  BY <1>t, <1>2 DEF TypeOK
<1>3. CASE device' = [p \in Paths |-> device[p] + 1]
  BY <1>t, <1>3
<1>4. QED
  BY <1>1, <1>2, <1>3, <1>t
     DEF Next, DeviceStep, PollStep, WriteStep, ResetStep, ExternalChange, GetAnswered,
         SetAnswered, ResetAnswered, StartPoll, PollQuery, PollReads, PollDiscarded,
         PollSucceeds, PollUnanswered, PollFails, UserSet, SetConfirmed, SetUnconfirmed,
         SetLost, SetRefused, ResetPressed, ResetConfirmed, ResetLost, ResetRefused,
         TypeOK, Requests

\* What a cycle that succeeds shows and keeps of each path.
LEMMA SuccessShows ==
  ASSUME IInv, PollSucceeds, NEW p \in Paths
  PROVE  /\ data'[p] = IF slowData'[p] # Absent THEN slowData'[p] ELSE Snapshot[p]
         /\ \/ slowData'[p] = slowData[p]
            \/ p \in SlowPaths /\ slowData'[p] = Snapshot[p] /\ Snapshot[p] # Absent
         /\ slowData[p] # Absent => slowData'[p] # Absent
  BY DEF PollSucceeds, Overlay, RefreshedSlowData

\* A cycle overtaken by a reset changes nothing of the view.
LEMMA DiscardShowsNothing ==
  ASSUME IInv, PollDiscarded
  PROVE  ready /\ ready' /\ UNCHANGED <<device, data, slowData, lastConfirmed>>
<1>1. ready
  BY DEF PollDiscarded, Invalidated, IInv, CountersGrow, TypeOK
<1>2. QED
  BY <1>1 DEF PollDiscarded

\* What a confirmed write shows.
LEMMA ConfirmationShows ==
  ASSUME IInv, SetConfirmed
  PROVE  /\ op.path \in Paths /\ ready /\ ready'
         /\ op.stamp # Absent /\ op.stamp <= device[op.path]
         /\ op.stamp >= data[op.path] /\ op.stamp >= lastConfirmed[op.path]
         /\ data' = [data EXCEPT ![op.path] = op.stamp]
         /\ lastConfirmed' = [lastConfirmed EXCEPT ![op.path] = op.stamp]
         /\ slowData' = CacheWithConfirmed
         /\ UNCHANGED device
  BY DEF SetConfirmed, IInv, TypeOK, ReplyIsCurrent

LEMMA KeptStaysShown == IInv /\ KeptIsShown /\ [Next]_vars => KeptIsShown'
<1> SUFFICES ASSUME IInv, KeptIsShown, [Next]_vars PROVE KeptIsShown'
  OBVIOUS
<1>t. TypeOK
  BY DEF IInv
<1>1. CASE SetConfirmed
  <2>1. \A p \in Paths :
          /\ data'[p] = IF p = op.path THEN op.stamp ELSE data[p]
          /\ p # op.path => slowData'[p] = slowData[p]
          /\ p = op.path /\ p \notin SlowPaths => slowData'[p] = Absent
          /\ p = op.path /\ p \in SlowPaths => slowData'[p] = op.stamp
    BY <1>t, <1>1, ConfirmationShows DEF IInv, CacheLeads, CacheWithConfirmed, TypeOK
  <2>2. ready'
    BY <1>1, ConfirmationShows
  <2>3. QED
    BY <2>1, <2>2 DEF KeptIsShown
<1>2. CASE PollSucceeds
  <2>1. ready'
    BY <1>2 DEF PollSucceeds
  <2>2. QED
    BY <1>2, <2>1, SuccessShows DEF KeptIsShown
<1>3. CASE PollDiscarded
  BY <1>3, DiscardShowsNothing DEF KeptIsShown
<1>4. CASE ResetConfirmed \/ ResetLost
  BY <1>4 DEF ResetConfirmed, ResetLost, Invalidate, Nothing, KeptIsShown
<1>5. CASE UNCHANGED vars
  BY <1>5 DEF vars, cacheVars, KeptIsShown
<1>6. QED
  BY <1>1, <1>2, <1>3, <1>4, <1>5, ViewChanges DEF KeptIsShown

\* A confirmed write is a confirmation of the view.
LEMMA WriteIsSeen ==
  ASSUME IInv, SetConfirmed
  PROVE  View!Next
<1>1. Kept' = Kept \cup ({op.path} \cap SlowPaths)
  <2>1. slowData \in [Paths -> Values]
    BY DEF IInv, TypeOK
  <2>2. QED
    BY <2>1, ConfirmationShows DEF CacheWithConfirmed, Kept, Paths
<1>2. data'[op.path] = op.stamp
  BY ConfirmationShows DEF IInv, TypeOK
<1>3. PICK p \in Paths : p = op.path
  BY ConfirmationShows
<1>4. View!Confirms(p)
  BY <1>1, <1>2, <1>3, ConfirmationShows DEF View!Confirms, View!Fresh, Kept
<1>5. QED
  BY <1>4 DEF View!Next

\* A cycle that succeeds is a publication.
LEMMA PollIsSeen ==
  ASSUME IInv, KeptIsShown, PollSucceeds
  PROVE  View!Next
<1> USE StampsAreNumbers
<1>t. TypeOK
  BY DEF IInv
<1>1. ASSUME NEW p \in Paths
      PROVE  \/ data'[p] = data[p]
             \/ View!Fresh(p, data'[p])
             \/ data'[p] = Absent /\ p \notin Kept
  <2>1. CASE slowData'[p] # Absent /\ slowData'[p] = slowData[p]
    BY <2>1, SuccessShows DEF KeptIsShown
  <2>2. CASE data'[p] = Snapshot[p] /\ Snapshot[p] # Absent
    <3>1. /\ Snapshot[p] <= device[p]
          /\ Snapshot[p] >= data[p] /\ Snapshot[p] >= lastConfirmed[p]
      BY <2>2, ReplyLeads DEF PollSucceeds, LastReply
    <3>2. QED
      BY <2>2, <3>1 DEF View!Fresh
  <2>3. CASE data'[p] = Absent
    BY <2>3, SuccessShows DEF Kept
  <2>4. QED
    BY <2>1, <2>2, <2>3, SuccessShows
<1>2. Kept \subseteq Kept' /\ Kept' \subseteq {p \in SlowPaths : data'[p] # Absent}
  BY SuccessShows DEF Kept, Paths
<1>3. View!Publishes
  BY <1>1, <1>2 DEF View!Publishes, PollSucceeds, Kept
<1>4. QED
  BY <1>3 DEF View!Next

\* Whatever is lost, confirmed, reset or changed while a cycle reads, the entities see
\* a SpeakerView: a late view of each path, never one that goes back, and none that
\* forgets a slow value (_async_update_data, apply_confirmed_value).
THEOREM ShowsTheSpeakerHolds == Spec => ShowsTheSpeaker
<1>1. Init => View!Init /\ KeptIsShown
  BY DEF Init, View!Init, Nothing, KeptIsShown, Absent, Paths
<1>2. IInv /\ KeptIsShown /\ [Next]_vars => [View!Next]_viewVars
  <2> SUFFICES ASSUME IInv, KeptIsShown, [Next]_vars PROVE [View!Next]_viewVars
    OBVIOUS
  <2>1. CASE SetConfirmed
    BY <2>1, WriteIsSeen
  <2>2. CASE PollSucceeds
    BY <2>2, PollIsSeen
  <2>3. CASE PollDiscarded
    BY <2>3, DiscardShowsNothing DEF viewVars, Kept
  <2>4. CASE ResetConfirmed \/ ResetLost
    <3>1. /\ \A p \in Paths : slowData'[p] = Absent
          /\ UNCHANGED <<device, data, lastConfirmed>>
      BY <2>4 DEF ResetConfirmed, ResetLost, Invalidate, Nothing, ghostVars
    <3>2. View!Forgets
      BY <3>1 DEF View!Forgets, Paths
    <3>3. QED
      BY <3>2 DEF View!Next
  <2>5. CASE UNCHANGED vars
    BY <2>5 DEF vars, cacheVars, ghostVars, viewVars, Kept
  <2>6. CASE Next /\ UNCHANGED <<data, slowData, lastConfirmed>>
    <3>1. View!Changes
      BY <2>6, SpeakerMovesForward DEF View!Changes
    <3>2. QED
      BY <3>1 DEF View!Next
  <2>7. QED
    BY <2>1, <2>2, <2>3, <2>4, <2>5, <2>6, ViewChanges
<1>3. QED
  BY <1>1, <1>2, KeptStaysShown, InvariantHolds, PTL
     DEF Spec, ShowsTheSpeaker, View!Spec, viewVars, Kept

(***************************************************************************)
(* On the way to agreement: what a cycle has read is shown, and what is    *)
(* shown stays.                                                            *)
(***************************************************************************)

\* The running cycle has the value the speaker has at present.
HasCurrent(p) ==
    /\ polling
    /\ \/ merged[p] = device[p]
       \/ op.kind = "get" /\ op.path = p /\ op.reply = "value" /\ op.stamp = device[p]

\* The cycle ends by showing, in place of what it has read, a value that was
\* confirmed before it read the path: the overlay cannot tell which came first.
ShowsConfirmed(p) ==
    PollSucceeds /\ confirmed[p] # Absent /\ confirmed[p] < device[p]
    /\ data'[p] = confirmed[p]

\* While the speaker keeps that value, only three things come between it and the
\* entities: a cycle that fails, one that a reset overtakes, and a value confirmed
\* earlier in the cycle (_poll_all_paths, _async_update_data).
ReadIsShown ==
    [][\A p \in Paths :
         HasCurrent(p) /\ device'[p] = device[p]
         => \/ HasCurrent(p)' \/ data'[p] = device[p]
            \/ PollFails \/ PollDiscarded \/ ShowsConfirmed(p)]_vars

\* An entity that agrees with the speaker does so for as long as the speaker does not
\* change, but for a value that is not cached, while its path is not answered.
AgreementLasts ==
    [][\A p \in Paths :
         data[p] = device[p] /\ device'[p] = device[p]
         => \/ data'[p] = device[p]
            \/ PollSucceeds /\ data'[p] = Absent /\ slowData[p] = Absent]_vars

\* A cycle asks for each path once, for slow ones only if it includes them, and no
\* write overtakes what it has read.
CycleAccounts ==
    polling =>
        /\ \A p \in Paths : merged[p] # Absent => p \notin todo /\ answered
        /\ ~includeSlow => \A p \in SlowPaths : p \notin todo /\ merged[p] = Absent
        /\ op.kind = "set" /\ op.reply = "value" => merged[op.path] <= op.stamp

LEMMA CycleAccountsKept == IInv /\ CycleAccounts /\ [Next]_vars => CycleAccounts'
<1> SUFFICES ASSUME IInv, CycleAccounts, [Next]_vars PROVE CycleAccounts'
  OBVIOUS
<1> USE StampsAreNumbers
<1>t. TypeOK
  BY DEF IInv
<1>1. CASE StartPoll
  <2>1. /\ merged' = Nothing /\ op' = op
        /\ includeSlow' = SlowIsDue
    BY <1>1 DEF StartPoll
  <2>2. ~SlowIsDue => \A p \in SlowPaths : p \notin todo'
    BY <1>1, PathsAssumption DEF StartPoll, FastPathsFor
  <2>3. \A p \in Paths : merged'[p] = Absent
    BY <2>1 DEF Nothing
  <2>4. op.kind = "set" => op.path \in Paths
    BY <1>t DEF TypeOK
  <2>5. QED
    BY <1>t, <2>1, <2>2, <2>3, <2>4 DEF CycleAccounts, Paths
<1>2. CASE PollReads
  <2>1. /\ op.path \in Paths /\ polling /\ op.path \in todo
    BY <1>2, ReplyLeads DEF PollReads
  <2>2. \A p \in Paths : merged'[p] = IF p = op.path THEN op.stamp ELSE merged[p]
    BY <1>t, <1>2, <2>1 DEF PollReads, MergedNow, TypeOK
  <2>3. op.stamp # Absent => answered'
    BY <1>2 DEF PollReads, PollHasReply, AnsweredNow, IInv, ReplyIsCurrent
  <2>4. op' = Idle /\ todo' = todo \ {op.path} /\ includeSlow' = includeSlow
        /\ (answered => answered')
    BY <1>2 DEF PollReads, AnsweredNow
  <2>5. QED
    BY <2>1, <2>2, <2>3, <2>4, RequestTyped DEF CycleAccounts, Paths
<1>3. CASE SetAnswered
  <2>1. op.path \in Paths
    BY <1>t, <1>3 DEF SetAnswered, TypeOK
  <2>2. op'.reply = "value" => op'.path = op.path /\ op'.stamp = device[op.path] + 1
    BY <1>t, <1>3, <2>1 DEF SetAnswered, Answer, TypeOK, Requests
  <2>3. polling => merged[op.path] <= device[op.path]
    BY <2>1 DEF IInv, CycleLeads
  <2>4. UNCHANGED <<polling, includeSlow, todo, merged, answered>>
    BY <1>3 DEF SetAnswered, pollVars
  <2>5. device[op.path] \in Nat /\ (polling => merged[op.path] \in Nat)
    BY <1>t, <2>1
  <2>6. polling' /\ op'.reply = "value" => merged'[op'.path] <= op'.stamp
    BY <2>2, <2>3, <2>4, <2>5
  <2>7. QED
    BY <2>4, <2>6 DEF CycleAccounts
<1>4. CASE PollDiscarded \/ PollSucceeds \/ PollUnanswered \/ PollFails
  BY <1>4 DEF PollDiscarded, PollSucceeds, PollUnanswered, PollFails, EndPoll, CycleAccounts
<1>5. CASE UNCHANGED <<polling, includeSlow, todo, merged, answered>>
           /\ (op'.kind = "set" /\ op'.reply = "value" => op' = op)
  BY <1>5 DEF CycleAccounts
<1>6. CASE GetAnswered \/ ResetAnswered
  <2>1. op'.kind = op.kind /\ op.kind # "set"
    BY <1>t, <1>6 DEF GetAnswered, ResetAnswered, Answer, TypeOK, Requests
  <2>2. QED
    BY <1>5, <1>6, <2>1 DEF GetAnswered, ResetAnswered, pollVars
<1>7. CASE (\E p \in Paths : PollQuery(p) \/ UserSet(p)) \/ ResetPressed
  <2>1. op'.reply = "none"
    BY <1>7 DEF PollQuery, UserSet, ResetPressed, Request
  <2>2. QED
    BY <1>5, <1>7, <2>1 DEF PollQuery, UserSet, ResetPressed, pollVars
<1>8. CASE SetConfirmed \/ SetUnconfirmed \/ SetLost \/ SetRefused
           \/ ResetConfirmed \/ ResetLost \/ ResetRefused
  BY <1>5, <1>8, RequestTyped
     DEF SetConfirmed, SetUnconfirmed, SetLost, SetRefused, ResetConfirmed, ResetLost,
         ResetRefused, pollVars
<1>9. CASE (\E p \in Paths : ExternalChange(p)) \/ UNCHANGED vars
  BY <1>5, <1>9 DEF ExternalChange, vars, pollVars
<1>10. QED
  BY <1>1, <1>2, <1>3, <1>4, <1>6, <1>7, <1>8, <1>9
     DEF Next, DeviceStep, PollStep, WriteStep, ResetStep

\* A cycle that ends well shows what it has, but for the overlay.
LEMMA SuccessShowsCurrent ==
  ASSUME IInv, CycleAccounts, PollSucceeds, NEW p \in Paths, HasCurrent(p)
  PROVE  data'[p] = device[p] \/ ShowsConfirmed(p)
<1> USE StampsAreNumbers
<1>t. TypeOK
  BY DEF IInv
<1>1. op.path \in Paths /\ polling /\ op.path \in todo
  BY ReplyLeads DEF PollSucceeds, LastReply
<1>2. MergedNow[p] = device[p]
  <2>1. MergedNow[p] = IF p = op.path THEN op.stamp ELSE merged[p]
    BY <1>t, <1>1 DEF MergedNow, TypeOK
  <2>2. merged[p] = device[p] => p # op.path
    BY <1>t, <1>1 DEF CycleAccounts
  <2>3. QED
    BY <2>1, <2>2 DEF HasCurrent
<1>3. /\ Snapshot[p] = IF confirmed[p] # Absent THEN confirmed[p] ELSE device[p]
      /\ Snapshot[p] # Absent
  BY <1>t, <1>2 DEF Snapshot, Overlay
<1>4. p \in SlowPaths => includeSlow
  <2>1. CASE merged[p] = device[p]
    BY <1>t, <1>1, <2>1 DEF CycleAccounts
  <2>2. CASE op.path = p
    BY <1>1, <2>2 DEF CycleAccounts
  <2>3. QED
    BY <2>1, <2>2 DEF HasCurrent
<1>5. slowData'[p] # Absent => slowData'[p] = Snapshot[p]
  <2>1. CASE p \in SlowPaths
    BY <1>3, <1>4, <2>1 DEF PollSucceeds, RefreshedSlowData
  <2>2. CASE p \notin SlowPaths
    BY <2>2, SuccessShows DEF IInv, CacheLeads
  <2>3. QED
    BY <2>1, <2>2
<1>6. data'[p] = Snapshot[p]
  BY <1>5, SuccessShows
<1>7. Snapshot[p] <= device[p] /\ confirmed[p] \in Nat /\ device[p] \in Nat
  BY <1>t, ReplyLeads DEF PollSucceeds, LastReply
<1>8. QED
  BY <1>3, <1>6, <1>7 DEF ShowsConfirmed

\* A cycle that goes on keeps what it has.
LEMMA CurrentIsKept ==
  ASSUME IInv, CycleAccounts, [Next]_vars, NEW p \in Paths, HasCurrent(p),
         device'[p] = device[p], ~PollSucceeds, ~PollFails, ~PollDiscarded
  PROVE  HasCurrent(p)' \/ data'[p] = device[p]
<1> USE StampsAreNumbers
<1>t. TypeOK
  BY DEF IInv
<1>1. CASE PollReads
  <2>1. op.path \in Paths /\ polling /\ op.path \in todo
    BY <1>1, ReplyLeads DEF PollReads
  <2>2. merged'[p] = IF p = op.path THEN op.stamp ELSE merged[p]
    BY <1>t, <1>1, <2>1 DEF PollReads, MergedNow, TypeOK
  <2>3. merged[p] = device[p] => p # op.path
    BY <1>t, <2>1 DEF CycleAccounts
  <2>4. UNCHANGED polling
    BY <1>1 DEF PollReads
  <2>5. QED
    BY <2>2, <2>3, <2>4 DEF HasCurrent
<1>2. CASE SetConfirmed
  <2>1. op.kind = "set" /\ op.reply = "value" /\ op.path \in Paths
    BY <1>2, ConfirmationShows DEF SetConfirmed
  <2>2. merged[p] = device[p]
    BY <2>1 DEF HasCurrent
  <2>3. UNCHANGED <<polling, merged>>
    BY <1>2 DEF SetConfirmed, pollVars
  <2>4. QED
    BY <2>2, <2>3 DEF HasCurrent
<1>3. CASE PollUnanswered
  <2>1. merged[p] = device[p] => answered
    BY <1>t DEF HasCurrent, CycleAccounts
  <2>2. QED
    BY <1>3, <2>1 DEF PollUnanswered, AnsweredNow, HasCurrent
<1>4. CASE UNCHANGED <<polling, merged>>
           /\ (op.kind = "get" /\ op.reply = "value" => op' = op)
  BY <1>4 DEF HasCurrent
<1>5. ~StartPoll
  BY DEF StartPoll, HasCurrent
<1>6. QED
  BY <1>1, <1>2, <1>3, <1>4, <1>5, <1>t
     DEF Next, DeviceStep, PollStep, WriteStep, ResetStep, ExternalChange, GetAnswered,
         SetAnswered, ResetAnswered, PollQuery, UserSet, SetUnconfirmed, SetLost,
         SetRefused, ResetPressed, ResetConfirmed, ResetLost, ResetRefused, Idle, Request,
         vars, pollVars

\* Half of what EventuallyAgrees takes, for every speaker: the value a cycle has read
\* is shown by the end of the cycle, unless the cycle fails, a reset overtakes it, the
\* speaker changes first, or a write to the same path was confirmed earlier in the
\* cycle, whose older value the overlay then shows instead.
THEOREM ReadIsShownHolds == Spec => ReadIsShown
<1>1. Init => CycleAccounts
  BY DEF Init, CycleAccounts
<1>2. IInv /\ CycleAccounts /\ [Next]_vars =>
        [\A p \in Paths :
           HasCurrent(p) /\ device'[p] = device[p]
           => \/ HasCurrent(p)' \/ data'[p] = device[p]
              \/ PollFails \/ PollDiscarded \/ ShowsConfirmed(p)]_vars
  BY SuccessShowsCurrent, CurrentIsKept
<1>3. QED
  BY <1>1, <1>2, CycleAccountsKept, InvariantHolds, PTL DEF Spec, ReadIsShown

\* The other half: an entity that agrees with the speaker goes on agreeing until the
\* speaker changes.  A cached value never drops out; another one does while its path
\* goes unanswered.
THEOREM AgreementLastsHolds == Spec => AgreementLasts
<1>1. IInv /\ KeptIsShown /\ [Next]_vars =>
        [\A p \in Paths :
           data[p] = device[p] /\ device'[p] = device[p]
           => \/ data'[p] = device[p]
              \/ PollSucceeds /\ data'[p] = Absent /\ slowData[p] = Absent]_vars
  <2> SUFFICES ASSUME IInv, KeptIsShown, Next, NEW p \in Paths, data[p] = device[p]
               PROVE  \/ data'[p] = device[p]
                      \/ PollSucceeds /\ data'[p] = Absent /\ slowData[p] = Absent
    OBVIOUS
  <2> USE StampsAreNumbers
  <2>t. TypeOK
    BY DEF IInv
  <2>1. CASE SetConfirmed
    <3>1. data'[p] = IF p = op.path THEN op.stamp ELSE data[p]
      BY <2>1, <2>t, ConfirmationShows DEF TypeOK
    <3>2. p = op.path => op.stamp = device[p]
      BY <2>1, <2>t, ConfirmationShows
    <3>3. QED
      BY <3>1, <3>2
  <2>2. CASE PollSucceeds
    <3>1. Snapshot[p] # Absent => Snapshot[p] = device[p]
      <4>1. PollHasReply
        BY <2>2 DEF PollSucceeds, LastReply
      <4>2. Snapshot[p] \in Nat
        BY <2>t, <4>1, ReplyTyped, BoundsAssumption DEF Values
      <4>3. QED
        BY <2>t, <4>1, <4>2, ReplyLeads
    <3>2. slowData[p] # Absent => slowData[p] = device[p]
      BY DEF KeptIsShown
    <3>3. QED
      BY <2>2, <3>1, <3>2, SuccessShows
  <2>3. CASE PollDiscarded
    BY <2>3, DiscardShowsNothing
  <2>4. CASE ResetConfirmed \/ ResetLost
    BY <2>4 DEF ResetConfirmed, ResetLost, Invalidate
  <2>5. QED
    BY <2>1, <2>2, <2>3, <2>4, ViewChanges
<1>2. Init => KeptIsShown
  BY DEF Init, Nothing, KeptIsShown
<1>3. QED
  BY <1>1, <1>2, KeptStaysShown, InvariantHolds, PTL DEF Spec, AgreementLasts

=============================================================================
