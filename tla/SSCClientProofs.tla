--------------------------- MODULE SSCClientProofs ---------------------------
(***************************************************************************)
(* Safety of one connection for every number of requests, every length of  *)
(* the answers and every bound of the reader, by one inductive invariant   *)
(* over the lines that are still to be read.                               *)
(***************************************************************************)
EXTENDS SSCClient, SequenceTheorems, TLAPS

(***************************************************************************)
(* The inductive invariant.                                                *)
(***************************************************************************)

\* What the client may still read, in the order in which it will.
Pending == buf \o owed

\* Every answer can be told from the others: by the drain, because no line of it
\* comes later, or by the id in each of its lines.
Distinguishes == Prompt \/ (EchoesXid /\ \A r \in Requests : CarriesXid(r))

\* Who is in the queue waits there, once, and is not inside the lock.
InTheQueue ==
    /\ holder \in Requests \cup {NoCaller}
    /\ phase = "idle" <=> holder = NoCaller
    /\ holder # NoCaller => outcome[holder] = "waiting"
    /\ \A i \in 1..Len(waiting) : outcome[waiting[i]] = "waiting" /\ waiting[i] # holder
    /\ \A i, j \in 1..Len(waiting) : waiting[i] = waiting[j] => i = j

\* A closed client has no connection and lets nobody in.
ClosedIsIdle ==
    /\ closed => phase = "idle" /\ conn = "none"
    /\ outcome[Closer] = "answered" => closed

\* A request whose answer may be on the connection: it is being read, or it was
\* returned to its caller.
Asked(r) == IF r = holder THEN phase = "read" ELSE outcome[r] \in {"answered", "rejected"}

\* What is known of every line.
EachLine ==
    \A i \in 1..Len(Pending) :
        /\ Pending[i].kind # "toolong"
        /\ \/ Pending[i].of \notin Requests /\ Pending[i].kind = "junk"
           \/ /\ Pending[i].of \in Requests /\ Asked(Pending[i].of)
              /\ EchoesXid /\ CarriesXid(Pending[i].of) => Pending[i].xid

\* Once a line of an answer echoes the id, so do the later ones.
InOrder ==
    \A i, j \in 1..Len(Pending) :
        /\ i <= j /\ Pending[i].of = Pending[j].of /\ Pending[i].of \in Requests
        /\ Pending[i].xid
        => Pending[j].xid

\* A line that could be taken for the answer to another request.
Unmarked(line) == line.of \in Requests /\ line.of # holder /\ ~line.xid

\* Such lines are there only until the next request is sent, and are drained first.
ToBeDrained ==
    /\ \A i \in 1..Len(Pending) :
         Unmarked(Pending[i]) => matchedByPath /\ phase \in {"idle", "connect", "drain"}
    /\ phase = "read" => matchedByPath

Base == TypeOK /\ InTheQueue /\ ClosedIsIdle /\ EachLine /\ InOrder

Told == Distinguishes => ToBeDrained /\ NoForeignAnswer

IInv == Base /\ Told

(***************************************************************************)
(* The lines that are to be read, as one sequence.                         *)
(***************************************************************************)

LEMMA PendingIsSeq ==
    ASSUME buf \in Seq(Lines), owed \in Seq(Lines)
    PROVE  /\ Pending \in Seq(Lines) /\ Len(Pending) = Len(buf) + Len(owed)
           /\ Len(buf) \in Nat /\ Len(owed) \in Nat
           /\ \A i \in 1..Len(buf) : Pending[i] = buf[i]
           /\ \A i \in 1..Len(owed) : Pending[Len(buf) + i] = owed[i]
           /\ \A i \in 1..Len(Pending) : Pending[i] \in Lines
BY ConcatProperties, LenProperties, ElementOfSeq DEF Pending

LEMMA OutstandingIsPending ==
    ASSUME buf \in Seq(Lines), owed \in Seq(Lines), NEW line \in Outstanding
    PROVE  \E i \in 1..Len(Pending) : line = Pending[i]
<1>1. CASE \E i \in DOMAIN buf : line = buf[i]
  <2>1. PICK i \in 1..Len(buf) : line = buf[i]
    BY <1>1, LenProperties
  <2>2. QED
    BY <2>1, PendingIsSeq
<1>2. CASE \E i \in DOMAIN owed : line = owed[i]
  <2>1. PICK i \in 1..Len(owed) : line = owed[i]
    BY <1>2, LenProperties
  <2>2. Len(buf) + i \in 1..Len(Pending) /\ line = Pending[Len(buf) + i]
    BY <2>1, PendingIsSeq
  <2>3. QED
    BY <2>2
<1>3. QED
  BY <1>1, <1>2 DEF Outstanding

\* The lines of the next state are some of these, in the same order, but for one
\* that may come in front and answers nothing.
FollowsBy(k) ==
    \A i \in 1..Len(Pending') :
        \/ i + k \in 1..Len(Pending) /\ Pending'[i] = Pending[i + k]
        \/ Pending'[i].of \notin Requests /\ Pending'[i].kind = "junk"

Follows == \E k \in Int : FollowsBy(k)

LEMMA NothingFollows ==
    ASSUME buf' = <<>>, owed' = <<>>
    PROVE  Pending' = <<>> /\ Len(Pending') = 0 /\ Follows
<1>1. Pending' = <<>> /\ Len(Pending') = 0
  BY DEF Pending
<1>2. FollowsBy(0)
  BY <1>1 DEF FollowsBy
<1>3. QED
  BY <1>1, <1>2 DEF Follows

LEMMA SameFollows ==
    ASSUME buf \in Seq(Lines), owed \in Seq(Lines), UNCHANGED <<buf, owed>>
    PROVE  Follows
<1>1. Pending' = Pending /\ Len(Pending) \in Nat
  BY PendingIsSeq DEF Pending
<1>2. FollowsBy(0)
  BY <1>1 DEF FollowsBy
<1>3. QED
  BY <1>2 DEF Follows

LEMMA RestFollows ==
    ASSUME buf \in Seq(Lines), owed \in Seq(Lines), buf # <<>>, buf' = Tail(buf), owed' = owed
    PROVE  Follows /\ Head(buf) = Pending[1] /\ 1 \in 1..Len(Pending) /\ Head(buf) \in Lines
           /\ buf' \in Seq(Lines)
           /\ \A i \in 1..Len(Pending') : i + 1 \in 1..Len(Pending) /\ Pending'[i] = Pending[i + 1]
<1>1. /\ Tail(buf) \in Seq(Lines) /\ Len(Tail(buf)) = Len(buf) - 1 /\ Head(buf) \in Lines
      /\ \A i \in 1..Len(Tail(buf)) : Tail(buf)[i] = buf[i + 1]
      /\ Len(buf) \in Nat /\ Len(buf) >= 1 /\ Head(buf) = buf[1]
  BY HeadTailProperties, EmptySeq
<1>2. /\ Len(Pending') = Len(Tail(buf)) + Len(owed)
      /\ \A i \in 1..Len(Pending') :
           Pending'[i] = IF i <= Len(Tail(buf)) THEN Tail(buf)[i] ELSE owed[i - Len(Tail(buf))]
  BY <1>1, ConcatProperties DEF Pending
<1>3. /\ Len(Pending) = Len(buf) + Len(owed) /\ Len(owed) \in Nat
      /\ \A i \in 1..Len(Pending) :
           Pending[i] = IF i <= Len(buf) THEN buf[i] ELSE owed[i - Len(buf)]
  BY ConcatProperties, LenProperties DEF Pending
<1>4. \A i \in 1..Len(Pending') : i + 1 \in 1..Len(Pending) /\ Pending'[i] = Pending[i + 1]
  BY <1>1, <1>2, <1>3
<1>5. FollowsBy(1)
  BY <1>4 DEF FollowsBy
<1>6. QED
  BY <1>1, <1>3, <1>4, <1>5 DEF Follows

LEMMA ArrivalFollows ==
    ASSUME buf \in Seq(Lines), owed \in Seq(Lines), owed # <<>>,
           buf' = Append(buf, Head(owed)), owed' = Tail(owed)
    PROVE  Follows /\ buf' \in Seq(Lines) /\ owed' \in Seq(Lines)
<1>1. /\ Head(owed) \in Lines /\ Tail(owed) \in Seq(Lines) /\ Len(Tail(owed)) = Len(owed) - 1
      /\ \A i \in 1..Len(Tail(owed)) : Tail(owed)[i] = owed[i + 1]
      /\ Len(owed) \in Nat /\ Len(owed) >= 1 /\ Head(owed) = owed[1]
  BY HeadTailProperties, EmptySeq
<1>2. /\ buf' \in Seq(Lines) /\ Len(buf') = Len(buf) + 1 /\ Len(buf) \in Nat
      /\ \A i \in 1..Len(buf) : buf'[i] = buf[i]
      /\ buf'[Len(buf) + 1] = owed[1]
  BY <1>1, AppendProperties, LenProperties
<1>3. /\ Len(Pending') = Len(buf') + Len(Tail(owed))
      /\ \A i \in 1..Len(Pending') :
           Pending'[i] = IF i <= Len(buf') THEN buf'[i] ELSE Tail(owed)[i - Len(buf')]
  BY <1>1, <1>2, ConcatProperties DEF Pending
<1>4. /\ Len(Pending) = Len(buf) + Len(owed)
      /\ \A i \in 1..Len(Pending) :
           Pending[i] = IF i <= Len(buf) THEN buf[i] ELSE owed[i - Len(buf)]
  BY ConcatProperties DEF Pending
<1>5. ASSUME NEW i \in 1..Len(Pending')
      PROVE  i \in 1..Len(Pending) /\ Pending'[i] = Pending[i]
  <2>1. CASE i <= Len(buf)
    BY <1>1, <1>2, <1>3, <1>4, <2>1
  <2>2. CASE i = Len(buf) + 1
    BY <1>1, <1>2, <1>3, <1>4, <2>2
  <2>3. CASE i > Len(buf) + 1
    <3>1. Pending'[i] = Tail(owed)[i - Len(buf')] /\ i - Len(buf') \in 1..Len(Tail(owed))
      BY <1>1, <1>2, <1>3, <2>3
    <3>2. Pending'[i] = owed[i - Len(buf') + 1]
      BY <1>1, <3>1
    <3>3. QED
      BY <1>1, <1>2, <1>3, <1>4, <2>3, <3>2
  <2>4. QED
    BY <1>2, <1>3, <2>1, <2>2, <2>3
<1>6. FollowsBy(0)
  BY <1>5 DEF FollowsBy
<1>7. QED
  BY <1>1, <1>2, <1>6 DEF Follows

LEMMA ChatterFollows ==
    ASSUME NEW line \in Lines, line.of = NoCaller, line.kind = "junk",
           owed \in Seq(Lines), buf = <<>>, buf' = <<line>>, owed' = owed
    PROVE  Follows /\ buf' \in Seq(Lines)
<1>1. /\ Len(buf') = 1 /\ buf'[1] = line /\ buf' \in Seq(Lines) /\ Len(owed) \in Nat
  BY LenProperties
<1>2. /\ Len(Pending') = 1 + Len(owed)
      /\ \A i \in 1..Len(Pending') : Pending'[i] = IF i <= 1 THEN line ELSE owed[i - 1]
  BY <1>1, ConcatProperties DEF Pending
<1>3. Pending = owed
  BY ConcatEmptySeq DEF Pending
<1>4. \A i \in 1..Len(Pending') :
        \/ i + (-1) \in 1..Len(Pending) /\ Pending'[i] = Pending[i + (-1)]
        \/ Pending'[i] = line
  BY <1>1, <1>2, <1>3
<1>5. FollowsBy(-1)
  BY <1>4, RequestsAssumption DEF FollowsBy
<1>6. QED
  BY <1>1, <1>5 DEF Follows

\* The connection ends in order: nothing more arrives.
LEMMA PrefixFollows ==
    ASSUME buf \in Seq(Lines), owed \in Seq(Lines), buf' = buf, owed' = <<>>
    PROVE  Follows
<1>1. Pending' = buf
  BY ConcatEmptySeq DEF Pending
<1>2. FollowsBy(0)
  BY <1>1, PendingIsSeq DEF FollowsBy
<1>3. QED
  BY <1>2 DEF Follows

\* Lines that stay or go take nothing away from what is known of them.
LEMMA FollowingKeeps ==
    ASSUME EachLine, InOrder, Len(Pending) \in Nat, Len(Pending') \in Nat, Follows,
           \A r \in Requests : Asked(r) => Asked(r)'
    PROVE  EachLine' /\ InOrder'
<1>1. PICK k \in Int : FollowsBy(k)
  BY DEF Follows
<1>2. EachLine'
  BY <1>1 DEF EachLine, FollowsBy, CarriesXid
<1>3. InOrder'
  <2> SUFFICES ASSUME NEW i \in 1..Len(Pending'), NEW j \in 1..Len(Pending'),
                      i <= j, Pending'[i].of = Pending'[j].of, Pending'[i].of \in Requests,
                      Pending'[i].xid
               PROVE  Pending'[j].xid
    BY DEF InOrder
  <2>1. /\ i + k \in 1..Len(Pending) /\ Pending'[i] = Pending[i + k]
        /\ j + k \in 1..Len(Pending) /\ Pending'[j] = Pending[j + k]
        /\ i + k <= j + k
    BY <1>1 DEF FollowsBy
  <2>2. QED
    BY <2>1 DEF InOrder
<1>4. QED
  BY <1>2, <1>3

\* And no line that could be mistaken is added.
LEMMA FollowingDrains ==
    ASSUME ToBeDrained, Follows,
           holder' = holder \/ holder = NoCaller,
           matchedByPath /\ phase \in {"idle", "connect", "drain"} =>
               matchedByPath' /\ phase' \in {"idle", "connect", "drain"},
           phase' = "read" => matchedByPath'
    PROVE  ToBeDrained'
<1>1. PICK k \in Int : FollowsBy(k)
  BY DEF Follows
<1>2. ASSUME NEW i \in 1..Len(Pending'), Unmarked(Pending[i])'
      PROVE  matchedByPath' /\ phase' \in {"idle", "connect", "drain"}
  <2>1. Pending'[i].of \in Requests /\ Pending'[i].of # holder' /\ ~Pending'[i].xid
    BY <1>2 DEF Unmarked
  <2>2. i + k \in 1..Len(Pending) /\ Pending'[i] = Pending[i + k]
    BY <1>1, <2>1 DEF FollowsBy
  <2>3. Unmarked(Pending[i + k])
    BY <2>1, <2>2, RequestsAssumption DEF Unmarked
  <2>4. QED
    BY <2>2, <2>3 DEF ToBeDrained
<1>3. QED
  BY <1>2 DEF ToBeDrained

LEMMA NothingToDrain ==
    ASSUME Len(Pending') = 0, phase' # "read" \/ matchedByPath'
    PROVE  EachLine' /\ InOrder' /\ ToBeDrained'
BY DEF EachLine, InOrder, ToBeDrained

(***************************************************************************)
(* It holds initially.                                                     *)
(***************************************************************************)

LEMMA InitHolds == Init => IInv
<1> SUFFICES ASSUME Init PROVE IInv
  OBVIOUS
<1>1. TypeOK
  <2>1. 0 \in 0..(IF MaxLines > MaxDrain THEN MaxLines ELSE MaxDrain)
    BY LinesAssumption
  <2>2. EmptyTree \in Trees
    BY DEF EmptyTree, Trees
  <2>3. /\ waiting \in Seq(Callers) /\ owed \in Seq(Lines) /\ buf \in Seq(Lines)
        /\ takenFrom \in [Requests -> SUBSET (Requests \cup {NoCaller})]
        /\ outcome \in [Callers -> Outcomes]
    BY DEF Init, Outcomes
  <2>4. QED
    BY <2>1, <2>2, <2>3 DEF Init, TypeOK, Phases
<1>2. Pending = <<>> /\ Len(Pending) = 0
  BY DEF Init, Pending
<1>3. InTheQueue /\ ClosedIsIdle
  BY DEF Init, InTheQueue, ClosedIsIdle, Callers
<1>4. EachLine /\ InOrder /\ ToBeDrained
  BY <1>2 DEF Init, EachLine, InOrder, ToBeDrained
<1>5. NoForeignAnswer
  BY DEF Init, NoForeignAnswer
<1>6. QED
  BY <1>1, <1>3, <1>4, <1>5 DEF IInv, Base, Told

(***************************************************************************)
(* The speaker and the network.                                            *)
(***************************************************************************)

LEMMA PeerStepKeeps ==
    ASSUME IInv, PeerStep
    PROVE  IInv'
<1>t. TypeOK
  BY DEF IInv, Base
<1>1. /\ UNCHANGED <<holder, waiting, phase, closed, matchedByPath, readVars, outcome>>
      /\ conn # "none" /\ conn' \in {"open", "eof", "reset"}
  BY <1>t DEF PeerStep, Arrives, Chatters, PeerCloses, PeerResets, TypeOK
<1>2. Follows /\ buf' \in Seq(Lines) /\ owed' \in Seq(Lines)
  <2>1. CASE Arrives
    BY <1>t, <2>1, ArrivalFollows DEF Arrives, TypeOK
  <2>2. CASE Chatters
    <3> DEFINE line == [of |-> NoCaller, xid |-> FALSE, kind |-> "junk"]
    <3>1. line \in Lines /\ line.of = NoCaller /\ line.kind = "junk"
      BY DEF Lines
    <3>2. owed \in Seq(Lines) /\ buf = <<>> /\ buf' = <<line>> /\ owed' = owed
      BY <1>t, <2>2 DEF Chatters, TypeOK
    <3> HIDE DEF line
    <3>3. QED
      BY <3>1, <3>2, ChatterFollows
  <2>3. CASE PeerCloses
    BY <1>t, <2>3, PrefixFollows DEF PeerCloses, TypeOK
  <2>4. CASE PeerResets
    BY <2>4, NothingFollows DEF PeerResets
  <2>5. QED
    BY <2>1, <2>2, <2>3, <2>4 DEF PeerStep
<1>3. TypeOK'
  BY <1>t, <1>1, <1>2 DEF TypeOK, readVars
<1>4. Len(Pending) \in Nat /\ Len(Pending') \in Nat
  BY <1>t, <1>2, PendingIsSeq DEF TypeOK, Pending
<1>5. EachLine' /\ InOrder'
  BY <1>1, <1>2, <1>4, FollowingKeeps DEF IInv, Base, Asked
<1>6. InTheQueue' /\ ClosedIsIdle'
  BY <1>1 DEF IInv, Base, InTheQueue, ClosedIsIdle
<1>7. Told'
  <2> SUFFICES ASSUME Distinguishes PROVE ToBeDrained' /\ NoForeignAnswer'
    BY DEF Told, Distinguishes
  <2>1. ToBeDrained /\ NoForeignAnswer
    BY DEF IInv, Told
  <2>2. ToBeDrained'
    BY <1>1, <1>2, <2>1, FollowingDrains DEF ToBeDrained
  <2>3. QED
    BY <1>1, <2>1, <2>2 DEF NoForeignAnswer, readVars
<1>8. QED
  BY <1>3, <1>5, <1>6, <1>7 DEF IInv, Base

(***************************************************************************)
(* The lock and its queue.                                                 *)
(***************************************************************************)

LEMMA CallsKeeps ==
    ASSUME IInv, NEW c \in Callers, Calls(c)
    PROVE  IInv'
<1>t. TypeOK
  BY DEF IInv, Base
<1>1. /\ UNCHANGED <<holder, phase, closed, connVars, readVars, buf, owed, conn, matchedByPath>>
      /\ outcome[c] = "new" /\ outcome' = [outcome EXCEPT ![c] = "waiting"]
      /\ waiting' = Append(waiting, c)
  BY DEF Calls, connVars
<1>2. /\ waiting' \in Seq(Callers) /\ Len(waiting') = Len(waiting) + 1 /\ Len(waiting) \in Nat
      /\ \A i \in 1..Len(waiting) : waiting'[i] = waiting[i] /\ waiting[i] \in Callers
      /\ waiting'[Len(waiting) + 1] = c
  BY <1>t, <1>1, AppendProperties, LenProperties, ElementOfSeq DEF TypeOK
<1>3. \A d \in Callers : outcome'[d] = IF d = c THEN "waiting" ELSE outcome[d]
  BY <1>t, <1>1 DEF TypeOK
<1>4. TypeOK'
  BY <1>t, <1>1, <1>2 DEF TypeOK, readVars, Outcomes
<1>5. InTheQueue'
  <2>1. holder \in Requests \cup {NoCaller} /\ (holder # NoCaller => holder # c)
    BY <1>1 DEF IInv, Base, InTheQueue
  <2>2. \A i \in 1..Len(waiting) : waiting[i] # c
    BY <1>1 DEF IInv, Base, InTheQueue
  <2>3. c # NoCaller
    BY RequestsAssumption DEF Callers
  <2>4. \A i \in 1..Len(waiting') : outcome'[waiting'[i]] = "waiting" /\ waiting'[i] # holder
    BY <1>2, <1>3, <2>1, <2>2, <2>3 DEF IInv, Base, InTheQueue
  <2>5. \A i, j \in 1..Len(waiting') : waiting'[i] = waiting'[j] => i = j
    BY <1>2, <2>2 DEF IInv, Base, InTheQueue
  <2>6. holder # NoCaller => outcome'[holder] = "waiting"
    BY <1>3, <2>1 DEF IInv, Base, InTheQueue, Callers
  <2>7. QED
    BY <1>1, <2>4, <2>5, <2>6 DEF IInv, Base, InTheQueue
<1>6. ClosedIsIdle'
  BY <1>1, <1>3 DEF IInv, Base, ClosedIsIdle, Callers
<1>7. Follows /\ Len(Pending) \in Nat /\ Len(Pending') \in Nat
  BY <1>t, <1>1, SameFollows, PendingIsSeq DEF TypeOK, Pending
<1>8. \A r \in Requests : Asked(r) => Asked(r)'
  BY <1>1, <1>3 DEF Asked, Callers
<1>9. EachLine' /\ InOrder'
  BY <1>7, <1>8, FollowingKeeps DEF IInv, Base
<1>10. Told'
  BY <1>1, <1>7, FollowingDrains
     DEF IInv, Told, Distinguishes, ToBeDrained, NoForeignAnswer, readVars
<1>11. QED
  BY <1>4, <1>5, <1>6, <1>9, <1>10 DEF IInv, Base

\* A queue without one of its callers.
Without(q, i) == SubSeq(q, 1, i - 1) \o SubSeq(q, i + 1, Len(q))

LEMMA LeftOut ==
    ASSUME NEW S, NEW q \in Seq(S), NEW i \in 1..Len(q)
    PROVE  /\ Without(q, i) \in Seq(S) /\ Len(Without(q, i)) \in Nat
           /\ \A j \in 1..Len(Without(q, i)) : \E at \in 1..Len(q) :
                at # i /\ Without(q, i)[j] = q[at] /\ at = IF j < i THEN j ELSE j + 1
<1> DEFINE rest == Without(q, i)
<1> DEFINE s == SubSeq(q, 1, i - 1)
           t == SubSeq(q, i + 1, Len(q))
<1>1. Len(q) \in Nat /\ \A j \in 1..Len(q) : q[j] \in S
  BY LenProperties, ElementOfSeq
<1>2. /\ s \in Seq(S) /\ Len(s) = i - 1
      /\ \A j \in 1..(i - 1) : s[j] = q[j]
  BY <1>1, SubSeqProperties
<1>3. /\ t \in Seq(S) /\ Len(t) = Len(q) - i
      /\ \A j \in 1..(Len(q) - i) : t[j] = q[i + j]
  BY <1>1, SubSeqProperties
<1> HIDE DEF s, t
<1>4. /\ s \o t \in Seq(S) /\ Len(s \o t) = Len(q) - 1
      /\ \A j \in 1..(Len(q) - 1) : (s \o t)[j] = IF j <= i - 1 THEN s[j] ELSE t[j - (i - 1)]
  <2>1. /\ s \o t \in Seq(S) /\ Len(s \o t) = Len(s) + Len(t)
        /\ \A j \in 1..(Len(s) + Len(t)) :
             (s \o t)[j] = IF j <= Len(s) THEN s[j] ELSE t[j - Len(s)]
    BY <1>2, <1>3, ConcatProperties
  <2>2. Len(s) + Len(t) = Len(q) - 1
    BY <1>1, <1>2, <1>3
  <2>3. QED
    BY <1>2, <2>1, <2>2
<1>5. ASSUME NEW j \in 1..(Len(q) - 1)
      PROVE  (s \o t)[j] = IF j < i THEN q[j] ELSE q[j + 1]
  BY <1>1, <1>2, <1>3, <1>4
<1>6. rest = s \o t
  BY DEF s, t, Without
<1> HIDE DEF rest
<1>7. ASSUME NEW j \in 1..Len(rest)
      PROVE  \E at \in 1..Len(q) : at # i /\ rest[j] = q[at] /\ at = IF j < i THEN j ELSE j + 1
  <2>1. j \in 1..(Len(q) - 1)
    BY <1>4, <1>6
  <2>2. CASE j < i
    BY <1>1, <1>5, <1>6, <2>1, <2>2
  <2>3. CASE ~(j < i)
    <3>1. j + 1 \in 1..Len(q) /\ j + 1 # i /\ rest[j] = q[j + 1]
      BY <1>1, <1>5, <1>6, <2>1, <2>3
    <3>2. QED
      BY <2>3, <3>1
  <2>4. QED
    BY <2>2, <2>3
<1>8. rest \in Seq(S) /\ Len(rest) \in Nat
  BY <1>4, <1>6, LenProperties
<1>9. QED
  BY <1>7, <1>8 DEF rest

LEMMA CancelledWaitingKeeps ==
    ASSUME IInv, NEW i \in 1..Len(waiting), CancelledWaiting(i)
    PROVE  IInv'
<1>t. TypeOK
  BY DEF IInv, Base
<1>1. /\ UNCHANGED <<holder, phase, closed, connVars, readVars, buf, owed, conn, matchedByPath>>
      /\ outcome' = [outcome EXCEPT ![waiting[i]] = "cancelled"]
      /\ waiting' = SubSeq(waiting, 1, i - 1) \o SubSeq(waiting, i + 1, Len(waiting))
  BY DEF CancelledWaiting, connVars
<1>2. /\ waiting' \in Seq(Callers) /\ Len(waiting') \in Nat /\ Len(waiting) \in Nat
      /\ \A j \in 1..Len(waiting') : \E at \in 1..Len(waiting) :
           at # i /\ waiting'[j] = waiting[at] /\ at = IF j < i THEN j ELSE j + 1
  <2>1. waiting \in Seq(Callers)
    BY <1>t DEF TypeOK
  <2>2. Len(waiting) \in Nat
    BY <2>1, LenProperties
  <2>3. /\ waiting' \in Seq(Callers) /\ Len(waiting') \in Nat
        /\ \A j \in 1..Len(waiting') : \E at \in 1..Len(waiting) :
             at # i /\ waiting'[j] = waiting[at] /\ at = IF j < i THEN j ELSE j + 1
    <3>1. waiting' = Without(waiting, i)
      BY <1>1 DEF Without
    <3>2. QED
      BY <2>1, <3>1, LeftOut
  <2>4. QED
    BY <2>2, <2>3
<1>3. \A j \in 1..Len(waiting) : waiting[j] \in Callers
  BY <1>t, ElementOfSeq DEF TypeOK
<1>4. \A d \in Callers : outcome'[d] = IF d = waiting[i] THEN "cancelled" ELSE outcome[d]
  BY <1>t, <1>1 DEF TypeOK
<1>5. TypeOK'
  BY <1>t, <1>1, <1>2 DEF TypeOK, readVars, Outcomes
<1>6. InTheQueue'
  <2>1. /\ \A j \in 1..Len(waiting) : outcome[waiting[j]] = "waiting" /\ waiting[j] # holder
        /\ \A j, k \in 1..Len(waiting) : waiting[j] = waiting[k] => j = k
        /\ holder \in Requests \cup {NoCaller}
    BY DEF IInv, Base, InTheQueue
  <2>2. ASSUME NEW j \in 1..Len(waiting')
        PROVE  outcome'[waiting'[j]] = "waiting" /\ waiting'[j] # holder
    BY <1>2, <1>3, <1>4, <2>1
  <2>3. ASSUME NEW j \in 1..Len(waiting'), NEW k \in 1..Len(waiting'), waiting'[j] = waiting'[k]
        PROVE  j = k
    <3>1. PICK at \in 1..Len(waiting) :
            waiting'[j] = waiting[at] /\ at = IF j < i THEN j ELSE j + 1
      BY <1>2
    <3>2. PICK bt \in 1..Len(waiting) :
            waiting'[k] = waiting[bt] /\ bt = IF k < i THEN k ELSE k + 1
      BY <1>2
    <3>3. waiting[at] = waiting[bt]
      BY <2>3, <3>1, <3>2
    <3>4. at = bt
      BY <2>1, <3>3
    <3>5. QED
      BY <1>2, <3>1, <3>2, <3>4
  <2>4. holder # NoCaller => outcome'[holder] = "waiting"
    BY <1>4, <2>1 DEF IInv, Base, InTheQueue, Callers
  <2>5. QED
    BY <1>1, <2>2, <2>3, <2>4 DEF IInv, Base, InTheQueue
<1>7. ClosedIsIdle'
  BY <1>1, <1>3, <1>4 DEF IInv, Base, ClosedIsIdle, Callers
<1>8. Follows /\ Len(Pending) \in Nat /\ Len(Pending') \in Nat
  BY <1>t, <1>1, SameFollows, PendingIsSeq DEF TypeOK, Pending
<1>9. \A r \in Requests : Asked(r) => Asked(r)'
  BY <1>1, <1>4 DEF Asked, Callers, IInv, Base, InTheQueue
<1>10. EachLine' /\ InOrder'
  BY <1>8, <1>9, FollowingKeeps DEF IInv, Base
<1>11. Told'
  BY <1>1, <1>8, FollowingDrains
     DEF IInv, Told, Distinguishes, ToBeDrained, NoForeignAnswer, readVars
<1>12. QED
  BY <1>5, <1>6, <1>7, <1>10, <1>11 DEF IInv, Base

\* The first of the queue has its turn.
LEMMA NextOfQueue ==
    ASSUME TypeOK, InTheQueue, waiting # <<>>, waiting' = Tail(waiting)
    PROVE  /\ Head(waiting) \in Callers /\ outcome[Head(waiting)] = "waiting"
           /\ waiting' \in Seq(Callers)
           /\ \A i \in 1..Len(waiting') :
                /\ waiting'[i] \in Callers
                /\ outcome[waiting'[i]] = "waiting"
                /\ waiting'[i] # holder /\ waiting'[i] # Head(waiting)
           /\ \A i, j \in 1..Len(waiting') : waiting'[i] = waiting'[j] => i = j
<1>1. /\ waiting \in Seq(Callers) /\ Len(waiting) \in Nat /\ Len(waiting) >= 1
      /\ Head(waiting) = waiting[1] /\ \A i \in 1..Len(waiting) : waiting[i] \in Callers
  BY EmptySeq, LenProperties, ElementOfSeq DEF TypeOK
<1>2. /\ waiting' \in Seq(Callers) /\ Len(waiting') = Len(waiting) - 1
      /\ \A i \in 1..Len(waiting') : waiting'[i] = waiting[i + 1]
  BY <1>1, HeadTailProperties
<1>3. \A i \in 1..Len(waiting') : i + 1 \in 1..Len(waiting) /\ i + 1 # 1
  BY <1>1, <1>2
<1>4. 1 \in 1..Len(waiting)
  BY <1>1
<1>5. \A i \in 1..Len(waiting') :
        /\ waiting'[i] \in Callers
        /\ outcome[waiting'[i]] = "waiting"
        /\ waiting'[i] # holder /\ waiting'[i] # Head(waiting)
  BY <1>1, <1>2, <1>3, <1>4 DEF InTheQueue
<1>6. ASSUME NEW i \in 1..Len(waiting'), NEW j \in 1..Len(waiting'), waiting'[i] = waiting'[j]
      PROVE  i = j
  <2>1. i + 1 = j + 1
    BY <1>2, <1>3, <1>6 DEF InTheQueue
  <2>2. QED
    BY <2>1, <1>1, <1>2
<1>7. QED
  BY <1>1, <1>2, <1>4, <1>5, <1>6 DEF InTheQueue

LEMMA BeginsKeeps ==
    ASSUME IInv, BeginsToConnect \/ BeginsToDrain \/ BeginsToSend
    PROVE  IInv'
<1>t. TypeOK /\ InTheQueue
  BY DEF IInv, Base
<1>1. /\ holder = NoCaller /\ waiting # <<>> /\ Head(waiting) # Closer /\ ~closed
      /\ holder' = Head(waiting) /\ waiting' = Tail(waiting)
      /\ UNCHANGED <<closed, connVars, readVars, outcome, buf, owed, conn, matchedByPath>>
      /\ phase' \in {"connect", "drain", "send"}
      /\ matchedByPath => phase' \in {"connect", "drain"}
  BY DEF BeginsToConnect, BeginsToDrain, BeginsToSend, Begins, connVars
<1>2. /\ Head(waiting) \in Requests /\ outcome[Head(waiting)] = "waiting"
      /\ waiting' \in Seq(Callers)
      /\ \A i \in 1..Len(waiting') :
           outcome[waiting'[i]] = "waiting" /\ waiting'[i] # Head(waiting)
      /\ \A i, j \in 1..Len(waiting') : waiting'[i] = waiting'[j] => i = j
  BY <1>t, <1>1, NextOfQueue DEF Callers
<1>3. TypeOK'
  BY <1>t, <1>1, <1>2 DEF TypeOK, readVars, Phases, Callers
<1>4. InTheQueue'
  BY <1>1, <1>2, RequestsAssumption DEF InTheQueue
<1>5. ClosedIsIdle'
  BY <1>1 DEF IInv, Base, ClosedIsIdle
<1>6. Follows /\ Len(Pending) \in Nat /\ Len(Pending') \in Nat
  BY <1>t, <1>1, SameFollows, PendingIsSeq DEF TypeOK, Pending
<1>7. \A r \in Requests : Asked(r) => Asked(r)'
  BY <1>1, <1>2, RequestsAssumption DEF Asked
<1>8. EachLine' /\ InOrder'
  BY <1>6, <1>7, FollowingKeeps DEF IInv, Base
<1>9. Told'
  <2> SUFFICES ASSUME Distinguishes PROVE ToBeDrained' /\ NoForeignAnswer'
    BY DEF Told, Distinguishes
  <2>1. ToBeDrained /\ NoForeignAnswer
    BY DEF IInv, Told
  <2>2. ToBeDrained'
    BY <1>1, <1>6, <2>1, FollowingDrains
  <2>3. QED
    BY <1>1, <2>1, <2>2 DEF NoForeignAnswer, readVars
<1>10. QED
  BY <1>3, <1>4, <1>5, <1>8, <1>9 DEF IInv, Base

LEMMA ClosingKeeps ==
    ASSUME IInv, RefusedAsClosed \/ Closes
    PROVE  IInv'
<1>t. TypeOK /\ InTheQueue
  BY DEF IInv, Base
<1> DEFINE how == IF Head(waiting) = Closer THEN "answered" ELSE "failed"
<1>1. /\ holder = NoCaller /\ waiting # <<>> /\ waiting' = Tail(waiting)
      /\ outcome' = [outcome EXCEPT ![Head(waiting)] = how]
      /\ UNCHANGED <<holder, phase, readVars>>
      /\ closed' = TRUE
      /\ conn' = "none" /\ buf' = <<>> /\ owed' = <<>> /\ matchedByPath' \in BOOLEAN
  BY <1>t DEF RefusedAsClosed, Closes, CloseForGood, Drop, TypeOK
<1> HIDE DEF how
<1>2. /\ Head(waiting) \in Callers /\ waiting' \in Seq(Callers)
      /\ \A i \in 1..Len(waiting') :
           /\ waiting'[i] \in Callers /\ outcome[waiting'[i]] = "waiting"
           /\ waiting'[i] # holder /\ waiting'[i] # Head(waiting)
      /\ \A i, j \in 1..Len(waiting') : waiting'[i] = waiting'[j] => i = j
  BY <1>t, <1>1, NextOfQueue
<1>3. how \in Outcomes
  BY DEF how, Outcomes
<1>4. \A d \in Callers : outcome'[d] = IF d = Head(waiting) THEN how ELSE outcome[d]
  BY <1>t, <1>1 DEF TypeOK
<1>5. TypeOK'
  BY <1>t, <1>1, <1>2, <1>3 DEF TypeOK, readVars
<1>6. phase = "idle"
  BY <1>t, <1>1 DEF InTheQueue
<1>7. InTheQueue'
  BY <1>1, <1>2, <1>4, <1>6 DEF InTheQueue
<1>8. ClosedIsIdle'
  BY <1>1, <1>6 DEF ClosedIsIdle
<1>9. EachLine' /\ InOrder' /\ ToBeDrained'
  BY <1>1, <1>6, NothingFollows, NothingToDrain
<1>10. Told'
  BY <1>1, <1>9 DEF IInv, Told, Distinguishes, NoForeignAnswer, readVars
<1>11. QED
  BY <1>5, <1>7, <1>8, <1>9, <1>10 DEF IInv, Base

LEMMA LockStepKeeps ==
    ASSUME IInv, LockStep
    PROVE  IInv'
BY CallsKeeps, CancelledWaitingKeeps, BeginsKeeps, ClosingKeeps DEF LockStep

(***************************************************************************)
(* The holder leaves.                                                      *)
(***************************************************************************)

\* Whatever the request has come to, the lock is free for the next of the queue.
LEMMA LeavingKeeps ==
    ASSUME TypeOK, InTheQueue, ClosedIsIdle, phase # "idle",
           NEW how \in {"answered", "rejected", "failed", "cancelled"}, Leave(how),
           conn' \in {"none", "open", "eof", "reset"}, matchedByPath' \in BOOLEAN,
           owed' \in Seq(Lines), buf' \in Seq(Lines),
           takenFrom' \in [Requests -> SUBSET (Requests \cup {NoCaller})]
    PROVE  /\ TypeOK' /\ InTheQueue' /\ ClosedIsIdle'
           /\ holder \in Requests /\ holder' = NoCaller /\ phase' = "idle"
           /\ \A r \in Requests : outcome'[r] = IF r = holder THEN how ELSE outcome[r]
<1>1. holder \in Requests /\ ~closed
  BY DEF InTheQueue, ClosedIsIdle
<1>2. /\ outcome' = [outcome EXCEPT ![holder] = how] /\ holder' = NoCaller /\ phase' = "idle"
      /\ touched' = FALSE /\ count' = 0 /\ tree' = EmptyTree /\ UNCHANGED <<waiting, closed>>
  BY DEF Leave
<1>3. \A d \in Callers : outcome'[d] = IF d = holder THEN how ELSE outcome[d]
  BY <1>2 DEF TypeOK
<1>4. outcome' \in [Callers -> Outcomes] /\ tree' \in Trees
      /\ count' \in 0..(IF MaxLines > MaxDrain THEN MaxLines ELSE MaxDrain)
  <2>1. EmptyTree \in Trees
    BY DEF EmptyTree, Trees
  <2>2. how \in Outcomes
    BY DEF Outcomes
  <2>3. 0 \in 0..(IF MaxLines > MaxDrain THEN MaxLines ELSE MaxDrain)
    BY LinesAssumption
  <2>4. QED
    BY <1>2, <2>1, <2>2, <2>3 DEF TypeOK
<1>5. TypeOK'
  BY <1>2, <1>4 DEF TypeOK, Phases
<1>6. waiting \in Seq(Callers) /\ \A i \in 1..Len(waiting) : waiting[i] \in Callers
  BY ElementOfSeq DEF TypeOK
<1>7. InTheQueue'
  BY <1>2, <1>3, <1>6, RequestsAssumption DEF InTheQueue, Callers
<1>8. ClosedIsIdle'
  BY <1>1, <1>2, <1>3, RequestsAssumption DEF ClosedIsIdle, Callers
<1>9. QED
  BY <1>1, <1>2, <1>3, <1>5, <1>7, <1>8 DEF Callers

\* A request that is given up takes the connection with it.
LEMMA GivingUpKeeps ==
    ASSUME IInv, phase # "idle",
           NEW how \in {"answered", "rejected", "failed", "cancelled"},
           Leave(how), Drop, UNCHANGED takenFrom
    PROVE  IInv'
<1>1. TypeOK /\ InTheQueue /\ ClosedIsIdle
  BY DEF IInv, Base
<1>2. conn' = "none" /\ matchedByPath' = FALSE /\ owed' = <<>> /\ buf' = <<>>
  BY DEF Drop
<1>3. TypeOK' /\ InTheQueue' /\ ClosedIsIdle' /\ phase' = "idle"
  <2>1. /\ conn' \in {"none", "open", "eof", "reset"} /\ matchedByPath' \in BOOLEAN
        /\ owed' \in Seq(Lines) /\ buf' \in Seq(Lines)
    <3>1. <<>> \in Seq(Lines)
      OBVIOUS
    <3>2. conn' \in {"none", "open", "eof", "reset"}
      BY <1>2
    <3>3. matchedByPath' \in BOOLEAN
      BY <1>2, ZenonT(10)
    <3>4. owed' \in Seq(Lines) /\ buf' \in Seq(Lines)
      BY <1>2, <3>1, ZenonT(10)
    <3>5. QED
      BY <3>2, <3>3, <3>4
  <2>2. takenFrom' \in [Requests -> SUBSET (Requests \cup {NoCaller})]
    BY <1>1 DEF TypeOK
  <2>3. QED
    BY <1>1, <2>1, <2>2, LeavingKeeps
<1>4. EachLine' /\ InOrder' /\ ToBeDrained'
  BY <1>2, <1>3, NothingFollows, NothingToDrain
<1>5. Told'
  BY <1>4 DEF IInv, Told, Distinguishes, NoForeignAnswer
<1>6. QED
  BY <1>3, <1>4, <1>5 DEF IInv, Base

\* One that is answered leaves what it has not read, which the next will not take
\* for its own.
LEMMA AnsweringKeeps ==
    ASSUME IInv, phase \in {"send", "read"}, NEW how \in {"answered", "rejected"}, Leave(how),
           conn' = conn, owed' = owed, buf' \in Seq(Lines), Follows,
           takenFrom' \in [Requests -> SUBSET (Requests \cup {NoCaller})],
           matchedByPath' \in BOOLEAN,
           Distinguishes =>
             /\ NoForeignAnswer'
             /\ \A i \in 1..Len(Pending') :
                  Pending'[i].of \in Requests /\ ~Pending'[i].xid => matchedByPath'
    PROVE  IInv'
<1>1. TypeOK /\ InTheQueue /\ ClosedIsIdle
  BY DEF IInv, Base
<1>2. /\ TypeOK' /\ InTheQueue' /\ ClosedIsIdle' /\ phase' = "idle" /\ holder' = NoCaller
      /\ \A r \in Requests : outcome'[r] = IF r = holder THEN how ELSE outcome[r]
  BY <1>1, LeavingKeeps DEF TypeOK
<1>3. Len(Pending) \in Nat /\ Len(Pending') \in Nat
  BY <1>1, <1>2, PendingIsSeq, LenProperties, ConcatProperties DEF TypeOK, Pending
<1>4. \A r \in Requests : Asked(r) => Asked(r)'
  BY <1>2, RequestsAssumption DEF Asked
<1>5. EachLine' /\ InOrder'
  BY <1>3, <1>4, FollowingKeeps DEF IInv, Base
<1>6. Told'
  BY <1>2 DEF Told, Distinguishes, ToBeDrained, Unmarked
<1>7. QED
  BY <1>2, <1>5, <1>6 DEF IInv, Base

(***************************************************************************)
(* Connecting, draining, sending.                                          *)
(***************************************************************************)

\* The holder goes on, and nobody else is touched.
LEMMA GoingOnKeeps ==
    ASSUME InTheQueue, ClosedIsIdle, phase # "idle", phase' # "idle",
           UNCHANGED <<holder, waiting, closed, outcome>>
    PROVE  InTheQueue' /\ ClosedIsIdle'
BY DEF InTheQueue, ClosedIsIdle

LEMMA ConnectsKeeps ==
    ASSUME IInv, Connects
    PROVE  IInv'
<1>1. TypeOK /\ InTheQueue /\ ClosedIsIdle
  BY DEF IInv, Base
<1>2. /\ phase = "connect" /\ phase' = "send" /\ conn' = "open" /\ owed' = <<>> /\ buf' = <<>>
      /\ UNCHANGED <<holder, waiting, closed, matchedByPath, readVars, outcome>>
  BY DEF Connects
<1>3. TypeOK'
  BY <1>1, <1>2 DEF TypeOK, readVars, Phases
<1>4. InTheQueue' /\ ClosedIsIdle'
  BY <1>1, <1>2, GoingOnKeeps
<1>5. EachLine' /\ InOrder' /\ ToBeDrained'
  BY <1>2, NothingFollows, NothingToDrain
<1>6. Told'
  BY <1>2, <1>5 DEF IInv, Told, Distinguishes, NoForeignAnswer, readVars
<1>7. QED
  BY <1>3, <1>4, <1>5, <1>6 DEF IInv, Base

LEMMA DrainsLineKeeps ==
    ASSUME IInv, DrainsLine
    PROVE  IInv'
<1>1. TypeOK /\ InTheQueue /\ ClosedIsIdle
  BY DEF IInv, Base
<1>2. /\ phase = "drain" /\ count < MaxDrain /\ count' = count + 1
      /\ buf # <<>> /\ buf' = Tail(buf) /\ owed' = owed
      /\ UNCHANGED <<holder, waiting, phase, closed, conn, matchedByPath, touched, tree,
                     takenFrom, outcome>>
  BY DEF DrainsLine, Draining
<1>3. Follows /\ buf' \in Seq(Lines)
  BY <1>1, <1>2, RestFollows DEF TypeOK
<1>4. count' \in 0..(IF MaxLines > MaxDrain THEN MaxLines ELSE MaxDrain)
  BY <1>1, <1>2, LinesAssumption DEF TypeOK
<1>5. TypeOK'
  BY <1>1, <1>2, <1>3, <1>4 DEF TypeOK
<1>6. InTheQueue' /\ ClosedIsIdle'
  BY <1>1, <1>2, GoingOnKeeps
<1>7. Len(Pending) \in Nat /\ Len(Pending') \in Nat
  BY <1>1, <1>5, PendingIsSeq, LenProperties, ConcatProperties DEF TypeOK, Pending
<1>8. EachLine' /\ InOrder'
  BY <1>2, <1>3, <1>7, FollowingKeeps DEF IInv, Base, Asked
<1>9. Told'
  BY <1>2, <1>3, FollowingDrains DEF IInv, Told, Distinguishes, NoForeignAnswer
<1>10. QED
  BY <1>5, <1>6, <1>8, <1>9 DEF IInv, Base

LEMMA DrainedQuietKeeps ==
    ASSUME IInv, DrainedQuiet
    PROVE  IInv'
<1>1. TypeOK /\ InTheQueue /\ ClosedIsIdle
  BY DEF IInv, Base
<1>2. /\ phase = "drain" /\ phase' = "send" /\ count' = 0
      /\ buf = <<>> /\ (Prompt => owed = <<>>)
      /\ UNCHANGED <<holder, waiting, closed, conn, matchedByPath, buf, owed, touched, tree,
                     takenFrom, outcome>>
  BY DEF DrainedQuiet, Draining, connVars
<1>3. Follows /\ Len(Pending) \in Nat /\ Len(Pending') \in Nat /\ Pending' = Pending
  BY <1>1, <1>2, SameFollows, PendingIsSeq DEF TypeOK, Pending
<1>4. TypeOK'
  <2>1. count' \in 0..(IF MaxLines > MaxDrain THEN MaxLines ELSE MaxDrain)
    BY <1>2, LinesAssumption
  <2>2. QED
    BY <1>1, <1>2, <2>1 DEF TypeOK, Phases
<1>5. InTheQueue' /\ ClosedIsIdle'
  BY <1>1, <1>2, GoingOnKeeps
<1>6. EachLine' /\ InOrder'
  BY <1>2, <1>3, FollowingKeeps DEF IInv, Base, Asked
<1>7. Told'
  <2> SUFFICES ASSUME Distinguishes PROVE ToBeDrained' /\ NoForeignAnswer'
    BY DEF Told, Distinguishes
  <2>1. CASE Prompt
    <3>1. Len(Pending') = 0
      BY <1>2, <1>3, <2>1 DEF Pending
    <3>2. QED
      BY <1>2, <3>1, NothingToDrain DEF IInv, Told, NoForeignAnswer
  <2>2. CASE EchoesXid /\ \A r \in Requests : CarriesXid(r)
    <3>1. \A i \in 1..Len(Pending) : Pending[i].of \in Requests => Pending[i].xid
      BY <2>2 DEF IInv, Base, EachLine
    <3>2. QED
      BY <1>2, <1>3, <3>1 DEF IInv, Told, ToBeDrained, Unmarked, NoForeignAnswer
  <2>3. QED
    BY <2>1, <2>2 DEF Distinguishes
<1>8. QED
  BY <1>4, <1>5, <1>6, <1>7 DEF IInv, Base

\* No payload is too long for want of an id, or with one.
LEMMA NoneTooLong == \A r \in Requests : ~TooLong(r)
BY TokensAssumption DEF TooLong, CarriesXid

\* What a request may be answered with.
LEMMA AnswersAre ==
    ASSUME NEW r \in Requests, NEW answer \in Answers(r)
    PROVE  /\ answer \in Seq(Lines) /\ Len(answer) \in Nat
           /\ \A i \in 1..Len(answer) :
                /\ answer[i].of = r /\ answer[i].kind # "toolong"
                /\ EchoesXid /\ CarriesXid(r) => answer[i].xid
                /\ \A j \in 1..i : answer[j].xid => answer[i].xid
<1>1. answer \in { a \in UNION { [1..n -> [of: {r}, xid: BOOLEAN, kind: LineKinds]]
                                : n \in 0..MaxAnswer } :
                     \A i \in DOMAIN a :
                        /\ a[i].xid => CarriesXid(r)
                        /\ EchoesXid /\ CarriesXid(r) => a[i].xid
                        /\ \A j \in 1..i : a[j].xid => a[i].xid }
  BY NoneTooLong DEF Answers
<1>2. PICK n \in 0..MaxAnswer : answer \in [1..n -> [of: {r}, xid: BOOLEAN, kind: LineKinds]]
  BY <1>1
<1>3. n \in Nat
  BY LinesAssumption
<1>4. \A i \in 1..n : answer[i] \in [of: {r}, xid: BOOLEAN, kind: LineKinds]
  BY <1>2
<1>5. \A i \in 1..n : answer[i] \in Lines /\ answer[i].of = r /\ answer[i].kind # "toolong"
  BY <1>4, LinesAssumption DEF Lines
<1>6. answer \in [1..n -> Lines] /\ DOMAIN answer = 1..n
  BY <1>2, <1>5
<1>7. answer \in Seq(Lines) /\ Len(answer) = n
  BY <1>3, <1>6
<1>8. QED
  BY <1>1, <1>3, <1>5, <1>6, <1>7

LEMMA SendsKeeps ==
    ASSUME IInv, Sends
    PROVE  IInv'
<1>1. TypeOK /\ InTheQueue /\ ClosedIsIdle /\ EachLine /\ InOrder
  BY DEF IInv, Base
<1>2. /\ phase = "send" /\ phase' = "read" /\ matchedByPath' = TRUE
      /\ UNCHANGED <<holder, waiting, closed, conn, buf, readVars, outcome>>
  BY DEF Sends
<1>3. holder \in Requests
  BY <1>1, <1>2 DEF InTheQueue
<1>4. PICK answer \in Answers(holder) : owed' = IF conn = "open" THEN owed \o answer ELSE owed
  BY DEF Sends
<1>5. /\ Pending \in Seq(Lines) /\ Len(Pending) \in Nat
      /\ \A i \in 1..Len(Pending) : Pending[i].of # holder
  BY <1>1, <1>2, <1>3, PendingIsSeq, RequestsAssumption DEF TypeOK, EachLine, Asked
<1>6. \A r \in Requests : Asked(r) => Asked(r)'
  BY <1>2 DEF Asked
<1>7. CASE owed' = owed
  <2>1. Follows /\ Pending' = Pending
    BY <1>1, <1>2, <1>7, SameFollows DEF TypeOK, Pending
  <2>2. EachLine' /\ InOrder'
    BY <1>1, <1>5, <1>6, <2>1, FollowingKeeps
  <2>3. Distinguishes => ToBeDrained'
    BY <1>2, <2>1 DEF IInv, Told, ToBeDrained, Unmarked
  <2>4. TypeOK'
    BY <1>1, <1>2, <1>7 DEF TypeOK, readVars, Phases
  <2>5. QED
    BY <1>1, <1>2, <2>2, <2>3, <2>4, GoingOnKeeps
       DEF IInv, Base, Told, Distinguishes, NoForeignAnswer, readVars
<1>8. CASE owed' = owed \o answer
  <2>1. /\ answer \in Seq(Lines) /\ Len(answer) \in Nat
        /\ \A i \in 1..Len(answer) :
             /\ answer[i].of = holder /\ answer[i].kind # "toolong"
             /\ EchoesXid /\ CarriesXid(holder) => answer[i].xid
             /\ \A j \in 1..i : answer[j].xid => answer[i].xid
    BY <1>3, AnswersAre
  <2>2. Pending' = Pending \o answer /\ owed' \in Seq(Lines)
    BY <1>1, <1>2, <1>8, <2>1, ConcatAssociative, ConcatProperties DEF TypeOK, Pending
  <2>3. /\ Len(Pending') = Len(Pending) + Len(answer)
        /\ \A i \in 1..Len(Pending') :
             Pending'[i] = IF i <= Len(Pending) THEN Pending[i] ELSE answer[i - Len(Pending)]
    BY <1>5, <2>1, <2>2, ConcatProperties
  <2>4. \A i \in 1..Len(Pending') :
          \/ i \in 1..Len(Pending) /\ Pending'[i] = Pending[i]
          \/ /\ i - Len(Pending) \in 1..Len(answer) /\ Pending'[i] = answer[i - Len(Pending)]
             /\ Pending'[i].of = holder
    BY <1>5, <2>1, <2>3
  <2>5. EachLine'
    <3>1. Asked(holder)'
      BY <1>2 DEF Asked
    <3>2. QED
      BY <1>1, <1>2, <1>3, <1>6, <2>1, <2>4, <3>1 DEF EachLine, CarriesXid
  <2>6. InOrder'
    <3> SUFFICES ASSUME NEW i \in 1..Len(Pending'), NEW j \in 1..Len(Pending'),
                        i <= j, Pending'[i].of = Pending'[j].of, Pending'[i].of \in Requests,
                        Pending'[i].xid
                 PROVE  Pending'[j].xid
      BY DEF InOrder
    <3>1. CASE Pending'[i].of = holder
      <4>1. /\ i - Len(Pending) \in 1..Len(answer) /\ Pending'[i] = answer[i - Len(Pending)]
            /\ j - Len(Pending) \in 1..Len(answer) /\ Pending'[j] = answer[j - Len(Pending)]
        BY <1>5, <2>4, <3>1
      <4>2. i - Len(Pending) \in 1..(j - Len(Pending))
        BY <1>5, <2>1, <4>1
      <4>3. QED
        BY <2>1, <4>1, <4>2
    <3>2. CASE Pending'[i].of # holder
      BY <1>1, <2>4, <3>2 DEF InOrder
    <3>3. QED
      BY <3>1, <3>2
  <2>7. Distinguishes => ToBeDrained'
    <3> SUFFICES ASSUME Distinguishes, NEW i \in 1..Len(Pending'), Unmarked(Pending[i])'
                 PROVE  FALSE
      BY <1>2 DEF ToBeDrained
    <3>1. i \in 1..Len(Pending) /\ Pending'[i] = Pending[i] /\ Unmarked(Pending[i])
      BY <1>2, <2>4 DEF Unmarked
    <3>2. QED
      BY <1>2, <3>1 DEF IInv, Told, ToBeDrained
  <2>8. TypeOK'
    BY <1>1, <1>2, <2>2 DEF TypeOK, readVars, Phases
  <2>9. QED
    BY <1>1, <1>2, <2>5, <2>6, <2>7, <2>8, GoingOnKeeps
       DEF IInv, Base, Told, Distinguishes, NoForeignAnswer, readVars
<1>9. QED
  BY <1>4, <1>7, <1>8

\* A request that is not sent after all, or settles for what it has.
LEMMA StayingKeeps ==
    ASSUME IInv, SendRefused \/ Settles
    PROVE  IInv'
<1>1. TypeOK /\ InTheQueue /\ EachLine
  BY DEF IInv, Base
<1>2. PICK how \in {"answered", "rejected"} : Leave(how)
  BY DEF SendRefused, Settles, Verdict
<1>3. /\ phase \in {"send", "read"}
      /\ UNCHANGED <<conn, matchedByPath, owed, buf, takenFrom>>
  BY DEF SendRefused, Settles, connVars
<1>4. Follows /\ Pending' = Pending
  BY <1>1, <1>3, SameFollows DEF TypeOK, Pending
<1>5. ASSUME Distinguishes, NEW i \in 1..Len(Pending),
             Pending[i].of \in Requests, ~Pending[i].xid
      PROVE  matchedByPath
  BY <1>1, <1>3, <1>5, RequestsAssumption
     DEF IInv, Told, ToBeDrained, Unmarked, EachLine, Asked
<1>6. Distinguishes => NoForeignAnswer'
  BY <1>3 DEF IInv, Told, NoForeignAnswer
<1>7. QED
  BY <1>1, <1>2, <1>3, <1>4, <1>5, <1>6, AnsweringKeeps DEF TypeOK

(***************************************************************************)
(* Reading.                                                                *)
(***************************************************************************)

LEMMA SkipsLineKeeps ==
    ASSUME IInv, SkipsLine
    PROVE  IInv'
<1>1. TypeOK /\ InTheQueue /\ ClosedIsIdle
  BY DEF IInv, Base
<1>2. /\ phase = "read" /\ touched' = TRUE
      /\ buf # <<>> /\ buf' = Tail(buf) /\ owed' = owed
      /\ UNCHANGED <<holder, waiting, phase, closed, conn, matchedByPath, count, tree,
                     takenFrom, outcome>>
  BY DEF SkipsLine, CanRead
<1>3. Follows /\ buf' \in Seq(Lines)
  BY <1>1, <1>2, RestFollows DEF TypeOK
<1>4. TypeOK'
  BY <1>1, <1>2, <1>3 DEF TypeOK
<1>5. InTheQueue' /\ ClosedIsIdle'
  BY <1>1, <1>2, GoingOnKeeps
<1>6. Len(Pending) \in Nat /\ Len(Pending') \in Nat
  BY <1>1, <1>4, PendingIsSeq, LenProperties, ConcatProperties DEF TypeOK, Pending
<1>7. EachLine' /\ InOrder'
  BY <1>2, <1>3, <1>6, FollowingKeeps DEF IInv, Base, Asked
<1>8. Told'
  BY <1>2, <1>3, FollowingDrains DEF IInv, Told, Distinguishes, ToBeDrained, NoForeignAnswer
<1>9. QED
  BY <1>4, <1>5, <1>7, <1>8 DEF IInv, Base

\* A line that is merged belongs to the request, if answers can be told apart.
LEMMA TakesItsOwn ==
    ASSUME IInv, Takes(Head(buf))
    PROVE  /\ phase = "read" /\ holder \in Requests /\ Head(buf).of \in Requests
           /\ Head(buf) = Pending[1] /\ 1 \in 1..Len(Pending) /\ Head(buf) \in Lines
           /\ Follows /\ buf' \in Seq(Lines) /\ count < MaxLines
           /\ Head(buf).xid => Head(buf).of = holder
           /\ takenFrom' \in [Requests -> SUBSET (Requests \cup {NoCaller})]
           /\ Distinguishes => Head(buf).of = holder /\ NoForeignAnswer'
           /\ \A i \in 1..Len(Pending') : i + 1 \in 1..Len(Pending) /\ Pending'[i] = Pending[i + 1]
<1>1. TypeOK /\ InTheQueue /\ EachLine
  BY DEF IInv, Base
<1>2. /\ phase = "read" /\ buf # <<>> /\ buf' = Tail(buf) /\ owed' = owed /\ count < MaxLines
      /\ Head(buf).kind # "junk" /\ ~Late(Head(buf))
      /\ takenFrom' = [takenFrom EXCEPT ![holder] = @ \cup {Head(buf).of}]
  BY DEF Takes, CanRead
<1>3. holder \in Requests
  BY <1>1, <1>2 DEF InTheQueue
<1>4. /\ Head(buf) = Pending[1] /\ 1 \in 1..Len(Pending) /\ Head(buf) \in Lines
      /\ Follows /\ buf' \in Seq(Lines)
      /\ \A i \in 1..Len(Pending') : i + 1 \in 1..Len(Pending) /\ Pending'[i] = Pending[i + 1]
  BY <1>1, <1>2, RestFollows DEF TypeOK
<1>5. Head(buf).of \in Requests
  BY <1>1, <1>2, <1>4 DEF EachLine
<1>6. Head(buf).xid => Head(buf).of = holder
  BY <1>2 DEF Late
<1>7. takenFrom' \in [Requests -> SUBSET (Requests \cup {NoCaller})]
  BY <1>1, <1>2, <1>5 DEF TypeOK
<1>8. ASSUME Distinguishes PROVE Head(buf).of = holder /\ NoForeignAnswer'
  <2>1. ToBeDrained /\ NoForeignAnswer
    BY <1>8 DEF IInv, Told
  <2>2. Head(buf).of = holder
    BY <1>2, <1>4, <1>5, <1>6, <2>1 DEF ToBeDrained, Unmarked
  <2>3. QED
    BY <1>1, <1>2, <1>3, <2>1, <2>2 DEF NoForeignAnswer, TypeOK
<1>9. QED
  BY <1>2, <1>3, <1>4, <1>5, <1>6, <1>7, <1>8

LEMMA MergesLineKeeps ==
    ASSUME IInv, MergesLine
    PROVE  IInv'
<1>1. TypeOK /\ InTheQueue /\ ClosedIsIdle
  BY DEF IInv, Base
<1>2. /\ Takes(Head(buf)) /\ tree' = Merged(Head(buf)) /\ touched' = TRUE /\ count' = count + 1
      /\ UNCHANGED <<holder, waiting, phase, closed, conn, matchedByPath, owed, outcome>>
  BY DEF MergesLine, Takes
<1>3. /\ phase = "read" /\ holder \in Requests /\ Follows /\ buf' \in Seq(Lines)
      /\ count < MaxLines
      /\ takenFrom' \in [Requests -> SUBSET (Requests \cup {NoCaller})]
      /\ Distinguishes => NoForeignAnswer'
  BY <1>2, TakesItsOwn
<1>4. count' \in 0..(IF MaxLines > MaxDrain THEN MaxLines ELSE MaxDrain)
  BY <1>1, <1>2, <1>3, LinesAssumption DEF TypeOK
<1>5. tree' \in Trees
  BY <1>1, <1>2 DEF Merged, Trees, TypeOK
<1>6. TypeOK'
  BY <1>1, <1>2, <1>3, <1>4, <1>5 DEF TypeOK
<1>7. InTheQueue' /\ ClosedIsIdle'
  BY <1>1, <1>2, <1>3, GoingOnKeeps
<1>8. Len(Pending) \in Nat /\ Len(Pending') \in Nat
  BY <1>1, <1>6, PendingIsSeq, LenProperties, ConcatProperties DEF TypeOK, Pending
<1>9. EachLine' /\ InOrder'
  BY <1>2, <1>3, <1>8, FollowingKeeps DEF IInv, Base, Asked
<1>10. Told'
  BY <1>2, <1>3, FollowingDrains DEF IInv, Told, Distinguishes, ToBeDrained
<1>11. QED
  BY <1>6, <1>7, <1>9, <1>10 DEF IInv, Base

LEMMA CompletesAnswerKeeps ==
    ASSUME IInv, CompletesAnswer
    PROVE  IInv'
<1>1. TypeOK /\ InOrder
  BY DEF IInv, Base
<1>2. /\ Takes(Head(buf)) /\ matchedByPath' = ~Head(buf).xid
      /\ conn' = conn /\ owed' = owed
  BY DEF CompletesAnswer, Takes, MatchedByPathAfter
<1>3. PICK how \in {"answered", "rejected"} : Leave(how)
  BY DEF CompletesAnswer, Verdict
<1>4. /\ phase = "read" /\ holder \in Requests /\ Follows /\ buf' \in Seq(Lines)
      /\ Head(buf) = Pending[1] /\ 1 \in 1..Len(Pending)
      /\ Head(buf).xid => Head(buf).of = holder
      /\ takenFrom' \in [Requests -> SUBSET (Requests \cup {NoCaller})]
      /\ Distinguishes => NoForeignAnswer'
      /\ \A i \in 1..Len(Pending') : i + 1 \in 1..Len(Pending) /\ Pending'[i] = Pending[i + 1]
  BY <1>2, TakesItsOwn
<1>5. ASSUME Distinguishes, NEW i \in 1..Len(Pending'),
             Pending'[i].of \in Requests, ~Pending'[i].xid
      PROVE  matchedByPath'
  <2>1. i + 1 \in 1..Len(Pending) /\ Pending'[i] = Pending[i + 1] /\ 1 <= i + 1
    BY <1>4
  <2>2. CASE Pending'[i].of = holder
    <3>1. ASSUME Head(buf).xid
          PROVE  FALSE
      <4>1. /\ Pending[1].xid /\ Pending[1].of = holder
            /\ Pending[i + 1].of = holder /\ ~Pending[i + 1].xid
        BY <1>4, <1>5, <2>1, <2>2, <3>1
      <4>2. Pending[1].xid => Pending[i + 1].xid
        BY <1>1, <1>4, <2>1, <4>1 DEF InOrder
      <4>3. QED
        BY <4>1, <4>2
    <3>2. QED
      BY <1>2, <3>1, ZenonT(10)
  <2>3. CASE Pending'[i].of # holder
    BY <1>4, <1>5, <2>1, <2>3 DEF IInv, Told, ToBeDrained, Unmarked
  <2>4. QED
    BY <2>2, <2>3
<1>6. QED
  BY <1>2, <1>3, <1>4, <1>5, AnsweringKeeps

LEMMA GivesUpKeeps ==
    ASSUME IInv, \/ ConnectFails \/ DrainGivesUp \/ SendFails \/ TimesOut
                 \/ BreachesLimit \/ ReadFails \/ Cancelled
    PROVE  IInv'
<1>1. PICK how \in {"answered", "rejected", "failed", "cancelled"} :
        Leave(how) /\ Drop /\ UNCHANGED takenFrom
  BY DEF ConnectFails, DrainGivesUp, SendFails, TimesOut, BreachesLimit, ReadFails, Cancelled,
         Fail, Verdict
<1>2. phase # "idle"
  BY DEF ConnectFails, DrainGivesUp, SendFails, TimesOut, BreachesLimit, ReadFails, Cancelled
<1>3. QED
  BY <1>1, <1>2, GivingUpKeeps

LEMMA StepKeeps == IInv /\ [Next]_vars => IInv'
<1>1. ASSUME IInv, UNCHANGED vars PROVE IInv'
  <2>1. UNCHANGED <<holder, waiting, phase, closed, conn, matchedByPath, owed, buf, touched, count,
                    tree, takenFrom, outcome>>
    BY <1>1 DEF vars, connVars, readVars
  <2>2. Pending' = Pending
    BY <2>1 DEF Pending
  <2>3. TypeOK' /\ InTheQueue' /\ ClosedIsIdle'
    BY <1>1, <2>1 DEF IInv, Base, TypeOK, InTheQueue, ClosedIsIdle
  <2>4. EachLine' /\ InOrder'
    BY <1>1, <2>1, <2>2 DEF IInv, Base, EachLine, InOrder, Asked
  <2>5. Told'
    BY <1>1, <2>1, <2>2
       DEF IInv, Told, Distinguishes, ToBeDrained, Unmarked, NoForeignAnswer
  <2>6. QED
    BY <2>3, <2>4, <2>5 DEF IInv, Base
<1>2. ASSUME IInv, SendStep \/ ReadStep \/ Cancelled PROVE IInv'
  BY <1>2, ConnectsKeeps, DrainsLineKeeps, DrainedQuietKeeps, SendsKeeps, StayingKeeps,
     SkipsLineKeeps, MergesLineKeeps, CompletesAnswerKeeps, GivesUpKeeps
     DEF SendStep, ReadStep
<1>3. QED
  BY <1>1, <1>2, PeerStepKeeps, LockStepKeeps DEF Next

\* The invariant holds of every connection.
THEOREM InvariantHolds == Spec => []IInv
<1>1. Init => IInv
  BY InitHolds
<1>2. IInv /\ [Next]_vars => IInv'
  BY StepKeeps
<1>3. QED
  BY <1>1, <1>2, PTL DEF Spec

(***************************************************************************)
(* The theorems.                                                           *)
(***************************************************************************)

\* The variables keep their types, and the counters of the drain and of a read
\* never pass their bounds.
THEOREM TypeCorrect == Spec => []TypeOK
<1>1. IInv => TypeOK
  BY DEF IInv, Base
<1>2. QED
  BY <1>1, InvariantHolds, PTL

\* If a speaker finishes its answers within the window of the drain, or if every
\* request carries an id that every line of its answer echoes, no request is ever
\* answered with the line of another one.
THEOREM NoForeignAnswerHolds == ASSUME Distinguishes PROVE Spec => []NoForeignAnswer
<1>1. IInv => NoForeignAnswer
  BY DEF IInv, Told
<1>2. QED
  BY <1>1, InvariantHolds, PTL

\* Under the same condition, what is left between two requests is either marked or
\* will be drained.
THEOREM LeftoversAreCoveredHolds == ASSUME Distinguishes PROVE Spec => []LeftoversAreCovered
<1>1. ASSUME IInv PROVE LeftoversAreCovered
  <2>1. TypeOK /\ InTheQueue /\ ToBeDrained
    BY <1>1 DEF IInv, Base, Told
  <2>2. ASSUME phase = "idle", NEW line \in Outstanding, line.of \in Requests, ~line.xid
        PROVE  matchedByPath
    <3>1. PICK i \in 1..Len(Pending) : line = Pending[i]
      BY <2>1, OutstandingIsPending DEF TypeOK
    <3>2. holder = NoCaller
      BY <2>1, <2>2 DEF InTheQueue
    <3>3. QED
      BY <2>1, <2>2, <3>1, <3>2, RequestsAssumption DEF ToBeDrained, Unmarked
  <2>3. QED
    BY <2>2 DEF LeftoversAreCovered
<1>2. QED
  BY <1>1, InvariantHolds, PTL

\* Whatever the speaker does, a request that was given up leaves no line behind.
THEOREM NothingLeftOfTheFailedHolds == Spec => []NothingLeftOfTheFailed
<1>1. ASSUME IInv PROVE NothingLeftOfTheFailed
  <2>1. TypeOK /\ InTheQueue /\ EachLine
    BY <1>1 DEF IInv, Base
  <2>2. ASSUME NEW line \in Outstanding, line.of \in Requests
        PROVE  outcome[line.of] \notin {"failed", "cancelled"}
    <3>1. PICK i \in 1..Len(Pending) : line = Pending[i]
      BY <2>1, OutstandingIsPending DEF TypeOK
    <3>2. Asked(line.of)
      BY <2>1, <2>2, <3>1 DEF EachLine
    <3>3. QED
      BY <2>1, <2>2, <3>2, RequestsAssumption DEF Asked, InTheQueue
  <2>3. QED
    BY <2>2 DEF NothingLeftOfTheFailed
<1>2. QED
  BY <1>1, InvariantHolds, PTL

\* A client that was closed has no connection, and never gets one.
THEOREM ClosedForGoodHolds == Spec => []ClosedForGood
<1>1. IInv => ClosedForGood
  BY DEF IInv, Base, ClosedIsIdle, ClosedForGood
<1>2. QED
  BY <1>1, InvariantHolds, PTL

\* However long a request is, the id never takes it over the limit.
THEOREM NeverTooLongHolds == Spec => []NeverTooLong
<1>1. ASSUME IInv PROVE NeverTooLong
  <2>1. TypeOK /\ EachLine
    BY <1>1 DEF IInv, Base
  <2>2. QED
    BY <2>1, OutstandingIsPending DEF NeverTooLong, EachLine, TypeOK
<1>2. QED
  BY <1>1, InvariantHolds, PTL

(***************************************************************************)
(* The client implements RequestService.                                   *)
(***************************************************************************)

\* An answer has something in it, or says that the request was in error, only once
\* a line was taken for it.
TreeWasHeard == tree # EmptyTree => phase = "read" /\ takenFrom[holder] # {}

LEMMA TreeKept ==
    ASSUME IInv, TreeWasHeard, [Next]_vars
    PROVE  TreeWasHeard'
<1>1. CASE UNCHANGED <<tree, phase, takenFrom, holder>>
  BY <1>1 DEF TreeWasHeard
<1>2. CASE tree' = EmptyTree
  BY <1>2 DEF TreeWasHeard
<1>3. CASE PeerStep
  BY <1>1, <1>3 DEF PeerStep, Arrives, Chatters, PeerCloses, PeerResets, readVars
<1>4. CASE LockStep
  <2>1. CASE \E c \in Callers : Calls(c)
    BY <1>1, <2>1 DEF Calls, readVars
  <2>2. CASE \E i \in 1..Len(waiting) : CancelledWaiting(i)
    BY <1>1, <2>2 DEF CancelledWaiting, readVars
  <2>3. CASE BeginsToConnect \/ BeginsToDrain \/ BeginsToSend
    <3>1. phase = "idle" /\ tree' = tree
      BY <2>3 DEF BeginsToConnect, BeginsToDrain, BeginsToSend, Begins, readVars, IInv, Base,
                  InTheQueue
    <3>2. QED
      BY <1>2, <3>1 DEF TreeWasHeard
  <2>4. CASE RefusedAsClosed \/ Closes
    BY <1>1, <2>4 DEF RefusedAsClosed, Closes, readVars
  <2>5. QED
    BY <1>4, <2>1, <2>2, <2>3, <2>4 DEF LockStep
<1>5. CASE Connects \/ DrainsLine \/ DrainedQuiet \/ Sends
  <2>1. phase # "read" /\ tree' = tree
    BY <1>5 DEF Connects, DrainsLine, DrainedQuiet, Sends, Draining, readVars
  <2>2. QED
    BY <1>2, <2>1 DEF TreeWasHeard
<1>6. CASE SkipsLine
  BY <1>1, <1>6 DEF SkipsLine
<1>7. CASE MergesLine
  <2>1. /\ phase = "read" /\ phase' = phase /\ holder' = holder
        /\ takenFrom' = [takenFrom EXCEPT ![holder] = @ \cup {Head(buf).of}]
    BY <1>7 DEF MergesLine, Takes, CanRead
  <2>2. takenFrom \in [Requests -> SUBSET (Requests \cup {NoCaller})] /\ holder \in Requests
    BY <2>1 DEF IInv, Base, TypeOK, InTheQueue
  <2>3. takenFrom'[holder'] # {}
    BY <2>1, <2>2
  <2>4. QED
    BY <2>1, <2>3 DEF TreeWasHeard
<1>8. CASE \E how : Leave(how)
  BY <1>2, <1>8 DEF Leave
<1>9. CASE SendStep
  BY <1>5, <1>8, <1>9 DEF SendStep, ConnectFails, DrainGivesUp, SendFails, SendRefused, Fail
<1>10. CASE ReadStep \/ Cancelled
  BY <1>6, <1>7, <1>8, <1>10
     DEF ReadStep, CompletesAnswer, Settles, TimesOut, BreachesLimit, ReadFails, Cancelled, Fail
<1>11. QED
  BY <1>1, <1>3, <1>4, <1>9, <1>10 DEF Next, vars, readVars

servedVars == <<holder, phase = "read", takenFrom, closed, outcome>>

LEMMA LockStepServes ==
    ASSUME IInv, PeerStep \/ LockStep
    PROVE  [Service!Next]_servedVars
<1>1. TypeOK /\ InTheQueue /\ ClosedIsIdle
  BY DEF IInv, Base
<1>2. CASE PeerStep
  BY <1>2 DEF PeerStep, Arrives, Chatters, PeerCloses, PeerResets, readVars, servedVars
<1>3. ASSUME NEW c \in Callers, Calls(c) PROVE Service!Next
  BY <1>3 DEF Calls, readVars, Service!Next, Service!Asks, Callers
<1>4. ASSUME NEW i \in 1..Len(waiting), CancelledWaiting(i) PROVE Service!Next
  <2>1. waiting[i] \in Callers /\ outcome[waiting[i]] = "waiting" /\ waiting[i] # holder
    BY <1>1 DEF InTheQueue, TypeOK
  <2>2. Service!TurnsAway(waiting[i])
    BY <1>4, <2>1 DEF CancelledWaiting, readVars, Service!TurnsAway
  <2>3. QED
    BY <2>1, <2>2 DEF Service!Next, Callers
<1>5. ASSUME waiting # <<>>
      PROVE  /\ Head(waiting) \in Callers /\ outcome[Head(waiting)] = "waiting"
             /\ Head(waiting) # holder
  BY <1>1, <1>5 DEF InTheQueue, TypeOK
<1>6. CASE BeginsToConnect \/ BeginsToDrain \/ BeginsToSend
  <2>1. /\ holder = NoCaller /\ phase = "idle" /\ ~closed
        /\ waiting # <<>> /\ Head(waiting) # Closer /\ holder' = Head(waiting)
        /\ phase' \in {"connect", "drain", "send"}
        /\ UNCHANGED <<takenFrom, closed, outcome>>
    BY <1>1, <1>6
       DEF BeginsToConnect, BeginsToDrain, BeginsToSend, Begins, readVars, InTheQueue
  <2>2. Head(waiting) \in Requests /\ Service!Begins(Head(waiting))
    BY <1>5, <2>1 DEF Service!Begins, Callers
  <2>3. QED
    BY <2>2 DEF Service!Next
<1>7. CASE RefusedAsClosed
  <2>1. Service!TurnsAway(Head(waiting)) /\ Head(waiting) \in Callers
    BY <1>5, <1>7 DEF RefusedAsClosed, readVars, Service!TurnsAway
  <2>2. QED
    BY <2>1 DEF Service!Next, Callers
<1>8. CASE Closes
  <2>1. Service!Closes
    BY <1>5, <1>8 DEF Closes, CloseForGood, readVars, Service!Closes
  <2>2. QED
    BY <2>1 DEF Service!Next
<1>9. QED
  BY <1>2, <1>3, <1>4, <1>6, <1>7, <1>8 DEF LockStep

\* The holder leaves: it is answered only when it was sent, and rejected after that
\* only when its own answer said so.
LEMMA LeavingServes ==
    ASSUME IInv, phase # "idle", UNCHANGED takenFrom,
           NEW how \in {"answered", "rejected", "failed", "cancelled"}, Leave(how),
           how = "answered" => phase = "read",
           how = "rejected" /\ phase = "read" => takenFrom[holder] = {holder}
    PROVE  Service!Next
<1>1. holder # NoCaller
  BY DEF IInv, Base, InTheQueue
<1>2. Service!Ends(how)
  BY <1>1 DEF Leave, Service!Ends
<1>3. QED
  BY <1>2 DEF Service!Next

\* Under the condition of NoForeignAnswer, who was given anything was given its own.
LEMMA HeardIsOwn ==
    ASSUME Distinguishes, IInv
    PROVE  \A r \in Requests : takenFrom[r] # {} => takenFrom[r] = {r}
BY DEF IInv, Told, NoForeignAnswer

LEMMA SendStepServes ==
    ASSUME IInv, SendStep
    PROVE  [Service!Next]_servedVars
<1>1. CASE Connects \/ DrainsLine \/ DrainedQuiet
  BY <1>1 DEF Connects, DrainsLine, DrainedQuiet, Draining, readVars, servedVars
<1>2. CASE Sends
  <2>1. Service!Sends
    BY <1>2 DEF Sends, readVars, Service!Sends, IInv, Base, InTheQueue
  <2>2. QED
    BY <2>1 DEF Service!Next
<1>3. CASE ConnectFails \/ DrainGivesUp \/ SendFails
  BY <1>3, LeavingServes DEF ConnectFails, DrainGivesUp, SendFails, Fail
<1>4. CASE SendRefused
  BY <1>4, LeavingServes DEF SendRefused
<1>5. QED
  BY <1>1, <1>2, <1>3, <1>4 DEF SendStep

LEMMA ReadStepServes ==
    ASSUME Distinguishes, IInv, IInv', TreeWasHeard, ReadStep \/ Cancelled
    PROVE  [Service!Next]_servedVars
<1>1. TypeOK /\ InTheQueue
  BY DEF IInv, Base
<1>2. CASE SkipsLine
  BY <1>2 DEF SkipsLine, servedVars
<1>3. ASSUME NEW line, Takes(line)
      PROVE  takenFrom' = [takenFrom EXCEPT ![holder] = {holder}]
  <2>1. phase = "read" /\ holder \in Requests /\ holder # NoCaller
    BY <1>1, <1>3 DEF Takes, CanRead, InTheQueue
  <2>2. takenFrom' = [takenFrom EXCEPT ![holder] = takenFrom[holder] \cup {line.of}]
    BY <1>3 DEF Takes
  <2>3. takenFrom'[holder] # {}
    BY <1>1, <2>1, <2>2 DEF TypeOK
  <2>4. takenFrom'[holder] = {holder}
    BY <2>1, <2>3 DEF IInv, Told, NoForeignAnswer, Distinguishes
  <2>5. QED
    BY <1>1, <2>1, <2>2, <2>4 DEF TypeOK
<1>4. CASE MergesLine
  <2>1. Service!Hears
    BY <1>3, <1>4 DEF MergesLine, Takes, CanRead, Service!Hears, Service!OwnAnswer
  <2>2. QED
    BY <2>1 DEF Service!Next
<1>5. CASE CompletesAnswer
  <2>1. PICK how \in {"answered", "rejected"} : Leave(how)
    BY <1>5 DEF CompletesAnswer, Verdict
  <2>2. /\ phase = "read" /\ holder # NoCaller /\ holder \in Requests
        /\ takenFrom' = [takenFrom EXCEPT ![holder] = {holder}]
    BY <1>1, <1>3, <1>5 DEF CompletesAnswer, Takes, CanRead, InTheQueue
  <2>3. takenFrom'[holder] = {holder}
    BY <1>1, <2>2 DEF TypeOK
  <2>4. Service!Ends(how)
    BY <2>1, <2>2, <2>3 DEF Leave, Service!Ends, Service!OwnAnswer
  <2>5. QED
    BY <2>4 DEF Service!Next
<1>6. CASE Settles \/ BreachesLimit
  <2>1. /\ phase = "read" /\ UNCHANGED takenFrom /\ Leave(Verdict(tree))
        /\ holder \in Requests
    BY <1>1, <1>6 DEF Settles, BreachesLimit, InTheQueue
  <2>2. tree.error => takenFrom[holder] = {holder}
    BY <2>1, HeardIsOwn DEF TreeWasHeard, EmptyTree
  <2>3. QED
    BY <2>1, <2>2, LeavingServes DEF Verdict
<1>7. CASE TimesOut \/ ReadFails \/ Cancelled
  BY <1>7, LeavingServes DEF TimesOut, ReadFails, Cancelled, Fail
<1>8. QED
  BY <1>2, <1>4, <1>5, <1>6, <1>7 DEF ReadStep

\* The client serves its callers one by one: each step of the connection is a step of
\* RequestService or nothing to it.  For any callers, lines and bounds, under the
\* condition of NoForeignAnswer.
THEOREM ServesOneByOneHolds == ASSUME Distinguishes PROVE Spec => ServesOneByOne
<1>1. Init => Service!Init /\ TreeWasHeard
  BY DEF Init, Service!Init, Callers, TreeWasHeard
<1>2. IInv /\ TreeWasHeard /\ [Next]_vars => TreeWasHeard'
  BY TreeKept
<1>3. IInv /\ IInv' /\ TreeWasHeard /\ [Next]_vars => [Service!Next]_servedVars
  <2>1. CASE UNCHANGED vars
    BY <2>1 DEF vars, readVars, servedVars
  <2>2. QED
    BY <2>1, LockStepServes, SendStepServes, ReadStepServes DEF Next
<1>4. QED
  BY <1>1, <1>2, <1>3, InvariantHolds, PTL DEF Spec, ServesOneByOne, Service!Spec, servedVars

=============================================================================
