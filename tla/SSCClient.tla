------------------------------ MODULE SSCClient ------------------------------
(***************************************************************************)
(* One SSC connection (ssc_client.py): requests from several tasks go      *)
(* through one lock, one TCP connection that comes and goes, and a reader  *)
(* that has to tell the answer to this request from what an earlier answer *)
(* left behind.                                                            *)
(*                                                                         *)
(* Each request is made once; another request for the same path is another *)
(* element of Requests.  A line of an answer is what the client looks at:  *)
(* whether it echoes the transaction id, and what it carries at the path   *)
(* asked for.  Times are not modelled: a timeout may happen whenever the   *)
(* code waits under one.                                                   *)
(***************************************************************************)
EXTENDS Integers, Sequences

CONSTANTS
    Requests,       \* the requests made of this client, by whichever task
    OscMethods,     \* of those, the osc methods
    Tokens,         \* json_tokens() of each, before an id is added
    MaxTokens,      \* _MAX_REQUEST_TOKENS: a speaker takes no longer request
    XidTokens,      \* _XID_TOKENS: what an id adds
    PathOf,         \* the path each one asks for or sets
    Closer,         \* the task that calls close()
    NoCaller,       \* nobody: the lock is free, a line answers no request
    LineKinds,      \* the kinds of lines the speaker may answer with
    EchoesXid,      \* every line of an answer echoes the request's id
    Prompt,         \* a speaker sends all of an answer without long pauses
    Chatty,         \* a speaker sends unusable lines now and then, for ever
    MaxAnswer,      \* bound: lines of one answer
    MaxLines,       \* _MAX_RESPONSE_LINES
    MaxDrain        \* _MAX_STALE_DRAIN_LINES

ASSUME RequestsAssumption ==
    /\ OscMethods \subseteq Requests
    /\ Closer \notin Requests
    /\ NoCaller \notin Requests \cup {Closer}
    /\ EchoesXid \in BOOLEAN /\ Prompt \in BOOLEAN /\ Chatty \in BOOLEAN

\* No payload is too long in itself: the longest, a set of a 20-band equaliser,
\* is exactly at the limit.
ASSUME TokensAssumption ==
    /\ MaxTokens \in Nat /\ XidTokens \in Nat
    /\ Tokens \in [Requests -> 0..MaxTokens]

ASSUME LinesAssumption ==
    /\ LineKinds \subseteq {"value", "null", "part", "error", "junk", "huge"}
    /\ MaxAnswer \in Nat
    /\ MaxLines \in Nat \ {0}
    /\ MaxDrain \in Nat \ {0}

Callers == Requests \cup {Closer}

\* `value' and `null' carry the path of the request they answer, `part' another
\* piece of its tree, `junk' is no JSON object, `huge' breaks the line limit, and
\* `toolong' is the error 413.
Lines == [of: Requests \cup {NoCaller}, xid: BOOLEAN, kind: LineKinds \cup {"junk", "toolong"}]

VARIABLES
    holder,         \* the caller inside the lock
    waiting,        \* the callers queued at it, first come first served
    phase,          \* where the holder is
    closed,         \* self._closed
    conn,           \* self._writer/_reader and the state of that connection
    matchedByPath,  \* self._matched_by_path
    owed,           \* lines the speaker is still going to send on it
    buf,            \* lines that have arrived and were not read
    touched,        \* this read has taken a line off the socket, of any kind
    count,          \* lines this drain or this read has taken in
    tree,           \* the merged answer: an error, what is at the path
    takenFrom,      \* history: whose lines were merged into each answer
    outcome         \* how each call stands

connVars == <<conn, matchedByPath, owed, buf>>
readVars == <<touched, count, tree, takenFrom>>
vars == <<holder, waiting, phase, closed, connVars, readVars, outcome>>

Phases   == {"idle", "connect", "drain", "send", "read"}
Outcomes == {"new", "waiting", "answered", "rejected", "failed", "cancelled"}
Trees    == [error: BOOLEAN, at: {"missing", "null", "value"}]

EmptyTree == [error |-> FALSE, at |-> "missing"]

TypeOK ==
    /\ holder \in Callers \cup {NoCaller}
    /\ waiting \in Seq(Callers)
    /\ phase \in Phases
    /\ closed \in BOOLEAN
    /\ conn \in {"none", "open", "eof", "reset"}
    /\ matchedByPath \in BOOLEAN
    /\ owed \in Seq(Lines)
    /\ buf \in Seq(Lines)
    /\ touched \in BOOLEAN
    /\ count \in 0..(IF MaxLines > MaxDrain THEN MaxLines ELSE MaxDrain)
    /\ tree \in Trees
    /\ takenFrom \in [Requests -> SUBSET (Requests \cup {NoCaller})]
    /\ outcome \in [Callers -> Outcomes]

Init ==
    /\ holder = NoCaller
    /\ waiting = <<>>
    /\ phase = "idle"
    /\ closed = FALSE
    /\ conn = "none"
    /\ matchedByPath = FALSE
    /\ owed = <<>>
    /\ buf = <<>>
    /\ touched = FALSE
    /\ count = 0
    /\ tree = EmptyTree
    /\ takenFrom = [r \in Requests |-> {}]
    /\ outcome = [c \in Callers |-> "new"]

(***************************************************************************)
(* The speaker and the network.                                            *)
(***************************************************************************)

\* MUTANT: the tokens of the id itself are not counted.
FitsByItself(r) == r \notin OscMethods /\ Tokens[r] <= MaxTokens

\* _next_xid()
CarriesXid(r) == r \notin OscMethods /\ Tokens[r] + XidTokens <= MaxTokens

TooLong(r) == Tokens[r] + (IF CarriesXid(r) THEN XidTokens ELSE 0) > MaxTokens

\* What a speaker may answer: nothing, or a few lines.  It echoes the id only of
\* a request that carries one, and once a line has echoed it so do the rest.  A
\* request that is too long is refused, without an id.
Answers(r) ==
    IF TooLong(r) THEN {<<[of |-> r, xid |-> FALSE, kind |-> "toolong"]>>}
    ELSE { a \in UNION { [1..n -> [of: {r}, xid: BOOLEAN, kind: LineKinds]] : n \in 0..MaxAnswer } :
            \A i \in DOMAIN a :
                /\ a[i].xid => CarriesXid(r)
                /\ EchoesXid /\ CarriesXid(r) => a[i].xid
                /\ \A j \in 1..i : a[j].xid => a[i].xid }

Arrives ==
    /\ conn = "open" /\ owed # <<>>
    /\ buf' = Append(buf, Head(owed))
    /\ owed' = Tail(owed)
    /\ UNCHANGED <<holder, waiting, phase, closed, conn, matchedByPath, readVars, outcome>>

Chatters ==
    /\ Chatty
    /\ conn = "open" /\ buf = <<>>
    /\ buf' = <<[of |-> NoCaller, xid |-> FALSE, kind |-> "junk"]>>
    /\ UNCHANGED <<holder, waiting, phase, closed, conn, matchedByPath, owed, readVars, outcome>>

\* The speaker closes its end: what has arrived can still be read, and the
\* writer does not notice.
PeerCloses ==
    /\ conn = "open"
    /\ conn' = "eof"
    /\ owed' = <<>>
    /\ UNCHANGED <<holder, waiting, phase, closed, matchedByPath, buf, readVars, outcome>>

\* A reset takes the transport down: nothing can be read any more.
PeerResets ==
    /\ conn \in {"open", "eof"}
    /\ conn' = "reset"
    /\ owed' = <<>>
    /\ buf' = <<>>
    /\ UNCHANGED <<holder, waiting, phase, closed, matchedByPath, readVars, outcome>>

(***************************************************************************)
(* The lock (asyncio.Lock): handed over first come, first served.          *)
(***************************************************************************)

Calls(c) ==
    /\ outcome[c] = "new"
    /\ outcome' = [outcome EXCEPT ![c] = "waiting"]
    /\ waiting' = Append(waiting, c)
    /\ UNCHANGED <<holder, phase, closed, connVars, readVars>>

\* A caller cancelled before it had the lock leaves no trace on the connection.
CancelledWaiting(i) ==
    /\ outcome' = [outcome EXCEPT ![waiting[i]] = "cancelled"]
    /\ waiting' = SubSeq(waiting, 1, i - 1) \o SubSeq(waiting, i + 1, Len(waiting))
    /\ UNCHANGED <<holder, phase, closed, connVars, readVars>>

\* The holder returns or raises, and releases the lock.
Leave(how) ==
    /\ outcome' = [outcome EXCEPT ![holder] = how]
    /\ holder' = NoCaller
    /\ phase' = "idle"
    /\ touched' = FALSE
    /\ count' = 0
    /\ tree' = EmptyTree
    /\ UNCHANGED <<waiting, closed>>

\* MUTANT: a failed request keeps its connection.
KeepConnection == UNCHANGED connVars

\* _drop_connection()
Drop ==
    /\ conn' = "none"
    /\ matchedByPath' = FALSE
    /\ owed' = <<>>
    /\ buf' = <<>>

\* SSCConnectionError or SSCTimeoutError: _locked_request drops the connection.
Fail == Leave("failed") /\ Drop

(***************************************************************************)
(* _locked_request: connect or drain, send, read.                          *)
(***************************************************************************)

Usable == conn \in {"open", "eof"}    \* a writer that is not closing

\* The next caller gets the lock; _ensure_connected() up to its first await.
Begins(phaseNext) ==
    /\ holder = NoCaller /\ waiting # <<>> /\ Head(waiting) # Closer
    /\ holder' = Head(waiting)
    /\ waiting' = Tail(waiting)
    /\ ~closed
    /\ phase' = phaseNext
    /\ UNCHANGED <<closed, connVars, readVars, outcome>>

BeginsToConnect == ~Usable /\ Begins("connect")
BeginsToDrain   == Usable /\ matchedByPath /\ Begins("drain")
BeginsToSend    == Usable /\ ~matchedByPath /\ Begins("send")

\* The entry is being unloaded: this client never connects again.
RefusedAsClosed ==
    /\ holder = NoCaller /\ waiting # <<>> /\ Head(waiting) # Closer
    /\ closed
    /\ outcome' = [outcome EXCEPT ![Head(waiting)] = "failed"]
    /\ waiting' = Tail(waiting)
    /\ Drop
    /\ UNCHANGED <<holder, phase, closed, readVars>>

\* MUTANT: close() only drops the connection.
CloseForNow == UNCHANGED closed

CloseForGood == closed' = TRUE

\* close(): takes the lock, so it waits for the request under way.
Closes ==
    /\ holder = NoCaller /\ waiting # <<>> /\ Head(waiting) = Closer
    /\ CloseForGood
    /\ waiting' = Tail(waiting)
    /\ outcome' = [outcome EXCEPT ![Closer] = "answered"]
    /\ conn' = "none"
    /\ owed' = <<>>
    /\ buf' = <<>>
    /\ UNCHANGED <<holder, phase, matchedByPath, readVars>>

Connects ==
    /\ phase = "connect"
    /\ conn' = "open"
    /\ owed' = <<>>
    /\ buf' = <<>>
    /\ phase' = "send"
    /\ UNCHANGED <<holder, waiting, closed, matchedByPath, readVars, outcome>>

ConnectFails == phase = "connect" /\ Fail /\ UNCHANGED takenFrom

\* MUTANT: the drain goes on for as long as lines come in.
DrainsForEver == phase = "drain" /\ Usable

\* _discard_stale_lines() looks at the socket again.
Draining == phase = "drain" /\ Usable /\ count < MaxDrain

DrainsLine ==
    /\ Draining
    /\ buf # <<>> /\ Head(buf).kind # "huge"
    /\ count' = count + 1
    /\ buf' = Tail(buf)
    /\ UNCHANGED <<holder, waiting, phase, closed, conn, matchedByPath, owed,
                   touched, tree, takenFrom, outcome>>

\* Nothing arrived within the drain window.  That window is no guarantee with a
\* speaker that pauses: what it still owes may come later.
DrainedQuiet ==
    /\ Draining /\ conn = "open"
    /\ buf = <<>>
    /\ Prompt => owed = <<>>
    /\ phase' = "send"
    /\ count' = 0
    /\ UNCHANGED <<holder, waiting, closed, connVars, touched, tree, takenFrom, outcome>>

\* Too many stale lines or seconds, or a broken connection: the drain drops it,
\* and the request fails for want of one.
DrainGivesUp ==
    /\ phase = "drain"
    /\ \/ count > 0
       \/ ~Usable
       \/ conn = "eof" /\ buf = <<>>
       \/ buf # <<>> /\ Head(buf).kind = "huge"
    /\ Fail
    /\ UNCHANGED takenFrom

\* A read starts out as matched by path, until a line says otherwise.
Sends ==
    /\ phase = "send" /\ Usable
    /\ \E answer \in Answers(holder) :
         owed' = IF conn = "open" THEN owed \o answer ELSE owed
    /\ matchedByPath' = TRUE
    /\ phase' = "read"
    /\ UNCHANGED <<holder, waiting, closed, conn, buf, readVars, outcome>>

\* The peer is gone by the time of the write.
SendFails == phase = "send" /\ conn # "open" /\ Fail /\ UNCHANGED takenFrom

\* A non-finite number is refused before anything is written.
SendRefused ==
    /\ phase = "send"
    /\ Leave("rejected")
    /\ UNCHANGED <<connVars, takenFrom>>

(***************************************************************************)
(* _read_lines_until_settled                                               *)
(***************************************************************************)

\* MUTANT: a line is never late.
NeverLate(line) == FALSE

\* _is_late: it carries the id of another request.
Late(line) == line.xid /\ line.of # holder

\* SSCDeviceError for an answer with an osc/error, else the tree itself.
Verdict(answer) == IF answer.error THEN "rejected" ELSE "answered"

\* The tree with one more line merged in (deep_merge): the newer line wins.
Merged(line) ==
    [error |-> tree.error \/ line.kind \in {"error", "toolong"},
     at    |-> IF line.kind \in {"value", "null"} /\ PathOf[line.of] = PathOf[holder]
               THEN line.kind ELSE tree.at]

\* _answer_complete: a null counts only in a line with the request's id.
Complete(line) ==
    \/ Merged(line).error
    \/ Merged(line).at = "value"
    \/ (Merged(line).at = "null" /\ line.xid)

CanRead == phase = "read" /\ Usable /\ buf # <<>> /\ count < MaxLines

SkipsLine ==
    /\ CanRead
    /\ \/ Head(buf).kind = "junk"
       \/ Late(Head(buf)) /\ Head(buf).kind # "huge"
    /\ buf' = Tail(buf)
    /\ touched' = TRUE
    /\ UNCHANGED <<holder, waiting, phase, closed, conn, matchedByPath, owed,
                   count, tree, takenFrom, outcome>>

Takes(line) ==
    /\ CanRead
    /\ line = Head(buf)
    /\ line.kind \notin {"junk", "huge"} /\ ~Late(line)
    /\ buf' = Tail(buf)
    /\ takenFrom' = [takenFrom EXCEPT ![holder] = @ \cup {line.of}]
    /\ UNCHANGED <<conn, owed>>

MergesLine ==
    /\ Takes(Head(buf))
    /\ ~Complete(Head(buf))
    /\ tree' = Merged(Head(buf))
    /\ touched' = TRUE
    /\ count' = count + 1
    /\ UNCHANGED <<holder, waiting, phase, closed, matchedByPath, outcome>>

\* MUTANT: an answer always counts as matched by its id.
MatchedByXid(line) == FALSE

MatchedByPathAfter(line) == ~line.xid

CompletesAnswer ==
    /\ Takes(Head(buf))
    /\ Complete(Head(buf))
    /\ matchedByPath' = MatchedByPathAfter(Head(buf))
    /\ Leave(Verdict(Merged(Head(buf))))

Received == takenFrom[holder] # {}

\* Quiet for the settle time: what has arrived is the answer.  The timeout may
\* win over a line that arrives at the same moment.
Settles ==
    /\ phase = "read" /\ Usable /\ Received
    /\ count < MaxLines
    /\ Leave(Verdict(tree))
    /\ UNCHANGED <<connVars, takenFrom>>

TimesOut ==
    /\ phase = "read" /\ Usable /\ ~Received
    /\ Fail
    /\ UNCHANGED takenFrom

\* MUTANT: the time limit counts only once a line was merged.
LimitAfterMerge == Received

\* The time limit is looked at after every line taken off the socket.
LimitApplies == touched

\* A hard bound is crossed: what was merged is returned, the rest of the
\* answer is cut off with the connection.
BreachesLimit ==
    /\ phase = "read"
    /\ LimitApplies \/ count >= MaxLines
    /\ Leave(Verdict(tree))
    /\ Drop
    /\ UNCHANGED takenFrom

ReadFails ==
    /\ phase = "read"
    /\ \/ ~Usable
       \/ conn = "eof" /\ buf = <<>>
       \/ buf # <<>> /\ Head(buf).kind = "huge"
    /\ Fail
    /\ UNCHANGED takenFrom

\* The task is cancelled at whichever await it is at.
Cancelled ==
    /\ phase # "idle"
    /\ Leave("cancelled")
    /\ Drop
    /\ UNCHANGED takenFrom

(***************************************************************************)
(* The specification.                                                      *)
(***************************************************************************)

PeerStep == Arrives \/ Chatters \/ PeerCloses \/ PeerResets

LockStep ==
    \/ \E c \in Callers : Calls(c)
    \/ \E i \in 1..Len(waiting) : CancelledWaiting(i)
    \/ BeginsToConnect \/ BeginsToDrain \/ BeginsToSend
    \/ RefusedAsClosed \/ Closes

SendStep ==
    \/ Connects \/ ConnectFails
    \/ DrainsLine \/ DrainedQuiet \/ DrainGivesUp
    \/ Sends \/ SendFails \/ SendRefused

ReadStep ==
    \/ SkipsLine \/ MergesLine \/ CompletesAnswer
    \/ Settles \/ TimesOut \/ BreachesLimit \/ ReadFails

Next == PeerStep \/ LockStep \/ SendStep \/ ReadStep \/ Cancelled

Spec == Init /\ [][Next]_vars

(***************************************************************************)
(* Fairness.  Nothing is expected of the speaker or of the network.  The   *)
(* event loop resumes whoever can go on; connecting, draining and reading  *)
(* are each under a timeout.  A timeout that every line restarts is only   *)
(* certain to fire while no line comes in, the time limit of the read only *)
(* once a line has been taken.                                             *)
(***************************************************************************)
Fairness ==
    /\ WF_vars(BeginsToConnect \/ BeginsToDrain \/ BeginsToSend
               \/ RefusedAsClosed \/ Closes)
    /\ WF_vars(Connects \/ ConnectFails)
    /\ WF_vars(DrainsLine \/ DrainedQuiet \/ DrainGivesUp)
    /\ WF_vars(Sends \/ SendFails \/ SendRefused)
    /\ WF_vars(SkipsLine \/ MergesLine \/ CompletesAnswer)
    /\ WF_vars(buf = <<>> /\ (Settles \/ TimesOut))
    /\ WF_vars(BreachesLimit)
    /\ WF_vars(ReadFails)

FairSpec == Spec /\ Fairness

(***************************************************************************)
(* Properties.                                                             *)
(***************************************************************************)

\* No request is answered, and none is failed, with a line that belongs to
\* another one - as long as the speaker does not pause within an answer longer
\* than the drain waits, or echoes the id in every line (_is_late, the drain,
\* and dropping the connection whenever an answer is given up).
NoForeignAnswer == \A r \in Requests : takenFrom[r] \subseteq {r}

Outstanding == {buf[i] : i \in DOMAIN buf} \cup {owed[i] : i \in DOMAIN owed}

\* Between two requests, whatever is left of an earlier answer is either
\* recognisable by its id or will be drained before the next request is sent.
LeftoversAreCovered ==
    phase = "idle" =>
        \A line \in Outstanding : line.of \in Requests /\ ~line.xid => matchedByPath

\* A request that was given up - timed out, cancelled, broken off - leaves nothing
\* on the connection: not a line that came, not one that is still to come.
NothingLeftOfTheFailed ==
    \A line \in Outstanding :
        line.of \in Requests => outcome[line.of] \notin {"failed", "cancelled"}

\* After close() there is no connection, whoever was queued behind it and
\* whatever they do (an entry that is unloaded must not reopen one).
ClosedForGood == outcome[Closer] = "answered" => conn = "none"

\* Every call ends, however long the speaker keeps talking (the bounds of the
\* drain and of the read).
EveryCallEnds ==
    \A c \in Callers : outcome[c] = "waiting" ~> outcome[c] # "waiting"

\* No request is refused for the id the client has added to it, at whatever
\* distance from the limit its own length is (_next_xid).
NeverTooLong == \A line \in Outstanding : line.kind # "toolong"

Service == INSTANCE RequestService WITH
    serving <- holder, sent <- (phase = "read"), heard <- takenFrom

\* The other modules take a request for one step, and this is why they may: whatever
\* callers, cancellations, broken connections and late lines come together, the
\* speaker has one request at a time, each once, and each gets its own answer.
ServesOneByOne == Service!Spec

=============================================================================
