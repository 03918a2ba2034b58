---------------------------- MODULE RequestService ----------------------------
(***************************************************************************)
(* What the client promises to the rest of the integration: requests that  *)
(* look atomic.                                                            *)
(*                                                                         *)
(* The speaker has one request at a time.  Each is sent to it once at the  *)
(* most, is answered with nothing but its own answer, and once it has been *)
(* sent it is only called rejected when the speaker said so.  A request    *)
(* that failed or was cancelled may have been sent or not.  After the      *)
(* client was closed, none is served.                                      *)
(***************************************************************************)

CONSTANTS
    Requests, Closer,   \* the requests, and the task that closes the client
    NoCaller            \* nobody

VARIABLES
    serving,            \* the request being served
    sent,               \* it has been sent to the speaker
    heard,              \* whose answers each request was given
    closed,
    outcome             \* how each call stands

Init ==
    /\ serving = NoCaller
    /\ sent = FALSE
    /\ heard = [r \in Requests |-> {}]
    /\ closed = FALSE
    /\ outcome = [c \in Requests \cup {Closer} |-> "new"]

Asks(c) ==
    /\ outcome[c] = "new"
    /\ outcome' = [outcome EXCEPT ![c] = "waiting"]
    /\ UNCHANGED <<serving, sent, heard, closed>>

\* A caller that is not served any more: cancelled, or the client was closed.
TurnsAway(c) ==
    /\ outcome[c] = "waiting" /\ c # serving
    /\ \/ outcome' = [outcome EXCEPT ![c] = "cancelled"]
       \/ closed /\ outcome' = [outcome EXCEPT ![c] = "failed"]
    /\ UNCHANGED <<serving, sent, heard, closed>>

Begins(r) ==
    /\ serving = NoCaller /\ ~closed
    /\ outcome[r] = "waiting"
    /\ serving' = r
    /\ UNCHANGED <<sent, heard, closed, outcome>>

Sends ==
    /\ serving # NoCaller /\ ~sent
    /\ sent' = TRUE
    /\ UNCHANGED <<serving, heard, closed, outcome>>

OwnAnswer == [heard EXCEPT ![serving] = {serving}]

Hears ==
    /\ sent
    /\ heard' = OwnAnswer
    /\ UNCHANGED <<serving, sent, closed, outcome>>

Ends(how) ==
    /\ serving # NoCaller
    /\ heard' = heard \/ (sent /\ heard' = OwnAnswer)
    /\ how = "answered" => sent
    /\ how = "rejected" /\ sent => heard'[serving] = {serving}
    /\ outcome' = [outcome EXCEPT ![serving] = how]
    /\ serving' = NoCaller /\ sent' = FALSE
    /\ UNCHANGED closed

Closes ==
    /\ serving = NoCaller
    /\ outcome[Closer] = "waiting"
    /\ outcome' = [outcome EXCEPT ![Closer] = "answered"]
    /\ closed' = TRUE
    /\ UNCHANGED <<serving, sent, heard>>

Next ==
    \/ \E c \in Requests \cup {Closer} : Asks(c) \/ TurnsAway(c)
    \/ \E r \in Requests : Begins(r)
    \/ Sends \/ Hears \/ Closes
    \/ \E how \in {"answered", "rejected", "failed", "cancelled"} : Ends(how)

Spec == Init /\ [][Next]_<<serving, sent, heard, closed, outcome>>

=============================================================================
