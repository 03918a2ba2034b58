----------------------------- MODULE SpeakerView -----------------------------
(***************************************************************************)
(* What the coordinator promises to the entities and to whoever writes: a  *)
(* view of the speaker that may lag behind, and nothing worse.             *)
(*                                                                         *)
(* Each path is a register the speaker changes at will.  What is shown of  *)
(* it is a value the speaker had, no older than the one shown before and   *)
(* no older than the last one it confirmed.  What is shown of a kept path  *)
(* does not vanish, unless everything kept is forgotten.  Values are the   *)
(* stamps of Coordinator.tla.                                              *)
(***************************************************************************)
EXTENDS Integers

CONSTANTS
    Paths,
    Lasting,    \* those whose values are kept between the polls that read them
    Absent      \* shown of a path nothing is known of; below every value

VARIABLES
    real,       \* the speaker
    shown,      \* the view
    accepted,   \* the last value the speaker confirmed to a writer
    kept        \* the lasting paths whose shown value is kept

Init ==
    /\ real = [p \in Paths |-> Absent + 1]
    /\ shown = [p \in Paths |-> Absent]
    /\ accepted = [p \in Paths |-> Absent]
    /\ kept = {}

\* The speaker changes one path, or rewrites all of them.
Changes ==
    /\ \A p \in Paths : real'[p] >= real[p]
    /\ UNCHANGED <<shown, accepted, kept>>

Fresh(p, value) ==
    /\ value # Absent /\ value <= real[p]
    /\ value >= shown[p] /\ value >= accepted[p]

\* A writer's value, as the speaker confirmed it, is shown at once.
Confirms(p) ==
    /\ Fresh(p, shown'[p])
    /\ shown' = [shown EXCEPT ![p] = shown'[p]]
    /\ accepted' = [accepted EXCEPT ![p] = shown'[p]]
    /\ kept' = kept \cup ({p} \cap Lasting)
    /\ UNCHANGED real

\* A poll: each path is shown as before or anew; one that is not kept may vanish.
Publishes ==
    /\ \A p \in Paths :
         \/ shown'[p] = shown[p]
         \/ Fresh(p, shown'[p])
         \/ shown'[p] = Absent /\ p \notin kept
    /\ kept \subseteq kept'
    /\ kept' \subseteq {p \in Lasting : shown'[p] # Absent}
    /\ UNCHANGED <<real, accepted>>

\* A factory reset: what was kept is of a speaker that is no more.
Forgets == kept' = {} /\ UNCHANGED <<real, shown, accepted>>

Next ==
    \/ Changes \/ Publishes \/ Forgets
    \/ \E p \in Paths : Confirms(p)

Spec == Init /\ [][Next]_<<real, shown, accepted, kept>>

=============================================================================
