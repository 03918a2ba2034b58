----------------------------- MODULE ExportShelf -----------------------------
(***************************************************************************)
(* What an export promises, for the backup and the discovery alike: a file *)
(* the user is pointed at, and a copy in Home Assistant's store.           *)
(*                                                                         *)
(* The file is replaced whole, by a usable record or not at all; the store *)
(* only ever takes what the file holds at that moment.  It may lag behind, *)
(* and a failure or a restart between the two leaves it behind, but it     *)
(* never holds a record the user had no file of.                           *)
(***************************************************************************)

CONSTANTS
    Usable,     \* the records worth keeping
    None        \* nothing was exported yet

VARIABLES file, store

TypeOK == file \in Usable \cup {None} /\ store \in Usable \cup {None}

Init == file = None /\ store = None

Replace == file' \in Usable /\ UNCHANGED store

Copy == file \in Usable /\ store' = file /\ UNCHANGED file

Next == Replace \/ Copy

Spec == Init /\ [][Next]_<<file, store>>

=============================================================================
