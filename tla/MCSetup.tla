------------------------------- MODULE MCSetup -------------------------------
(* Instances of Setup for TLC. *)
EXTENDS Setup

CONSTANTS a1, a2, a3        \* addresses
CONSTANTS own, other          \* the speaker and a stranger

=============================================================================
