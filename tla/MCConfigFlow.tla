---------------------------- MODULE MCConfigFlow ----------------------------
(* Instances of ConfigFlow for TLC. *)
EXTENDS ConfigFlow, TLC

CONSTANTS f1, f2, f3                  \* flows
CONSTANTS speaker, second, foreign    \* a speaker and two other devices

\* Which flow is which makes no difference.
FlowSymmetry == Permutations({f1, f2, f3})

=============================================================================
