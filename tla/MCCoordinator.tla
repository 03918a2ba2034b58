---------------------------- MODULE MCCoordinator ----------------------------
(* Instances of Coordinator for TLC. *)
EXTENDS Coordinator, TLC

\* Slow paths are interchangeable: no action and no property tells them apart.
\* Used by the safety run only.
SlowSymmetry == Permutations(SlowPaths)

=============================================================================
