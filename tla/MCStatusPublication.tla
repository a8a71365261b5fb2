------------------------ MODULE MCStatusPublication ------------------------
(* Instances of StatusPublication for TLC.                                 *)
EXTENDS StatusPublication, TLC

\* Runners are interchangeable.
Runners == Permutations(Publishers)
=============================================================================
