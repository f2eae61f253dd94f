--------------------------- MODULE MCEnvironments ---------------------------
(***************************************************************************)
(* Instances of Environments for TLC.                                      *)
(***************************************************************************)
EXTENDS Environments, TLC

\* Sound for invariants and action properties: the actions treat all
\* environments, names and request slots alike.
Symmetry ==
  Permutations(Envs) \cup Permutations(Names) \cup Permutations(Requests)
=============================================================================
