---------------------------- MODULE MCWorkspaces ----------------------------
(***************************************************************************)
(* Instances of Workspaces for TLC.                                        *)
(***************************************************************************)
EXTENDS Workspaces, FiniteSets, TLC

\* Sound where no property is temporal beyond action properties: the actions
\* treat all users and all request slots alike.
Symmetry == Permutations(Users) \cup Permutations(Requests)
=============================================================================
