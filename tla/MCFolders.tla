----------------------------- MODULE MCFolders -----------------------------
(***************************************************************************)
(* Instances of Folders for TLC.                                           *)
(***************************************************************************)
EXTENDS Folders, FiniteSets, TLC

\* Sound for invariants and action properties: the actions treat all
\* workspaces, folders, collections and clients alike.
Symmetry ==
  Permutations(Spaces) \cup Permutations(Folders)
    \cup Permutations(Collections) \cup Permutations(Clients)

=============================================================================
