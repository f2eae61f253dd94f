----------------------------- MODULE MCSidebar -----------------------------
(***************************************************************************)
(* Folders for TLC twice over.  `part` says what a behaviour is about: one *)
(* sidebar and a tree of all folders, all answers arriving ("tree"), or    *)
(* clients that make every call at once, over two folders ("calls").       *)
(***************************************************************************)
EXTENDS MCFolders

VARIABLE part

\* A client that has done nothing yet.
Fresh(k) == call[k] = Idle /\ \A f \in Folders : view[k][f] = Absent

\* One workspace, no collections, none of the calls by hand.
SidebarStep(k) ==
  /\ part = "tree" /\ \A j \in Clients \ {k} : Fresh(j)
  /\ \/ BeginCreate(k) \/ InsertFolder(k) \/ Drag(k) \/ Drop(k) \/ Refetch(k) \/ Open(k)
     \/ BeginDelete(k) \/ Delete(k) \/ Clear(k) \/ Fail(k)
  /\ Cardinality({space'[x] : x \in Items} \cap Spaces) <= 1
  /\ call'[k].at # "insertCollection"

AllStep(k) ==
  /\ part = "calls" /\ Serve(k)
  /\ Cardinality({f \in Folders : space'[f] # Absent}) <= 2

SidebarInit == Init /\ part \in {"tree", "calls"}

SidebarNext == (\E k \in Clients : SidebarStep(k) \/ AllStep(k)) /\ UNCHANGED part

SidebarSpec ==
  /\ SidebarInit
  /\ [][SidebarNext]_<<vars, part>>

\* A drop moves the folder that was dragged and no other, and leaves a tree.
DropsMoveOne ==
  part = "tree" => Tree' /\ \A k \in Clients : At(k, "drop") =>
    \A f \in Folders : parent'[f] # parent[f] => f = call[k].item

\* In one sidebar a drop moves the folder that was dragged and no other, although it
\* sends and writes the whole list of its new siblings, and what is left is a tree:
\* the check for descendants, on a list that may be old, suffices.
SidebarMoves == [][DropsMoveOne]_vars

=============================================================================
