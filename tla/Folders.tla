------------------------------ MODULE Folders ------------------------------
(***************************************************************************)
(* The folder tree of the API server, the collections filed in it, and the *)
(* sidebars that show it: services/folder.service.ts and                   *)
(* services/collection.service.ts under src/api/src over the Prisma tables *)
(* Folder and Collection, and moveDraggedItem of the web's                 *)
(* CollectionsSidebar.tsx.                                                 *)
(*                                                                         *)
(* Handlers read what they check and write afterwards, without a           *)
(* transaction around both.  A row's workspace never changes and ids are   *)
(* not used again, so the lookups of a handler are one step; the write is  *)
(* another, and the foreign keys of Folder.parent (ON DELETE CASCADE) and  *)
(* Collection.folder (ON DELETE SET NULL) bind at that moment.             *)
(*                                                                         *)
(* A client is a browser tab, or any HTTP client, with one call in flight: *)
(* two calls at once are two clients.  Callers whose role does not suffice *)
(* change nothing and do not appear.  Names and order numbers are left     *)
(* out, and with them calls that change nothing else.                      *)
(***************************************************************************)
EXTENDS Naturals

CONSTANTS
  Spaces,       \* workspaces
  Folders,      \* ids of folders that may be created
  Collections,  \* ids of collections that may be created
  Clients,
  Routes,       \* the calls clients make
  AnswersLost   \* whether a client may miss the answer to a drop or a refetch

Root == "root"        \* parentId or folderId null
Absent == "absent"    \* not created yet
Deleted == "deleted"  \* its row is gone

AllRoutes == {"create", "update", "reorder", "drag", "delete", "clear"}

Items == Folders \cup Collections
Places == Folders \cup {Root}

ASSUME RoutesAssumption == Routes \subseteq AllRoutes
ASSUME IdsAssumption ==
  /\ Absent \notin Spaces \cup Folders /\ Deleted \notin Spaces
  /\ Root \notin Items
  /\ Folders \cap Collections = {}
ASSUME AnswersAssumption == AnswersLost \in BOOLEAN

VARIABLES
  space,   \* space[x]: workspaceId of the row, or Absent or Deleted
  parent,  \* parent[x]: its parentId or folderId; Root without a row
  view,    \* view[k][f]: the parent k's sidebar shows for f, or Absent
  call     \* call[k]: where client k's call is and its locals

vars == <<space, parent, view, call>>
table == <<space, parent>>

Label == {"idle", "insertFolder", "insertCollection", "move", "drop", "fetch",
          "delete"}

\* What a call asks to move, and where to.
Moves == UNION {[S -> Places] : S \in SUBSET Items}

\* A call's locals: the workspace, the place of a new row, the row to delete or
\* the folder dragged, and the moves.
Call == [at : Label, space : Spaces \cup {Absent}, place : Places,
         item : Items \cup {Root}, to : Moves]

Idle == [at |-> "idle", space |-> Absent, place |-> Root, item |-> Root,
         to |-> [x \in {} |-> Root]]

Init ==
  /\ space = [x \in Items |-> Absent]
  /\ parent = [x \in Items |-> Root]
  /\ view = [k \in Clients |-> [f \in Folders |-> Absent]]
  /\ call = [k \in Clients |-> Idle]

-----------------------------------------------------------------------------
Exists(x) == space[x] \in Spaces

Start(k, route) == call[k].at = "idle" /\ route \in Routes
At(k, label) == call[k].at = label
Goto(k, c) == call' = [call EXCEPT ![k] = c]
Reply(k) == Goto(k, Idle)

\* Faulty variant: the folder is looked up, its workspace is not compared.
FolderFoundAnywhere(p, w) == p # Root => Exists(p)

\* ensureFolderInWorkspace, which is asked only for a folder other than null.
FolderInWorkspace(p, w) == p # Root => space[p] = w

\* The foreign key, at the moment of a write.
Referable(p) == p # Root => Exists(p)

-----------------------------------------------------------------------------
(***************************************************************************)
(* createFolderService and createCollectionService.                        *)
(***************************************************************************)

BeginCreate(k) ==
  \E w \in Spaces, p \in Places, label \in {"insertFolder", "insertCollection"} :
    /\ Start(k, "create")
    /\ FolderInWorkspace(p, w)
    /\ Goto(k, [Idle EXCEPT !.at = label, !.space = w, !.place = p])
    /\ UNCHANGED <<table, view>>

\* The row x; without the folder the insert fails on the foreign key.
Insert(k, x) ==
  /\ space[x] = Absent
  /\ IF Referable(call[k].place)
       THEN /\ space' = [space EXCEPT ![x] = call[k].space]
            /\ parent' = [parent EXCEPT ![x] = call[k].place]
       ELSE UNCHANGED table
  /\ Reply(k)
  /\ UNCHANGED view

InsertFolder(k) == At(k, "insertFolder") /\ \E f \in Folders : Insert(k, f)

InsertCollection(k) ==
  At(k, "insertCollection") /\ \E c \in Collections : Insert(k, c)

-----------------------------------------------------------------------------
(***************************************************************************)
(* updateFolderService, reorderFoldersService, updateCollectionService and *)
(* reorderCollectionsService: any row may be sent anywhere.  A folder is   *)
(* kept from becoming its own parent, not from moving below itself.        *)
(***************************************************************************)

MayMoveFolder(f, p, w) ==
  /\ space[f] = w
  /\ FolderInWorkspace(p, w)
  /\ p # f

MayMoveCollection(c, p) == Exists(c) /\ FolderInWorkspace(p, space[c])

BeginUpdateFolder(k) ==
  \E f \in Folders, p \in Places :
    /\ Start(k, "update")
    /\ Exists(f)
    /\ MayMoveFolder(f, p, space[f])
    /\ Goto(k, [Idle EXCEPT !.at = "move", !.to = [x \in {f} |-> p]])
    /\ UNCHANGED <<table, view>>

BeginUpdateCollection(k) ==
  \E c \in Collections, p \in Places :
    /\ Start(k, "update")
    /\ MayMoveCollection(c, p)
    /\ Goto(k, [Idle EXCEPT !.at = "move", !.to = [x \in {c} |-> p]])
    /\ UNCHANGED <<table, view>>

BeginReorderFolders(k) ==
  /\ Start(k, "reorder")
  /\ \E w \in Spaces : \E S \in SUBSET {f \in Folders : space[f] = w} :
       \E to \in [S -> Places] :
         /\ \A f \in S : MayMoveFolder(f, to[f], w)
         /\ Goto(k, [Idle EXCEPT !.at = "move", !.to = to])
         /\ UNCHANGED <<table, view>>

BeginReorderCollections(k) ==
  \E S \in SUBSET Collections : \E to \in [S -> Places] :
    /\ Start(k, "reorder")
    /\ \A c \in S : MayMoveCollection(c, to[c])
    /\ Goto(k, [Idle EXCEPT !.at = "move", !.to = to])
    /\ UNCHANGED <<table, view>>

Possible(to) == \A x \in DOMAIN to : Exists(x) /\ Referable(to[x])

\* One transaction: all rows move, or none does when one of them, or a place, is
\* gone.
Applied(to) ==
  parent' = [x \in Items |-> IF x \in DOMAIN to THEN to[x] ELSE parent[x]]

Move(k) ==
  /\ At(k, "move")
  /\ IF Possible(call[k].to) THEN Applied(call[k].to) ELSE UNCHANGED parent
  /\ Reply(k)
  /\ UNCHANGED <<space, view>>

-----------------------------------------------------------------------------
(***************************************************************************)
(* The sidebar: moveDraggedItem and reorderFolders of useCollections.      *)
(***************************************************************************)

Shown(v, f) == v[f] # Absent

\* d and, as far as v shows them, the folders above it.
Above(v, d) ==
  {p \in Places : \A S \in SUBSET Places :
     /\ d \in S
     /\ \A f \in S \cap Folders : Shown(v, f) => v[f] \in S
     => p \in S}

\* The sidebar draws the tree from the root.
Drawn(v, p) == Root \in Above(v, p)

\* Faulty variant: only the destination itself is compared.
DropOnSelfOnly(v, f, d) == f # d

\* A folder cannot be dropped into itself or any of its descendants.
DropAllowed(v, f, d) == f \notin Above(v, d)

\* Faulty variant: the whole list is sent, not the destination's.
AllShown(v, d) == {f \in Folders : Shown(v, f)}

\* foldersByParent: the destination's list, sent whole with the folder dragged.
Siblings(v, d) == {f \in Folders : v[f] = d}

Drag(k) ==
  \E w \in Spaces, f \in Folders, d \in Places :
    LET to == [x \in Siblings(view[k], d) \cup {f} |-> d]
    IN /\ Start(k, "drag")
       /\ Drawn(view[k], f)
       /\ Drawn(view[k], d)
       /\ DropAllowed(view[k], f, d)
       /\ \A x \in DOMAIN to : MayMoveFolder(x, d, w)
       /\ Goto(k, [Idle EXCEPT !.at = "drop", !.space = w, !.item = f, !.to = to])
       /\ UNCHANGED <<table, view>>

Drop(k) ==
  /\ At(k, "drop")
  /\ IF Possible(call[k].to)
       THEN /\ Applied(call[k].to)
            /\ Goto(k, [call[k] EXCEPT !.at = "fetch"])
       ELSE Reply(k) /\ UNCHANGED parent
  /\ UNCHANGED <<space, view>>

\* getFoldersService.
Show(k, w) ==
  view' = [view EXCEPT ![k] =
             [f \in Folders |-> IF space[f] = w THEN parent[f] ELSE Absent]]

\* No further drag begins before the list has been fetched again.
Refetch(k) ==
  /\ At(k, "fetch")
  /\ Show(k, call[k].space)
  /\ Reply(k)
  /\ UNCHANGED table

\* The answer to the drop, or the list fetched after it, does not arrive.
LoseAnswer(k) ==
  /\ AnswersLost
  /\ At(k, "fetch")
  /\ Reply(k)
  /\ UNCHANGED <<table, view>>

\* Opening a workspace, or the refetch after some other change.
Open(k) ==
  \E w \in Spaces :
    /\ Start(k, "drag")
    /\ Show(k, w)
    /\ UNCHANGED <<table, call>>

-----------------------------------------------------------------------------
(***************************************************************************)
(* deleteFolderService, deleteCollectionService and                        *)
(* clearWorkspaceDataService.                                              *)
(***************************************************************************)

\* A folder and all folders below it.
Subtree(f) ==
  {g \in Folders : \A S \in SUBSET Folders :
     /\ f \in S
     /\ \A h \in Folders : parent[h] \in S => h \in S
     => g \in S}

\* Faulty variant: the collections filed there go too.
CascadeToCollections(x) ==
  LET folders == IF x \in Folders THEN Subtree(x) ELSE {x}
  IN folders \cup {c \in Collections : parent[c] \in folders}

\* What goes with x.
Cascade(x) == IF x \in Folders THEN Subtree(x) ELSE {x}

\* Faulty variant: the rows stay, their workspace is set to null.
Detach(gone) ==
  /\ space' = [x \in Items |-> IF x \in gone THEN Root ELSE space[x]]
  /\ parent' = [x \in Items |->
                  IF x \in gone \/ parent[x] \in gone THEN Root ELSE parent[x]]

\* Rows filed in a folder that goes, and that stay, move to the root.
Remove(gone) ==
  /\ space' = [x \in Items |-> IF x \in gone THEN Deleted ELSE space[x]]
  /\ parent' = [x \in Items |->
                  IF x \in gone \/ parent[x] \in gone THEN Root ELSE parent[x]]

BeginDelete(k) ==
  \E x \in Items :
    /\ Start(k, "delete")
    /\ Exists(x)
    /\ Goto(k, [Idle EXCEPT !.at = "delete", !.item = x])
    /\ UNCHANGED <<table, view>>

\* Deleting a row that is gone fails with P2025.
Delete(k) ==
  /\ At(k, "delete")
  /\ IF Exists(call[k].item) THEN Remove(Cascade(call[k].item))
                             ELSE UNCHANGED table
  /\ Reply(k)
  /\ UNCHANGED view

\* One transaction.
Clear(k) ==
  \E w \in Spaces :
    /\ Start(k, "clear")
    /\ Remove({x \in Items : space[x] = w})
    /\ UNCHANGED <<view, call>>

-----------------------------------------------------------------------------
\* A query before the write rejects, or the process dies.
Fail(k) ==
  /\ call[k].at \notin {"idle", "fetch"}
  /\ Reply(k)
  /\ UNCHANGED <<table, view>>

Serve(k) ==
  \/ BeginCreate(k) \/ InsertFolder(k) \/ InsertCollection(k)
  \/ BeginUpdateFolder(k) \/ BeginUpdateCollection(k)
  \/ BeginReorderFolders(k) \/ BeginReorderCollections(k) \/ Move(k)
  \/ Drag(k) \/ Drop(k) \/ Refetch(k) \/ LoseAnswer(k) \/ Open(k)
  \/ BeginDelete(k) \/ Delete(k) \/ Clear(k)
  \/ Fail(k)

Next == \E k \in Clients : Serve(k)

Spec == Init /\ [][Next]_vars

-----------------------------------------------------------------------------
(***************************************************************************)
(* Properties.                                                             *)
(***************************************************************************)

\* Every row, sidebar and local has its shape.
TypeOK ==
  /\ space \in [Items -> Spaces \cup {Absent, Deleted}]
  /\ parent \in [Items -> Places]
  /\ view \in [Clients -> [Folders -> Places \cup {Absent}]]
  /\ call \in [Clients -> Call]

\* Folders and collections are filed in an existing folder of their own
\* workspace or at the root, and no folder in itself, although the folder may
\* be deleted between a handler's check and its write.
Filed ==
  \A x \in Items : Exists(x) =>
    parent[x] = Root \/ (space[parent[x]] = space[x] /\ parent[x] # x)

\* Nothing goes but what a call asked to delete, a folder inside a folder that
\* goes, and everything when the workspace is cleared: deleting a folder leaves
\* the collections filed in it and below it.
GoesForCause ==
  [][\A x \in Items : Exists(x) /\ ~Exists(x)' =>
       \/ \E k \in Clients : At(k, "delete") /\ call[k].item = x
       \/ /\ x \in Folders /\ parent[x] \in Folders
          /\ space'[parent[x]] = Deleted
       \/ \A y \in Items : space[y] = space[x] => space'[y] = Deleted]_vars

\* The folders form a tree: going up from any of them ends at the root, so the
\* sidebar, which draws it from the root, shows all of them.
Tree ==
  ~ \E S \in SUBSET Folders :
      /\ S # {}
      /\ \A f \in S : Exists(f) /\ parent[f] \in S

=============================================================================
