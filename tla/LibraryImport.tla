---------------------------- MODULE LibraryImport ----------------------------
(***************************************************************************)
(* importApicoService of src/api/src/services/import.service.ts: the       *)
(* folders of a file, in as many passes over the list as it takes to have  *)
(* every parent created before its children; then a collection, then a     *)
(* request, of which any number are imported alike.  It is one             *)
(* transaction.  Tags are left out.                                        *)
(*                                                                         *)
(* A folder goes by its id or, without one, by its name; ids and names are *)
(* different keys.                                                         *)
(***************************************************************************)
EXTENDS Naturals, Sequences

CONSTANTS
  Length,  \* of the list of folders, which is sorted by `order`
  Ids,     \* of folders
  Names,   \* of folders without an id
  Root     \* no folder

\* What is assumed of the constants, wherever this module is instantiated.
ImportAssumption == Length \in Nat \ {0} /\ Root \notin Ids \cup Names

Places == 1 .. Length
Keys == Ids \cup Names

VARIABLES
  key,        \* key[i]: folder.id || folder.name
  parent,     \* parent[i]: folder.parentId, which may be the id of no folder
  remaining,  \* keys still to create
  created,    \* the places in the list of the folders created, in their order
  guard,      \* passes begun
  next,       \* the place that the pass has come to
  folder,     \* where the collection was put
  phase

vars == <<key, parent, remaining, created, guard, next, folder, phase>>
file == <<key, parent>>

Init ==
  /\ key \in [Places -> Keys]
  /\ parent \in [Places -> Ids \cup {Root}]
  /\ remaining = {key[i] : i \in Places}
  /\ created = <<>>
  /\ guard = 1 /\ next = 1
  /\ folder = Root
  /\ phase = "folders"

\* folderIdMap has those created that have an id.
Mapped == {key[created[j]] : j \in 1 .. Len(created)} \cap Ids

\* Faulty variant: the parent is looked for in the file, not among those created.
VisitEarly ==
  /\ phase = "folders" /\ next <= Length
  /\ next' = next + 1
  /\ IF key[next] \in remaining /\ parent[next] \in {Root} \cup {key[i] : i \in Places}
       THEN /\ created' = Append(created, next)
            /\ remaining' = remaining \ {key[next]}
       ELSE UNCHANGED <<created, remaining>>
  /\ UNCHANGED <<file, guard, folder, phase>>

\* A folder with the key of one created is passed over for good.
Visit ==
  /\ phase = "folders" /\ next <= Length
  /\ next' = next + 1
  /\ IF key[next] \in remaining /\ parent[next] \in Mapped \cup {Root}
       THEN /\ created' = Append(created, next)
            /\ remaining' = remaining \ {key[next]}
       ELSE UNCHANGED <<created, remaining>>
  /\ UNCHANGED <<file, guard, folder, phase>>

\* Faulty variant: two passes at most.
PassesTwo == 2

Passes == Length + 5

NextPass ==
  /\ phase = "folders" /\ next > Length
  /\ remaining # {} /\ guard < Passes
  /\ guard' = guard + 1 /\ next' = 1
  /\ UNCHANGED <<file, remaining, created, folder, phase>>

\* The error rolls the transaction back.
Abort(error) ==
  /\ created' = <<>> /\ folder' = Root
  /\ phase' = error
  /\ UNCHANGED <<file, remaining, guard, next>>

InvalidParents ==
  /\ phase = "folders" /\ next > Length
  /\ remaining # {} /\ guard = Passes
  /\ Abort("invalid parents")

FoldersDone ==
  /\ phase = "folders" /\ next > Length
  /\ remaining = {}
  /\ phase' = "collection"
  /\ UNCHANGED <<file, remaining, created, guard, next, folder>>

\* A collection whose name exists in the workspace is that one and stays where it
\* is; one whose folder is not in the file goes to the root.
Collection(folderId, exists) ==
  /\ phase = "collection"
  /\ folder' = IF ~exists /\ folderId \in Mapped THEN folderId ELSE Root
  /\ phase' = "request"
  /\ UNCHANGED <<file, remaining, created, guard, next>>

\* `known`: its collection has an id in the file.
Request(known) ==
  /\ phase = "request"
  /\ IF known
       THEN phase' = "done" /\ UNCHANGED <<file, remaining, created, guard, next, folder>>
       ELSE Abort("unknown collection")

Next ==
  \/ Visit \/ NextPass \/ InvalidParents \/ FoldersDone
  \/ \E folderId \in Ids \cup {Root}, exists \in BOOLEAN : Collection(folderId, exists)
  \/ \E known \in BOOLEAN : Request(known)

Spec == Init /\ [][Next]_vars

-----------------------------------------------------------------------------
TypeOK ==
  /\ key \in [Places -> Keys] /\ parent \in [Places -> Ids \cup {Root}]
  /\ remaining \subseteq Keys
  /\ created \in Seq(Places) /\ Len(created) <= Length
  /\ guard \in 1 .. Passes /\ next \in 1 .. Length + 1
  /\ folder \in Ids \cup {Root}
  /\ phase \in {"folders", "collection", "request", "done", "invalid parents",
                "unknown collection"}

\* The folders that hang, through their parents, from the root: the smallest set
\* that has every folder whose parent is the root or the id of one in the set.
Rooted ==
  LET Closed(S) == \A i \in Places :
        (parent[i] = Root \/ parent[i] \in {key[j] : j \in S} \cap Ids) => i \in S
  IN {i \in Places : \A S \in SUBSET Places : Closed(S) => i \in S}

\* The passes create one folder for every key, each after its parent and each one
\* that hangs from the root; they give up exactly when some key has no such folder,
\* and an import that fails leaves nothing behind.
ImportExact ==
  /\ phase \in {"collection", "request", "done"} =>
       /\ {key[created[j]] : j \in 1 .. Len(created)} = {key[i] : i \in Places}
       /\ \A j \in 1 .. Len(created) :
            /\ created[j] \in Rooted
            /\ \A k \in 1 .. j - 1 : key[created[k]] # key[created[j]]
            /\ parent[created[j]] = Root \/ \E k \in 1 .. j - 1 :
                                               key[created[k]] = parent[created[j]]
       /\ folder = Root \/ \E j \in 1 .. Len(created) : key[created[j]] = folder
  /\ phase = "invalid parents" => {key[i] : i \in Rooted} # {key[i] : i \in Places}
  /\ phase \in {"invalid parents", "unknown collection"} => created = <<>>

=============================================================================
