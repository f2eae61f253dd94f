--------------------------- MODULE FoldersProofs ---------------------------
(***************************************************************************)
(* Theorems about Folders, for any number of workspaces, folders,          *)
(* collections and clients, any choice of calls, answers lost or not.      *)
(*                                                                         *)
(* Filed is not inductive by itself: a write moves rows that were checked  *)
(* some time before.  What a handler checked stays true up to deletion,    *)
(* because the workspace of a row never changes and ids are not used       *)
(* again; Checked says so of every call under way.                         *)
(***************************************************************************)
EXTENDS MCSidebar, TLAPS

\* x may be filed in p, unless one of them has been deleted.
Fits(x, p) ==
  p # Root =>
    /\ p # x
    /\ \E w \in Spaces : space[x] \in {w, Deleted} /\ space[p] \in {w, Deleted}

CheckedCall(c) ==
  /\ c.at \in {"insertFolder", "insertCollection"} =>
       /\ c.space \in Spaces
       /\ c.place # Root => space[c.place] \in {c.space, Deleted}
  /\ c.at \in {"move", "drop"} => \A x \in DOMAIN c.to : Fits(x, c.to[x])
  /\ c.at = "delete" => c.item \in Items

Checked == \A k \in Clients : CheckedCall(call[k])

IInv == TypeOK /\ Filed /\ Checked

USE IdsAssumption DEF Items, Places

-----------------------------------------------------------------------------
\* Idle and the calls under way have the shape of a call.
LEMMA IdleIsCall == Idle \in Call
<1>1. Idle.to \in [{} -> Places]
  BY DEF Idle
<1>2. Idle.to \in Moves
  BY <1>1 DEF Moves
<1> QED BY <1>2 DEF Idle, Call, Label

LEMMA MovesAreMoves ==
  ASSUME NEW S \in SUBSET (Folders \cup Collections), NEW to \in [S -> Folders \cup {Root}]
  PROVE  to \in Moves
BY DEF Moves

\* A folder that goes because another one is deleted lies inside a folder that
\* goes too.
LEMMA SubtreeParent ==
  ASSUME NEW f \in Folders, NEW g \in Subtree(f), g # f
  PROVE  parent[g] \in Subtree(f)
<1> SUFFICES ASSUME parent[g] \notin Subtree(f) PROVE FALSE
  OBVIOUS
<1>1. PICK S \in SUBSET Folders :
        /\ f \in S /\ parent[g] \notin S
        /\ \A h \in Folders : parent[h] \in S => h \in S
  <2>1. CASE parent[g] \in Folders
    BY <2>1 DEF Subtree
  <2>2. CASE parent[g] \notin Folders
    BY <2>2
  <2> QED BY <2>1, <2>2
<1>2. f \in S \ {g} /\ \A h \in Folders : parent[h] \in S \ {g} => h \in S \ {g}
  BY <1>1
<1>3. S \ {g} \in SUBSET Folders
  OBVIOUS
<1>4. g \in S \ {g}
  BY <1>2, <1>3 DEF Subtree
<1> QED BY <1>4

LEMMA CascadeInItems ==
  ASSUME NEW x \in Folders
  PROVE  Cascade(x) \subseteq Folders
BY DEF Cascade, Subtree

-----------------------------------------------------------------------------
\* Rows keep their workspace until they are deleted, for good.
Kept ==
  \A x \in Items : space[x] # Absent => space'[x] \in {space[x], Deleted}

LEMMA Lasts ==
  ASSUME NEW c \in Call, CheckedCall(c), Kept
  PROVE  CheckedCall(c)'
<1>1. ASSUME NEW x \in Folders \cup Collections, NEW p \in Folders \cup {Root}, Fits(x, p)
      PROVE  Fits(x, p)'
  BY <1>1 DEF Fits, Kept, Absent, Deleted
<1>2. \A x \in DOMAIN c.to : x \in Folders \cup Collections /\ c.to[x] \in Folders \cup {Root}
  BY DEF Call, Moves
<1>3. c.at \in {"move", "drop"} => \A x \in DOMAIN c.to : Fits(x, c.to[x])'
  BY <1>1, <1>2 DEF CheckedCall
<1>4. c.place # Root => c.place \in Folders
  BY DEF Call
<1>5. c.at \in {"insertFolder", "insertCollection"} =>
        /\ c.space \in Spaces
        /\ c.place # Root => space'[c.place] \in {c.space, Deleted}
  BY <1>4 DEF CheckedCall, Kept, Absent, Deleted
<1>6. c.at = "delete" => c.item \in Items
  BY DEF CheckedCall
<1> QED BY <1>3, <1>5, <1>6 DEF CheckedCall

\* A step that leads one call on and keeps the tables as they should be.
LEMMA StepGoto ==
  ASSUME IInv, NEW k \in Clients, NEW c \in Call, CheckedCall(c), Goto(k, c), Kept,
         space' \in [Items -> Spaces \cup {Absent, Deleted}],
         parent' \in [Items -> Places],
         view' \in [Clients -> [Folders -> Places \cup {Absent}]],
         Filed'
  PROVE  IInv'
<1>1. call' \in [Clients -> Call]
  BY DEF IInv, TypeOK, Goto
<1>2. TypeOK'
  BY <1>1 DEF TypeOK
<1>3. ASSUME NEW j \in Clients PROVE CheckedCall(call[j])'
  <2>1. call'[j] \in Call /\ CheckedCall(call'[j])
    BY DEF IInv, TypeOK, Checked, Goto
  <2>2. \A d : d \in Call /\ CheckedCall(d) => CheckedCall(d)'
    BY Lasts
  <2> QED BY <2>1, <2>2
<1> QED BY <1>2, <1>3 DEF IInv, Checked

\* A step that leaves the tables alone.
LEMMA StepCall ==
  ASSUME IInv, NEW k \in Clients, NEW c \in Call, CheckedCall(c), Goto(k, c),
         UNCHANGED <<table, view>>
  PROVE  IInv'
<1>1. Kept
  BY DEF Kept, table
<1>2. Filed'
  BY DEF IInv, Filed, Exists, table
<1>3. /\ space' \in [Items -> Spaces \cup {Absent, Deleted}]
      /\ parent' \in [Items -> Places]
      /\ view' \in [Clients -> [Folders -> Places \cup {Absent}]]
  BY DEF IInv, TypeOK, table
<1> QED BY <1>1, <1>2, <1>3, StepGoto

LEMMA IdleChecked == CheckedCall(Idle)
BY DEF CheckedCall, Idle

LEMMA StepReply ==
  ASSUME IInv, NEW k \in Clients, Reply(k), UNCHANGED <<table, view>>
  PROVE  IInv'
BY IdleIsCall, IdleChecked, StepCall DEF Reply

LEMMA InitInv == Init => IInv
<1> SUFFICES ASSUME Init PROVE IInv
  OBVIOUS
<1>1. TypeOK
  BY IdleIsCall DEF Init, TypeOK
<1>2. Filed
  BY DEF Init, Filed, Exists, Root
<1>3. Checked
  BY IdleChecked DEF Init, Checked
<1> QED BY <1>1, <1>2, <1>3 DEF IInv

-----------------------------------------------------------------------------
(***************************************************************************)
(* The handlers' checks: what they find is what Checked keeps.             *)
(***************************************************************************)

\* A call that begins to move rows, each of which may be moved.
LEMMA BeginMoves ==
  ASSUME IInv, NEW k \in Clients, NEW S \in SUBSET Items, NEW to \in [S -> Places],
         \A x \in S : Fits(x, to[x]),
         NEW c \in Call, c.at \in {"move", "drop"}, c.to = to,
         Goto(k, c), UNCHANGED <<table, view>>
  PROVE  IInv'
<1>1. CheckedCall(c)
  BY DEF CheckedCall
<1> QED BY <1>1, StepCall

LEMMA BeginMove ==
  ASSUME IInv, NEW k \in Clients, NEW S \in SUBSET Items, NEW to \in [S -> Places],
         \A x \in S : Fits(x, to[x]),
         Goto(k, [Idle EXCEPT !.at = "move", !.to = to]), UNCHANGED <<table, view>>
  PROVE  IInv'
<1> DEFINE c == [Idle EXCEPT !.at = "move", !.to = to]
<1>1. to \in Moves
  BY MovesAreMoves
<1>2. c \in Call
  BY <1>1, IdleIsCall DEF Call, Label
<1>3. c.at = "move" /\ c.to = to
  BY DEF Idle
<1>4. Goto(k, c)
  OBVIOUS
<1> HIDE DEF c
<1> QED BY <1>2, <1>3, <1>4, BeginMoves

LEMMA FolderFits ==
  ASSUME NEW f \in Folders, NEW p \in Places, NEW w \in Spaces, MayMoveFolder(f, p, w)
  PROVE  Fits(f, p)
BY DEF MayMoveFolder, FolderInWorkspace, Fits

LEMMA CollectionFits ==
  ASSUME NEW c \in Collections, NEW p \in Places, MayMoveCollection(c, p)
  PROVE  Fits(c, p)
BY DEF MayMoveCollection, FolderInWorkspace, Exists, Fits

LEMMA BeginCreateInv ==
  ASSUME IInv, NEW k \in Clients, BeginCreate(k)
  PROVE  IInv'
<1>1. PICK w \in Spaces, p \in Places, label \in {"insertFolder", "insertCollection"} :
        /\ FolderInWorkspace(p, w)
        /\ Goto(k, [Idle EXCEPT !.at = label, !.space = w, !.place = p])
        /\ UNCHANGED <<table, view>>
  BY DEF BeginCreate
<1> DEFINE c == [Idle EXCEPT !.at = label, !.space = w, !.place = p]
<1>2. c \in Call
  BY IdleIsCall DEF Call, Label
<1>3. c.at = label /\ c.space = w /\ c.place = p
  BY DEF Idle
<1>4. CheckedCall(c)
  BY <1>1, <1>3 DEF CheckedCall, FolderInWorkspace
<1> HIDE DEF c
<1> QED BY <1>1, <1>2, <1>4, StepCall DEF c

LEMMA BeginUpdateInv ==
  ASSUME IInv, NEW k \in Clients, BeginUpdateFolder(k) \/ BeginUpdateCollection(k)
  PROVE  IInv'
<1>1. PICK x \in Items, p \in Places :
        /\ Fits(x, p)
        /\ Goto(k, [Idle EXCEPT !.at = "move", !.to = [y \in {x} |-> p]])
        /\ UNCHANGED <<table, view>>
  <2>1. CASE BeginUpdateFolder(k)
    BY <2>1, FolderFits DEF BeginUpdateFolder, Exists
  <2>2. CASE BeginUpdateCollection(k)
    BY <2>2, CollectionFits DEF BeginUpdateCollection
  <2> QED BY <2>1, <2>2
<1> DEFINE S == {x}
           to == [y \in S |-> p]
<1>2. S \in SUBSET Items /\ to \in [S -> Places] /\ \A y \in S : Fits(y, to[y])
  BY <1>1
<1>3. Goto(k, [Idle EXCEPT !.at = "move", !.to = to]) /\ UNCHANGED <<table, view>>
  BY <1>1
<1> HIDE DEF S, to
<1> QED BY <1>2, <1>3, BeginMove

LEMMA BeginReorderInv ==
  ASSUME IInv, NEW k \in Clients, BeginReorderFolders(k) \/ BeginReorderCollections(k)
  PROVE  IInv'
<1>1. CASE BeginReorderFolders(k)
  <2>1. PICK w \in Spaces : \E S \in SUBSET {f \in Folders : space[f] = w} :
          \E to \in [S -> Places] :
            /\ \A f \in S : MayMoveFolder(f, to[f], w)
            /\ Goto(k, [Idle EXCEPT !.at = "move", !.to = to])
            /\ UNCHANGED <<table, view>>
    BY <1>1 DEF BeginReorderFolders
  <2>2. PICK S \in SUBSET Folders : \E to \in [S -> Places] :
          /\ \A f \in S : MayMoveFolder(f, to[f], w)
          /\ Goto(k, [Idle EXCEPT !.at = "move", !.to = to])
          /\ UNCHANGED <<table, view>>
    BY <2>1
  <2>3. PICK to \in [S -> Places] :
          /\ \A f \in S : MayMoveFolder(f, to[f], w)
          /\ Goto(k, [Idle EXCEPT !.at = "move", !.to = to])
          /\ UNCHANGED <<table, view>>
    BY <2>2
  <2>4. \A f \in S : Fits(f, to[f])
    BY <2>3, FolderFits
  <2> QED BY <2>3, <2>4, BeginMove
<1>2. CASE BeginReorderCollections(k)
  <2>1. PICK S \in SUBSET Collections : \E to \in [S -> Places] :
          /\ \A c \in S : MayMoveCollection(c, to[c])
          /\ Goto(k, [Idle EXCEPT !.at = "move", !.to = to])
          /\ UNCHANGED <<table, view>>
    BY <1>2 DEF BeginReorderCollections
  <2>2. PICK to \in [S -> Places] :
          /\ \A c \in S : MayMoveCollection(c, to[c])
          /\ Goto(k, [Idle EXCEPT !.at = "move", !.to = to])
          /\ UNCHANGED <<table, view>>
    BY <2>1
  <2>3. \A c \in S : Fits(c, to[c])
    BY <2>2, CollectionFits
  <2> QED BY <2>2, <2>3, BeginMove
<1> QED BY <1>1, <1>2

LEMMA DragInv ==
  ASSUME IInv, NEW k \in Clients, Drag(k)
  PROVE  IInv'
<1>1. PICK w \in Spaces, f \in Folders, d \in Places :
        /\ \A x \in Siblings(view[k], d) \cup {f} : MayMoveFolder(x, d, w)
        /\ Goto(k, [Idle EXCEPT !.at = "drop", !.space = w, !.item = f,
                      !.to = [x \in Siblings(view[k], d) \cup {f} |-> d]])
        /\ UNCHANGED <<table, view>>
  BY DEF Drag
<1> DEFINE S == Siblings(view[k], d) \cup {f}
           to == [x \in S |-> d]
           c == [Idle EXCEPT !.at = "drop", !.space = w, !.item = f, !.to = to]
<1>2. S \in SUBSET Folders /\ to \in [S -> Places]
  BY DEF Siblings
<1>3. \A x \in S : Fits(x, to[x])
  BY <1>1, <1>2, FolderFits
<1>4. Goto(k, c)
  BY <1>1
<1>5. S \in SUBSET Items
  BY <1>2
<1> HIDE DEF S, to
<1>6. to \in Moves
  BY <1>2, <1>5, MovesAreMoves
<1>7. c \in Call /\ c.at = "drop" /\ c.to = to
  BY <1>6, IdleIsCall DEF Call, Label, Idle
<1> HIDE DEF c
<1> QED BY <1>1, <1>2, <1>3, <1>4, <1>5, <1>7, BeginMoves

LEMMA BeginDeleteInv ==
  ASSUME IInv, NEW k \in Clients, BeginDelete(k)
  PROVE  IInv'
<1>1. PICK x \in Items :
        /\ Goto(k, [Idle EXCEPT !.at = "delete", !.item = x])
        /\ UNCHANGED <<table, view>>
  BY DEF BeginDelete
<1> DEFINE c == [Idle EXCEPT !.at = "delete", !.item = x]
<1>2. c \in Call /\ c.at = "delete" /\ c.item \in Items
  BY IdleIsCall DEF Call, Label, Idle
<1>3. Goto(k, c)
  BY <1>1
<1> HIDE DEF c
<1>4. CheckedCall(c)
  BY <1>2 DEF CheckedCall
<1> QED BY <1>1, <1>2, <1>3, <1>4, StepCall

-----------------------------------------------------------------------------
(***************************************************************************)
(* The writes.                                                             *)
(***************************************************************************)

LEMMA InsertInv ==
  ASSUME IInv, NEW k \in Clients, NEW x \in Items, Insert(k, x),
         call[k].at \in {"insertFolder", "insertCollection"}
  PROVE  IInv'
<1>1. CASE ~Referable(call[k].place)
  BY <1>1, StepReply DEF Insert
<1>2. CASE Referable(call[k].place)
  <2> DEFINE w == call[k].space
             p == call[k].place
  <2>1. /\ w \in Spaces /\ p \in Places
        /\ p # Root => space[p] \in Spaces /\ space[p] \in {w, Deleted}
    BY <1>2 DEF IInv, TypeOK, Checked, CheckedCall, Call, Referable, Exists
  <2>2. /\ space[x] = Absent
        /\ space' = [space EXCEPT ![x] = w]
        /\ parent' = [parent EXCEPT ![x] = p]
        /\ Goto(k, Idle) /\ view' = view
    BY <1>2 DEF Insert, Reply
  <2> HIDE DEF w, p
  <2>3. p # Root => space[p] = w /\ p # x
    BY <2>1, <2>2 DEF Deleted, Absent
  <2>4. Kept
    BY <2>2 DEF Kept, IInv, TypeOK
  <2>5. /\ space' \in [Items -> Spaces \cup {Absent, Deleted}]
        /\ parent' \in [Items -> Places]
        /\ view' \in [Clients -> [Folders -> Places \cup {Absent}]]
    BY <2>1, <2>2 DEF IInv, TypeOK
  <2>6. Filed'
    <3> SUFFICES ASSUME NEW y \in Items, space'[y] \in Spaces, parent'[y] # Root
                 PROVE  space'[parent'[y]] = space'[y] /\ parent'[y] # y
      BY DEF Filed, Exists
    <3>1. CASE y = x
      BY <3>1, <2>1, <2>2, <2>3 DEF IInv, TypeOK
    <3>2. CASE y # x
      <4>1. space'[y] = space[y] /\ parent'[y] = parent[y]
        BY <3>2, <2>2 DEF IInv, TypeOK
      <4>2. space[parent[y]] = space[y] /\ parent[y] # y
        BY <4>1 DEF IInv, Filed, Exists
      <4>3. parent[y] # x
        BY <4>1, <4>2, <2>2 DEF Absent
      <4> QED BY <4>1, <4>2, <4>3, <2>2 DEF IInv, TypeOK
    <3> QED BY <3>1, <3>2
  <2> QED BY <2>2, <2>4, <2>5, <2>6, IdleIsCall, IdleChecked, StepGoto
<1> QED BY <1>1, <1>2

\* Rows that may be moved, in one transaction.
LEMMA AppliedFiled ==
  ASSUME IInv, NEW to \in Moves, \A x \in DOMAIN to : Fits(x, to[x]),
         Possible(to), Applied(to), space' = space
  PROVE  parent' \in [Items -> Places] /\ Filed'
<1>1. DOMAIN to \subseteq Items /\ \A x \in DOMAIN to : to[x] \in Places
  BY DEF Moves
<1>2. parent' \in [Items -> Places]
  BY <1>1 DEF Applied, IInv, TypeOK
<1>3. ASSUME NEW x \in Items, space[x] \in Spaces, parent'[x] # Root
      PROVE  space[parent'[x]] = space[x] /\ parent'[x] # x
  <2>1. CASE x \in DOMAIN to
    <3>1. parent'[x] = to[x] /\ Fits(x, to[x]) /\ space[to[x]] \in Spaces
      BY <1>3, <2>1, <1>1 DEF Applied, Possible, Referable, Exists
    <3> QED BY <3>1, <1>3 DEF Fits, Deleted
  <2>2. CASE x \notin DOMAIN to
    <3>1. parent'[x] = parent[x]
      BY <2>2 DEF Applied
    <3> QED BY <3>1, <1>3 DEF IInv, Filed, Exists
  <2> QED BY <2>1, <2>2
<1>4. Filed'
  BY <1>3 DEF Filed, Exists
<1> QED BY <1>2, <1>4

LEMMA MoveInv ==
  ASSUME IInv, NEW k \in Clients, Move(k)
  PROVE  IInv'
<1>1. CASE ~Possible(call[k].to)
  BY <1>1, StepReply DEF Move, table
<1>2. CASE Possible(call[k].to)
  <2>1. /\ call[k].to \in Moves
        /\ \A x \in DOMAIN call[k].to : Fits(x, call[k].to[x])
    BY DEF Move, At, IInv, TypeOK, Call, Checked, CheckedCall
  <2>2. Applied(call[k].to) /\ Goto(k, Idle) /\ space' = space /\ view' = view
    BY <1>2 DEF Move, Reply
  <2>3. parent' \in [Items -> Places] /\ Filed'
    BY <1>2, <2>1, <2>2, AppliedFiled
  <2>4. Kept
    BY <2>2 DEF Kept
  <2>5. /\ space' \in [Items -> Spaces \cup {Absent, Deleted}]
        /\ view' \in [Clients -> [Folders -> Places \cup {Absent}]]
    BY <2>2 DEF IInv, TypeOK
  <2> QED BY <2>2, <2>3, <2>4, <2>5, IdleIsCall, IdleChecked, StepGoto
<1> QED BY <1>1, <1>2

LEMMA DropInv ==
  ASSUME IInv, NEW k \in Clients, Drop(k)
  PROVE  IInv'
<1>1. CASE ~Possible(call[k].to)
  BY <1>1, StepReply DEF Drop, table
<1>2. CASE Possible(call[k].to)
  <2>1. /\ call[k] \in Call /\ call[k].to \in Moves
        /\ \A x \in DOMAIN call[k].to : Fits(x, call[k].to[x])
    BY DEF Drop, At, IInv, TypeOK, Call, Checked, CheckedCall
  <2> DEFINE c == [call[k] EXCEPT !.at = "fetch"]
  <2>2. c \in Call /\ c.at = "fetch"
    BY <2>1 DEF Call, Label
  <2>3. Applied(call[k].to) /\ Goto(k, c) /\ space' = space /\ view' = view
    BY <1>2 DEF Drop
  <2> HIDE DEF c
  <2>4. CheckedCall(c)
    BY <2>2 DEF CheckedCall
  <2>5. parent' \in [Items -> Places] /\ Filed'
    BY <1>2, <2>1, <2>3, AppliedFiled
  <2>6. Kept
    BY <2>3 DEF Kept
  <2>7. /\ space' \in [Items -> Spaces \cup {Absent, Deleted}]
        /\ view' \in [Clients -> [Folders -> Places \cup {Absent}]]
    BY <2>3 DEF IInv, TypeOK
  <2> QED BY <2>2, <2>3, <2>4, <2>5, <2>6, <2>7, StepGoto
<1> QED BY <1>1, <1>2

LEMMA RemoveFiled ==
  ASSUME IInv, NEW gone \in SUBSET Items, Remove(gone)
  PROVE  /\ space' \in [Items -> Spaces \cup {Absent, Deleted}]
         /\ parent' \in [Items -> Places]
         /\ Kept /\ Filed'
<1>1. /\ space' \in [Items -> Spaces \cup {Absent, Deleted}]
      /\ parent' \in [Items -> Places]
  BY DEF Remove, IInv, TypeOK
<1>2. Kept
  BY DEF Remove, Kept
<1>3. ASSUME NEW x \in Items, space'[x] \in Spaces, parent'[x] # Root
      PROVE  space'[parent'[x]] = space'[x] /\ parent'[x] # x
  <2>1. x \notin gone /\ parent[x] \notin gone
    BY <1>3 DEF Remove
  <2>2. space'[x] = space[x] /\ parent'[x] = parent[x]
    BY <2>1 DEF Remove
  <2>3. space[parent[x]] = space[x] /\ parent[x] # x
    BY <1>3, <2>2 DEF IInv, Filed, Exists
  <2>4. parent[x] \in Items
    BY <1>3, <2>2 DEF IInv, TypeOK
  <2> QED BY <2>1, <2>2, <2>3, <2>4 DEF Remove
<1>4. Filed'
  BY <1>3 DEF Filed, Exists
<1> QED BY <1>1, <1>2, <1>4

LEMMA DeleteInv ==
  ASSUME IInv, NEW k \in Clients, Delete(k)
  PROVE  IInv'
<1>1. CASE ~Exists(call[k].item)
  BY <1>1, StepReply DEF Delete
<1>2. CASE Exists(call[k].item)
  <2>1. call[k].item \in Items
    BY DEF Delete, At, IInv, Checked, CheckedCall
  <2>2. Cascade(call[k].item) \in SUBSET Items
    <3>1. CASE call[k].item \in Folders
      BY <3>1, CascadeInItems
    <3>2. CASE call[k].item \notin Folders
      BY <2>1, <3>2 DEF Cascade
    <3> QED BY <3>1, <3>2
  <2>3. Remove(Cascade(call[k].item)) /\ Goto(k, Idle) /\ view' = view
    BY <1>2 DEF Delete, Reply
  <2>4. view' \in [Clients -> [Folders -> Places \cup {Absent}]]
    BY <2>3 DEF IInv, TypeOK
  <2> QED BY <2>2, <2>3, <2>4, RemoveFiled, IdleIsCall, IdleChecked, StepGoto
<1> QED BY <1>1, <1>2

\* A step that leads no call on.
LEMMA StepStay ==
  ASSUME IInv, NEW k \in Clients, UNCHANGED call, Kept,
         space' \in [Items -> Spaces \cup {Absent, Deleted}],
         parent' \in [Items -> Places],
         view' \in [Clients -> [Folders -> Places \cup {Absent}]],
         Filed'
  PROVE  IInv'
<1>1. call[k] \in Call /\ CheckedCall(call[k]) /\ Goto(k, call[k])
  BY DEF IInv, TypeOK, Checked, Goto
<1> QED BY <1>1, StepGoto

LEMMA ClearInv ==
  ASSUME IInv, NEW k \in Clients, Clear(k)
  PROVE  IInv'
<1>1. PICK w \in Spaces :
        Remove({x \in Items : space[x] = w}) /\ UNCHANGED <<view, call>>
  BY DEF Clear
<1>2. view' \in [Clients -> [Folders -> Places \cup {Absent}]]
  BY <1>1 DEF IInv, TypeOK
<1> QED BY <1>1, <1>2, RemoveFiled, StepStay

-----------------------------------------------------------------------------
(***************************************************************************)
(* The list of folders a sidebar fetches.                                  *)
(***************************************************************************)

LEMMA ShowType ==
  ASSUME IInv, NEW k \in Clients, NEW w, Show(k, w)
  PROVE  view' \in [Clients -> [Folders -> Places \cup {Absent}]]
BY DEF Show, IInv, TypeOK

LEMMA TableKept ==
  ASSUME IInv, UNCHANGED table
  PROVE  /\ space' \in [Items -> Spaces \cup {Absent, Deleted}]
         /\ parent' \in [Items -> Places]
         /\ Kept /\ Filed'
BY DEF table, IInv, TypeOK, Kept, Filed, Exists

LEMMA RefetchInv ==
  ASSUME IInv, NEW k \in Clients, Refetch(k)
  PROVE  IInv'
<1>1. Show(k, call[k].space) /\ Goto(k, Idle) /\ UNCHANGED table
  BY DEF Refetch, Reply
<1> QED BY <1>1, ShowType, TableKept, IdleIsCall, IdleChecked, StepGoto

LEMMA OpenInv ==
  ASSUME IInv, NEW k \in Clients, Open(k)
  PROVE  IInv'
<1>1. PICK w \in Spaces : Show(k, w) /\ UNCHANGED <<table, call>>
  BY DEF Open
<1>2. UNCHANGED table /\ UNCHANGED call
  BY <1>1
<1> QED BY <1>1, <1>2, ShowType, TableKept, StepStay

-----------------------------------------------------------------------------
LEMMA StepInv == IInv /\ [Next]_vars => IInv'
<1> SUFFICES ASSUME IInv, [Next]_vars PROVE IInv'
  OBVIOUS
<1>1. CASE UNCHANGED vars
  BY <1>1 DEF vars, IInv, TypeOK, Filed, Exists, Checked, CheckedCall, Fits
<1>2. ASSUME NEW k \in Clients, Serve(k) PROVE IInv'
  <2>1. CASE BeginCreate(k)
    BY <2>1, BeginCreateInv
  <2>2. CASE InsertFolder(k)
    BY <2>2, InsertInv DEF InsertFolder, At
  <2>3. CASE InsertCollection(k)
    BY <2>3, InsertInv DEF InsertCollection, At
  <2>4. CASE BeginUpdateFolder(k) \/ BeginUpdateCollection(k)
    BY <2>4, BeginUpdateInv
  <2>5. CASE BeginReorderFolders(k) \/ BeginReorderCollections(k)
    BY <2>5, BeginReorderInv
  <2>6. CASE Move(k)
    BY <2>6, MoveInv
  <2>7. CASE Drag(k)
    BY <2>7, DragInv
  <2>8. CASE Drop(k)
    BY <2>8, DropInv
  <2>9. CASE Refetch(k)
    BY <2>9, RefetchInv
  <2>10. CASE LoseAnswer(k)
    BY <2>10, StepReply DEF LoseAnswer
  <2>11. CASE Open(k)
    BY <2>11, OpenInv
  <2>12. CASE BeginDelete(k)
    BY <2>12, BeginDeleteInv
  <2>13. CASE Delete(k)
    BY <2>13, DeleteInv
  <2>14. CASE Clear(k)
    BY <2>14, ClearInv
  <2>15. CASE Fail(k)
    BY <2>15, StepReply DEF Fail
  <2> QED BY <1>2, <2>1, <2>2, <2>3, <2>4, <2>5, <2>6, <2>7, <2>8, <2>9, <2>10,
             <2>11, <2>12, <2>13, <2>14, <2>15 DEF Serve
<1> QED BY <1>1, <1>2 DEF Next

\* Every row, sidebar and local keeps its shape.
THEOREM TypeCorrect == Spec => []TypeOK
<1>1. IInv => TypeOK
  BY DEF IInv
<1> QED BY <1>1, InitInv, StepInv, PTL DEF Spec

\* However handlers overlap, every folder and collection is filed at the root or
\* in an existing folder of its own workspace, other than itself: the checks of
\* ensureFolderInWorkspace outlast the interval to the write.
THEOREM RowsStayFiled == Spec => []Filed
<1>1. IInv => Filed
  BY DEF IInv
<1> QED BY <1>1, InitInv, StepInv, PTL DEF Spec

-----------------------------------------------------------------------------
(***************************************************************************)
(* What a deletion takes along.                                            *)
(***************************************************************************)

\* Why x may go in this step.
Cause(x) ==
  \/ \E k \in Clients : At(k, "delete") /\ call[k].item = x
  \/ /\ x \in Folders /\ parent[x] \in Folders
     /\ space'[parent[x]] = Deleted
  \/ \A y \in Items : space[y] = space[x] => space'[y] = Deleted

LEMMA DeleteCause ==
  ASSUME IInv, NEW k \in Clients, Delete(k),
         NEW x \in Items, Exists(x), ~Exists(x)'
  PROVE  Cause(x)
<1>1. CASE ~Exists(call[k].item)
  BY <1>1 DEF Delete, table, Exists
<1>2. CASE Exists(call[k].item)
  <2>1. Remove(Cascade(call[k].item)) /\ At(k, "delete")
    BY <1>2 DEF Delete
  <2>2. x \in Cascade(call[k].item)
    BY <2>1 DEF Remove, Exists
  <2>3. CASE x = call[k].item
    BY <2>1, <2>3 DEF Cause
  <2>4. CASE x # call[k].item
    <3>1. call[k].item \in Folders /\ x \in Subtree(call[k].item)
      BY <2>2, <2>4 DEF Cascade
    <3>2. x \in Folders
      BY <3>1 DEF Subtree
    <3>3. parent[x] \in Subtree(call[k].item)
      BY <3>1, <2>4, SubtreeParent
    <3>4. parent[x] \in Folders
      BY <3>3 DEF Subtree
    <3>5. parent[x] \in Cascade(call[k].item)
      BY <3>1, <3>3 DEF Cascade
    <3>6. space'[parent[x]] = Deleted
      BY <3>4, <3>5, <2>1 DEF Remove
    <3> QED BY <3>2, <3>4, <3>6 DEF Cause
  <2> QED BY <2>3, <2>4
<1> QED BY <1>1, <1>2

LEMMA ClearCause ==
  ASSUME IInv, NEW k \in Clients, Clear(k),
         NEW x \in Items, Exists(x), ~Exists(x)'
  PROVE  Cause(x)
<1>1. PICK w \in Spaces : Remove({y \in Items : space[y] = w})
  BY DEF Clear
<1>2. space[x] = w
  BY <1>1 DEF Remove, Exists
<1>3. \A y \in Items : space[y] = w => space'[y] = Deleted
  BY <1>1 DEF Remove
<1> QED BY <1>2, <1>3 DEF Cause

\* No other handler deletes anything.
LEMMA OthersDeleteNothing ==
  ASSUME IInv, NEW k \in Clients, Serve(k), ~Delete(k), ~Clear(k),
         NEW x \in Items, Exists(x)
  PROVE  Exists(x)'
<1>1. ASSUME UNCHANGED space PROVE Exists(x)'
  BY <1>1 DEF Exists
<1>2. ASSUME NEW y \in Items, Insert(k, y),
             call[k].at \in {"insertFolder", "insertCollection"}
      PROVE  Exists(x)'
  <2>1. call[k].space \in Spaces
    BY <1>2 DEF IInv, Checked, CheckedCall
  <2>2. UNCHANGED space \/ space' = [space EXCEPT ![y] = call[k].space]
    BY <1>2 DEF Insert, table
  <2> QED BY <2>1, <2>2 DEF Exists, IInv, TypeOK
<1>3. CASE InsertFolder(k) \/ InsertCollection(k)
  BY <1>2, <1>3 DEF InsertFolder, InsertCollection, At
<1>4. CASE BeginCreate(k) \/ BeginUpdateFolder(k) \/ BeginUpdateCollection(k)
            \/ BeginReorderFolders(k) \/ BeginReorderCollections(k)
            \/ Drag(k) \/ Open(k) \/ BeginDelete(k)
  BY <1>1, <1>4 DEF BeginCreate, BeginUpdateFolder, BeginUpdateCollection,
       BeginReorderFolders, BeginReorderCollections, Drag, Open, BeginDelete, table
<1>5. CASE Move(k) \/ Drop(k) \/ Refetch(k) \/ LoseAnswer(k) \/ Fail(k)
  BY <1>1, <1>5 DEF Move, Drop, Refetch, LoseAnswer, Fail, table
<1> QED BY <1>3, <1>4, <1>5 DEF Serve

\* Deleting a folder takes the folders inside along and nothing else; above all
\* it leaves every collection.
THEOREM DeletionsHaveCause == Spec => GoesForCause
<1>1. ASSUME IInv, [Next]_vars, NEW x \in Items, Exists(x), ~Exists(x)'
      PROVE  Cause(x)
  <2>1. CASE UNCHANGED vars
    BY <1>1, <2>1 DEF vars, Exists
  <2>2. ASSUME NEW k \in Clients, Serve(k) PROVE Cause(x)
    BY <1>1, <2>2, DeleteCause, ClearCause, OthersDeleteNothing
  <2> QED BY <1>1, <2>1, <2>2 DEF Next
<1>2. IInv /\ [Next]_vars =>
        [\A x \in Items : Exists(x) /\ ~Exists(x)' => Cause(x)]_vars
  BY <1>1
<1>3. IInv /\ [Next]_vars =>
        [\A x \in Items : Exists(x) /\ ~Exists(x)' =>
           \/ \E k \in Clients : At(k, "delete") /\ call[k].item = x
           \/ /\ x \in Folders /\ parent[x] \in Folders
              /\ space'[parent[x]] = Deleted
           \/ \A y \in Items : space[y] = space[x] => space'[y] = Deleted]_vars
  BY <1>2 DEF Cause
<1> QED BY <1>3, InitInv, StepInv, PTL DEF Spec, GoesForCause

-----------------------------------------------------------------------------
(***************************************************************************)
(* One sidebar keeps the folders a tree.  Nobody else moves folders, so of *)
(* the folders that are still there an old list shows the places they have *)
(* (Side), and what the sidebar checked on it is true when it is written.  *)
(***************************************************************************)

\* A drop under way of the folder c.item at d, checked on the list v.
Dropping(c, v, d) ==
  /\ c.item \in Folders /\ d # c.item
  /\ c.to = [x \in Siblings(v, d) \cup {c.item} |-> d]
  /\ DropAllowed(v, c.item, d) /\ Drawn(v, d)

Side(k) ==
  /\ \A f \in Folders : Shown(view[k], f) => space[f] # Absent
  /\ At(k, "fetch") \/ \A f \in Folders : Shown(view[k], f) /\ Exists(f) => view[k][f] = parent[f]
  /\ At(k, "drop") \/ At(k, "fetch") => call[k].space \in Spaces
  /\ At(k, "drop") => \E d \in Places : Dropping(call[k], view[k], d)

TreeInv == IInv /\ (part = "tree" => Tree /\ \A k \in Clients : Side(k))

\* What a drop leaves as it was.
OneMoves(k) ==
  At(k, "drop") => \A f \in Folders : parent'[f] # parent[f] => f = call[k].item

\* Going up from d, the list leads to the root and never through what S holds: no
\* set of folders that v leads back into itself holds d.
LEMMA WayUp ==
  ASSUME NEW v \in [Folders -> Places \cup {Absent}], NEW d \in Places, NEW e \in Folders,
         DropAllowed(v, e, d), Drawn(v, d),
         NEW S \in SUBSET Folders, d \in S,
         \A f \in S \ {e} : Shown(v, f) => v[f] \in S
  PROVE  FALSE
<1> DEFINE T == S \cap Above(v, d)
<1>1. d \in T
  BY DEF Above
<1>2. ASSUME NEW f \in T, Shown(v, f) PROVE v[f] \in T
  <2>1. f # e /\ v[f] \in S
    BY <1>2 DEF DropAllowed
  <2>2. v[f] \in Above(v, d)
    <3>1. v[f] \in Places
      BY <1>2 DEF Shown
    <3>2. f \in Folders /\ \A R \in SUBSET Places :
            /\ d \in R
            /\ \A g \in R \cap Folders : Shown(v, g) => v[g] \in R
            => f \in R
      BY DEF Above
    <3>3. \A R \in SUBSET Places :
            /\ d \in R
            /\ \A g \in R \cap Folders : Shown(v, g) => v[g] \in R
            => v[f] \in R
      BY <1>2, <3>2
    <3> QED BY <3>1, <3>3 DEF Above
  <2> QED BY <2>1, <2>2
<1>3. T \in SUBSET Places /\ \A f \in T \cap Folders : Shown(v, f) => v[f] \in T
  BY <1>2
<1>4. Root \in T
  BY <1>1, <1>3 DEF Drawn, Above
<1> QED BY <1>4

\* The tree as it is, with less in it, is a tree.
LEMMA TreeLasts ==
  ASSUME Tree, \A f \in Folders : Exists(f)' => Exists(f) /\ (parent'[f] = parent[f] \/ parent'[f] = Root)
  PROVE  Tree'
<1> SUFFICES ASSUME NEW S \in SUBSET Folders, S # {},
                    \A f \in S : Exists(f)' /\ parent'[f] \in S
             PROVE  FALSE
  BY DEF Tree
<1>1. \A f \in S : Exists(f) /\ parent[f] \in S
  OBVIOUS
<1> QED BY <1>1 DEF Tree

LEMMA TableTree ==
  ASSUME Tree, UNCHANGED table
  PROVE  Tree'
BY TreeLasts DEF table, Exists

\* A call that goes on without a drop.
LEMMA QuietSide ==
  ASSUME IInv, NEW k \in Clients, Tree, Side(k), ~At(k, "fetch"),
         NEW c \in Call, c.at \notin {"drop", "fetch"}, Goto(k, c), UNCHANGED <<table, view>>
  PROVE  Tree' /\ Side(k)' /\ OneMoves(k)
<1>1. call'[k] = c
  BY DEF Goto, IInv, TypeOK
<1>2. Side(k)'
  BY <1>1 DEF Side, At, table, Exists, Shown
<1> QED BY <1>2, TableTree DEF OneMoves, table

\* A new folder is nobody's parent.
LEMMA InsertTree ==
  ASSUME IInv, NEW k \in Clients, Tree, Side(k), InsertFolder(k)
  PROVE  Tree' /\ Side(k)' /\ OneMoves(k)
<1>1. PICK f \in Folders : Insert(k, f) /\ At(k, "insertFolder")
  BY DEF InsertFolder
<1>2. Goto(k, Idle) /\ view' = view /\ space[f] = Absent
  BY <1>1 DEF Insert, Reply
<1>3. CASE ~Referable(call[k].place)
  <2>1. Idle.at = "idle"
    BY DEF Idle
  <2> QED BY <1>1, <1>2, <1>3, <2>1, IdleIsCall, QuietSide DEF Insert, At
<1>4. CASE Referable(call[k].place)
  <2> DEFINE w == call[k].space
             p == call[k].place
  <2>1. space' = [space EXCEPT ![f] = w] /\ parent' = [parent EXCEPT ![f] = p]
    BY <1>1, <1>4 DEF Insert
  <2>2. w \in Spaces /\ (p # Root => space[p] \in Spaces)
    BY <1>1, <1>4 DEF IInv, Checked, CheckedCall, At, Referable, Exists
  <2>3. p # f
    BY <1>2, <2>2
  <2> HIDE DEF w, p
  <2>4. /\ \A g \in Folders \ {f} : space'[g] = space[g] /\ parent'[g] = parent[g]
        /\ space'[f] = w /\ parent'[f] = p
    BY <2>1 DEF IInv, TypeOK
  <2>5. Tree'
    <3> SUFFICES ASSUME NEW S \in SUBSET Folders, S # {},
                        \A g \in S : Exists(g)' /\ parent'[g] \in S
                 PROVE  FALSE
      BY DEF Tree
    <3>1. ASSUME NEW g \in S \ {f} PROVE Exists(g) /\ parent[g] \in S \ {f}
      <4>1. Exists(g) /\ parent[g] \in S
        BY <2>4 DEF Exists
      <4>2. space[parent[g]] = space[g]
        BY <4>1 DEF IInv, Filed
      <4> QED BY <1>2, <4>1, <4>2 DEF Exists
    <3>2. S \ {f} = {}
      BY <3>1 DEF Tree
    <3> QED BY <2>3, <2>4, <3>2
  <2>6. Side(k)'
    <3>1. call'[k] = Idle
      BY <1>2 DEF Goto, IInv, TypeOK
    <3>2. Idle.at = "idle"
      BY DEF Idle
    <3>3. ~Shown(view[k], f)
      BY <1>2 DEF Side
    <3>4. w # Absent
      BY <2>2
    <3> QED BY <1>1, <1>2, <2>4, <3>1, <3>2, <3>3, <3>4 DEF Side, At, Shown, Exists
  <2> QED BY <1>1, <2>5, <2>6 DEF OneMoves, At
<1> QED BY <1>3, <1>4

LEMMA DragSide ==
  ASSUME IInv, NEW k \in Clients, Tree, Side(k), Drag(k)
  PROVE  Tree' /\ Side(k)' /\ OneMoves(k)
<1>1. PICK w \in Spaces, f \in Folders, d \in Places :
        /\ Drawn(view[k], d) /\ DropAllowed(view[k], f, d)
        /\ \A x \in Siblings(view[k], d) \cup {f} : MayMoveFolder(x, d, w)
        /\ Goto(k, [Idle EXCEPT !.at = "drop", !.space = w, !.item = f,
                      !.to = [x \in Siblings(view[k], d) \cup {f} |-> d]])
        /\ UNCHANGED <<table, view>> /\ At(k, "idle")
  BY DEF Drag, Start, At
<1> DEFINE to == [x \in Siblings(view[k], d) \cup {f} |-> d]
           c == [Idle EXCEPT !.at = "drop", !.space = w, !.item = f, !.to = to]
<1>2. call'[k] = c
  BY <1>1 DEF Goto, IInv, TypeOK
<1> HIDE DEF to
<1>3. c.at = "drop" /\ c.space = w /\ c.item = f /\ c.to = to
  BY DEF Idle
<1> HIDE DEF c
<1>4. d # f
  BY <1>1 DEF MayMoveFolder
<1>5. Dropping(c, view[k], d)
  BY <1>1, <1>3, <1>4 DEF Dropping, to
<1>6. Side(k)'
  BY <1>1, <1>2, <1>3, <1>5 DEF Side, At, table, Exists, Shown, Dropping, Siblings, DropAllowed,
     Drawn, Above
<1> QED BY <1>1, <1>6, TableTree DEF OneMoves, At

LEMMA DropTree ==
  ASSUME IInv, NEW k \in Clients, Tree, Side(k), Drop(k)
  PROVE  Tree' /\ Side(k)' /\ OneMoves(k)
<1>1. At(k, "drop") /\ UNCHANGED <<space, view>>
  BY DEF Drop
<1>2. CASE ~Possible(call[k].to)
  <2>1. Goto(k, Idle) /\ UNCHANGED table
    BY <1>1, <1>2 DEF Drop, Reply, table
  <2>2. Idle.at = "idle"
    BY DEF Idle
  <2> QED BY <1>1, <2>1, <2>2, IdleIsCall, QuietSide DEF At
<1>3. CASE Possible(call[k].to)
  <2> DEFINE to == call[k].to
             e == call[k].item
             v == view[k]
  <2>1. Applied(to) /\ Goto(k, [call[k] EXCEPT !.at = "fetch"])
    BY <1>3 DEF Drop
  <2>2. PICK d \in Places : Dropping(call[k], v, d)
    BY <1>1 DEF Side
  <2>3. v \in [Folders -> Places \cup {Absent}]
    BY DEF IInv, TypeOK
  <2>4. ASSUME NEW f \in Folders, Exists(f), Shown(v, f) PROVE v[f] = parent[f]
    BY <1>1, <2>4 DEF Side, At
  <2> HIDE DEF to, e, v
  <2>5. e \in Folders /\ to = [x \in Siblings(v, d) \cup {e} |-> d]
        /\ DropAllowed(v, e, d) /\ Drawn(v, d)
    BY <2>2 DEF Dropping, to, e
  <2>6. ASSUME NEW f \in Folders, f # e PROVE parent'[f] = parent[f]
    <3>1. CASE f \in Siblings(v, d)
      <4>1. f \in DOMAIN to /\ to[f] = d
        BY <2>5, <3>1
      <4>2. Exists(f)
        BY <1>3, <4>1 DEF Possible, to
      <4>3. v[f] = d /\ d # Absent
        BY <3>1 DEF Siblings, Absent, Root
      <4>4. parent[f] = d
        BY <2>4, <4>2, <4>3 DEF Shown
      <4> QED BY <2>1, <4>1, <4>4 DEF Applied
    <3>2. CASE f \notin Siblings(v, d)
      BY <2>1, <2>5, <2>6, <3>2 DEF Applied
    <3> QED BY <3>1, <3>2
  <2>7. parent'[e] = d
    BY <2>1, <2>5 DEF Applied
  <2>8. Tree'
    <3> SUFFICES ASSUME NEW S \in SUBSET Folders, S # {},
                        \A g \in S : Exists(g)' /\ parent'[g] \in S
                 PROVE  FALSE
      BY DEF Tree
    <3>1. \A g \in S : Exists(g)
      BY <1>1 DEF Exists
    <3>2. \A g \in S \ {e} : parent[g] \in S
      BY <2>6
    <3>3. CASE e \notin S
      BY <3>1, <3>2, <3>3 DEF Tree
    <3>4. CASE e \in S
      <4>1. d \in S
        BY <2>7, <3>4
      <4>2. \A g \in S \ {e} : Shown(v, g) => v[g] \in S
        BY <2>4, <3>1, <3>2
      <4> QED BY <2>3, <2>5, <4>1, <4>2, WayUp
    <3> QED BY <3>3, <3>4
  <2>9. Side(k)'
    <3>1. call'[k] = [call[k] EXCEPT !.at = "fetch"] /\ call[k] \in Call
      BY <2>1 DEF Goto, IInv, TypeOK
    <3>2. call'[k].at = "fetch" /\ call'[k].space = call[k].space
      BY <3>1 DEF Call
    <3> QED BY <1>1, <3>2 DEF Side, At, Shown
  <2> QED BY <2>6, <2>8, <2>9 DEF OneMoves, e
<1> QED BY <1>2, <1>3

\* The list is fetched.
LEMMA ShowSide ==
  ASSUME IInv, NEW k \in Clients, Tree, NEW w \in Spaces, Show(k, w), UNCHANGED table,
         call'[k].at = "idle", ~At(k, "drop")
  PROVE  Tree' /\ Side(k)' /\ OneMoves(k)
<1>1. view'[k] = [f \in Folders |-> IF space[f] = w THEN parent[f] ELSE Absent]
  BY DEF Show, IInv, TypeOK
<1>2. \A f \in Folders : Shown(view'[k], f) => space[f] = w /\ view'[k][f] = parent[f]
  BY <1>1 DEF Shown
<1>3. Side(k)'
  BY <1>2 DEF Side, At, Shown, table, Exists
<1> QED BY <1>3, TableTree DEF OneMoves

\* What goes leaves no folder behind that was inside.
LEMMA RemoveTree ==
  ASSUME IInv, NEW k \in Clients, Tree, Side(k), NEW gone \in SUBSET Items, Remove(gone),
         \A f \in Folders : parent[f] \in gone /\ Exists(f) => f \in gone,
         view' = view, call'[k].at = "idle", ~At(k, "drop"), ~At(k, "fetch")
  PROVE  Tree' /\ Side(k)' /\ OneMoves(k)
<1>1. ASSUME NEW f \in Folders, Exists(f)' PROVE Exists(f) /\ parent'[f] = parent[f]
  BY <1>1 DEF Remove, Exists
<1>2. \A f \in Folders : space[f] # Absent => space'[f] # Absent
  BY DEF Remove, Absent, Deleted
<1>3. Side(k)'
  BY <1>1, <1>2 DEF Side, At, Shown
<1>4. Tree'
  BY <1>1, TreeLasts
<1> QED BY <1>3, <1>4 DEF OneMoves

LEMMA SidebarKeeps ==
  ASSUME IInv, Tree, NEW k \in Clients, Side(k), SidebarStep(k)
  PROVE  Tree' /\ Side(k)' /\ OneMoves(k)
<1>0. Idle.at = "idle" /\ Idle \in Call
  BY IdleIsCall DEF Idle
<1>1. CASE BeginCreate(k)
  <2>1. PICK w \in Spaces, p \in Places, label \in {"insertFolder", "insertCollection"} :
          /\ Goto(k, [Idle EXCEPT !.at = label, !.space = w, !.place = p])
          /\ UNCHANGED <<table, view>> /\ At(k, "idle")
    BY <1>1 DEF BeginCreate, Start, At
  <2> DEFINE c == [Idle EXCEPT !.at = label, !.space = w, !.place = p]
  <2>2. c \in Call /\ c.at = label
    BY IdleIsCall DEF Call, Label
  <2> HIDE DEF c
  <2> QED BY <2>1, <2>2, QuietSide DEF At, c
<1>2. CASE InsertFolder(k)
  BY <1>2, InsertTree
<1>3. CASE Drag(k)
  BY <1>3, DragSide
<1>4. CASE Drop(k)
  BY <1>4, DropTree
<1>5. CASE Refetch(k)
  <2>1. /\ Show(k, call[k].space) /\ UNCHANGED table /\ At(k, "fetch") /\ call'[k] = Idle
        /\ call[k].space \in Spaces
    BY <1>5 DEF Refetch, Reply, Goto, IInv, TypeOK, Side
  <2> QED BY <1>0, <2>1, ShowSide DEF At
<1>6. CASE Open(k)
  <2>1. PICK w \in Spaces : Show(k, w) /\ UNCHANGED <<table, call>> /\ At(k, "idle")
    BY <1>6 DEF Open, Start, At
  <2> QED BY <2>1, ShowSide DEF At
<1>7. CASE BeginDelete(k)
  <2>1. PICK x \in Items :
          /\ Goto(k, [Idle EXCEPT !.at = "delete", !.item = x])
          /\ UNCHANGED <<table, view>> /\ At(k, "idle")
    BY <1>7 DEF BeginDelete, Start, At
  <2> DEFINE c == [Idle EXCEPT !.at = "delete", !.item = x]
  <2>2. c \in Call /\ c.at = "delete"
    BY IdleIsCall DEF Call, Label
  <2> HIDE DEF c
  <2> QED BY <2>1, <2>2, QuietSide DEF At, c
<1>8. CASE Delete(k)
  <2> DEFINE x == call[k].item
  <2>1. Goto(k, Idle) /\ view' = view /\ At(k, "delete") /\ x \in Items
    BY <1>8 DEF Delete, Reply, At, IInv, Checked, CheckedCall
  <2>2. CASE ~Exists(x)
    BY <1>0, <1>8, <2>1, <2>2, QuietSide DEF Delete, At
  <2>3. CASE Exists(x)
    <3>1. Remove(Cascade(x)) /\ call'[k] = Idle
      BY <1>8, <2>1, <2>3 DEF Delete, Goto, IInv, TypeOK
    <3> HIDE DEF x
    <3>2. ASSUME NEW f \in Folders, parent[f] \in Cascade(x) PROVE f \in Cascade(x)
      <4>1. CASE x \in Folders
        BY <3>2, <4>1 DEF Cascade, Subtree
      <4>2. CASE x \notin Folders
        <5>1. parent[f] = x /\ parent[f] \in Folders \cup {Root}
          BY <3>2, <4>2 DEF Cascade, IInv, TypeOK
        <5> QED BY <2>1, <4>2, <5>1
      <4> QED BY <4>1, <4>2
    <3>3. Cascade(x) \in SUBSET Items
      BY <2>1, CascadeInItems DEF Cascade
    <3> QED BY <1>0, <2>1, <3>1, <3>2, <3>3, RemoveTree DEF At
  <2> QED BY <2>2, <2>3
<1>9. CASE Clear(k)
  <2>1. PICK w \in Spaces :
          /\ Remove({x \in Items : space[x] = w}) /\ UNCHANGED <<view, call>> /\ At(k, "idle")
    BY <1>9 DEF Clear, Start, At
  <2>2. ASSUME NEW f \in Folders, parent[f] \in {x \in Items : space[x] = w}, Exists(f)
        PROVE  f \in {x \in Items : space[x] = w}
    BY <2>2 DEF IInv, Filed
  <2> QED BY <2>1, <2>2, RemoveTree DEF At
<1>10. CASE Fail(k)
  BY <1>0, <1>10, QuietSide DEF Fail, Reply, At
<1> QED BY <1>1, <1>2, <1>3, <1>4, <1>5, <1>6, <1>7, <1>8, <1>9, <1>10 DEF SidebarStep

\* Steps of the run are steps of Folders, each of one client.
LEMMA SidebarIsNext ==
  [SidebarNext]_<<vars, part>> => [Next]_vars
BY DEF SidebarNext, SidebarStep, AllStep, Next, Serve, vars

LEMMA OneClient ==
  ASSUME IInv, NEW k \in Clients, SidebarStep(k), NEW j \in Clients \ {k}
  PROVE  Fresh(j) /\ call'[j] = call[j] /\ view'[j] = view[j]
<1>1. Fresh(j)
  BY DEF SidebarStep
<1>2. \/ call' = call
      \/ \E c : Goto(k, c)
  BY DEF SidebarStep, BeginCreate, InsertFolder, Insert, Drag, Drop, Refetch, Open, BeginDelete,
         Delete, Clear, Fail, Reply
<1>3. \/ view' = view
      \/ \E w : Show(k, w)
  BY DEF SidebarStep, BeginCreate, InsertFolder, Insert, Drag, Drop, Refetch, Open, BeginDelete,
         Delete, Clear, Fail, table
<1> QED BY <1>1, <1>2, <1>3 DEF Goto, Show, IInv, TypeOK

LEMMA TreeStep ==
  ASSUME TreeInv, [SidebarNext]_<<vars, part>>
  PROVE  TreeInv' /\ [DropsMoveOne]_vars
<1>1. IInv'
  BY StepInv, SidebarIsNext DEF TreeInv
<1>2. CASE UNCHANGED <<vars, part>>
  <2>1. part = "tree" => Tree' /\ \A k \in Clients : Side(k)'
    BY <1>2 DEF TreeInv, Tree, Side, At, Exists, Shown, Dropping, Siblings, DropAllowed, Drawn,
       Above, vars
  <2> QED BY <1>1, <1>2, <2>1 DEF TreeInv, vars
<1>3. ASSUME NEW k \in Clients, AllStep(k), UNCHANGED part
      PROVE  TreeInv' /\ [DropsMoveOne]_vars
  <2>1. part # "tree"
    BY <1>3 DEF AllStep
  <2> QED BY <1>1, <1>3, <2>1 DEF TreeInv, DropsMoveOne
<1>4. ASSUME NEW k \in Clients, SidebarStep(k), UNCHANGED part
      PROVE  TreeInv' /\ [DropsMoveOne]_vars
  <2>1. part = "tree"
    BY <1>4 DEF SidebarStep
  <2>2. Tree' /\ Side(k)' /\ OneMoves(k)
    BY <1>4, <2>1, SidebarKeeps DEF TreeInv
  <2>3. ASSUME NEW j \in Clients \ {k} PROVE Side(j)' /\ OneMoves(j)
    <3>1. /\ call[j].at = "idle" /\ call'[j].at = "idle"
          /\ \A f \in Folders : view'[j][f] = Absent
      BY <1>4, <2>3, OneClient DEF TreeInv, Fresh, Idle
    <3> QED BY <3>1 DEF Side, OneMoves, At, Shown
  <2> QED BY <1>1, <1>4, <2>1, <2>2, <2>3 DEF TreeInv, DropsMoveOne, OneMoves
<1> QED BY <1>2, <1>3, <1>4 DEF SidebarNext

LEMMA TreeStarts == SidebarInit => TreeInv
<1> SUFFICES ASSUME SidebarInit PROVE TreeInv
  OBVIOUS
<1>1. Init
  BY DEF SidebarInit
<1>2. Tree
  BY <1>1 DEF Init, Tree, Exists
<1>3. \A k \in Clients : Side(k)
  BY <1>1 DEF Init, Side, At, Idle, Shown
<1> QED BY <1>1, <1>2, <1>3, InitInv DEF TreeInv

\* With one sidebar (moveDraggedItem of CollectionsSidebar.tsx) and any number of
\* folders, the tree stays a tree and each drop moves the folder that was dragged and
\* no other, however old the list is on which isDescendant was asked.
THEOREM OneSidebarKeepsTheTree == SidebarSpec => SidebarMoves
<1>1. TreeInv /\ [SidebarNext]_<<vars, part>> => TreeInv' /\ [DropsMoveOne]_vars
  BY TreeStep
<1> QED BY <1>1, TreeStarts, PTL DEF SidebarSpec, SidebarMoves
=============================================================================
