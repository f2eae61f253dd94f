---------------------------- MODULE SavedRequests ----------------------------
(***************************************************************************)
(* Saved requests, their tags and their shared links:                      *)
(* src/api/src/services/request.service.ts and tag.service.ts with the     *)
(* queries they await.                                                     *)
(*                                                                         *)
(* Every call finds the request, checks the caller's role in the workspace *)
(* of the collection it found the request in, then writes by the request's *)
(* id; other calls run between these awaits, and a call may stop after any *)
(* of them.  Whether the caller has the role is the matter of module       *)
(* Workspaces: a check may go either way.  Places in a collection are left *)
(* out; names of tags and rows never used again are not.                   *)
(***************************************************************************)
CONSTANTS
  Workspaces,
  Collections,
  Home,      \* Home[c]: the workspace of collection c
  Requests,
  Tags,      \* ids of tags
  Names,     \* names of tags
  Calls,     \* calls of the API under way at once
  Nowhere    \* no collection, no workspace, no name

ASSUME HomeAssumption ==
  /\ Home \in [Collections -> Workspaces]
  /\ Nowhere \notin Collections \cup Workspaces \cup Names

VARIABLES
  collections,  \* the collections that are left
  at,           \* at[q]: the collection of request q, or Nowhere
  tag,          \* tag[g]: its workspace and name
  tagged,       \* tagged[q]: RequestTag, the tags of q
  shared,       \* the requests with a shared link
  call,         \* call[k]: how far a call is, and what it read
  used,         \* ids of requests and tags that are or were rows
  asked,        \* history: asked[q], the tags that the last update of q's tags wrote
  strays        \* history: requests moved to another workspace since their tags
                \* were looked up

rows == <<collections, at, tag, tagged, shared, used>>
vars == <<rows, call, asked, strays>>

Kind == {"save", "put", "delete", "share", "tags"}
NoTag == [ws |-> Nowhere, name |-> Nowhere]

\* `to` is where a save or a move puts its requests, `todo` what is still to check, `seen` where a request was found,
\* `verified` the workspaces whose role was checked, `names` and `ids` the tags asked
\* for and those already looked up.
Call == [kind : Kind, step : {"idle", "find", "check", "target", "write"},
         to : [Requests -> Collections \cup {Nowhere}],
         items : SUBSET Requests, todo : SUBSET Requests, now : Requests,
         seen : [Requests -> Collections \cup {Nowhere}],
         verified : SUBSET Workspaces, names : SUBSET Names, ids : SUBSET Tags]

NotAsked == [q \in Requests |-> Nowhere]
NoCall == [kind |-> "save", step |-> "idle", to |-> NotAsked, items |-> {}, todo |-> {},
           now |-> CHOOSE q \in Requests : TRUE, seen |-> NotAsked, verified |-> {},
           names |-> {}, ids |-> {}]

\* Every collection is there, with one request in one of them.
Init ==
  /\ collections = Collections
  /\ \E q \in Requests, c \in Collections :
       at = [NotAsked EXCEPT ![q] = c] /\ used = {q}
  /\ tag = [g \in Tags |-> NoTag]
  /\ tagged = [q \in Requests |-> {}]
  /\ shared = {}
  /\ call = [k \in Calls |-> NoCall]
  /\ asked = [q \in Requests |-> {}]
  /\ strays = {}

Alive(q) == at[q] # Nowhere
Stored == {g \in Tags : tag[g] # NoTag}

End(k) == call' = [call EXCEPT ![k] = NoCall]
Advance(k, c) == call' = [call EXCEPT ![k] = c]
Refuse(k) == End(k) /\ UNCHANGED <<rows, asked, strays>>

-----------------------------------------------------------------------------
(***************************************************************************)
(* Find and check.                                                         *)
(***************************************************************************)

\* A saved request is new and has no collection yet to be found in: the collection
\* that it goes to is checked.
BeginSave(k, q, c) ==
  /\ call[k].step = "idle" /\ q \notin used
  /\ Advance(k, [NoCall EXCEPT !.kind = "save", !.step = "target", !.items = {q},
                               !.to[q] = c, !.now = q])
  /\ used' = used \cup {q}
  /\ UNCHANGED <<collections, at, tag, tagged, shared, asked, strays>>

\* updateSavedRequestService has one item, reorderSavedRequestsService a list of
\* them; an item without a collection stays where it is.
BeginPut(k, items, to) ==
  /\ call[k].step = "idle" /\ items # {} /\ items \subseteq used
  /\ Advance(k, [NoCall EXCEPT !.kind = "put", !.step = "find", !.items = items,
                               !.todo = items, !.to = [q \in Requests |->
                                 IF q \in items THEN to[q] ELSE Nowhere]])
  /\ UNCHANGED <<rows, asked, strays>>

Begin(k, kind, q, names) ==
  /\ call[k].step = "idle" /\ q \in used
  /\ kind \in {"delete", "share", "tags"}
  /\ kind # "tags" => names = {}
  /\ Advance(k, [NoCall EXCEPT !.kind = kind, !.step = "find", !.items = {q},
                               !.todo = {q}, !.names = names])
  /\ UNCHANGED <<rows, asked, strays>>

Find(k) ==
  /\ call[k].step = "find"
  /\ \E q \in call[k].todo :
       IF Alive(q)
         THEN Advance(k, [call[k] EXCEPT !.step = "check", !.now = q, !.seen[q] = at[q],
                                         !.todo = @ \ {q}])
         ELSE End(k)
  /\ UNCHANGED <<rows, asked, strays>>

\* To the next item, or to the write.
Checked(c, ws) ==
  [c EXCEPT !.step = IF c.todo = {} THEN "write" ELSE "find", !.verified = @ \cup {ws}]

\* Faulty variant: a move asks nothing of the collection it moves to.
CheckSourceOnly(k) ==
  /\ call[k].step = "check"
  /\ call[k].seen[call[k].now] \in collections
  /\ Advance(k, Checked(call[k], Home[call[k].seen[call[k].now]]))
  /\ UNCHANGED <<rows, asked, strays>>

\* verifyCollectionWriteAccess of the collection the request was found in.
Check(k) ==
  /\ call[k].step = "check"
  /\ LET c == call[k]
         from == c.seen[c.now]
         next == Checked(c, Home[from])
     IN /\ from \in collections
        /\ Advance(k, IF c.to[c.now] \in {Nowhere, from} THEN next
                      ELSE [next EXCEPT !.step = "target"])
  /\ UNCHANGED <<rows, asked, strays>>

\* verifyCollectionWriteAccess of the collection it goes to.
CheckTarget(k) ==
  /\ call[k].step = "target"
  /\ LET c == call[k] IN
       /\ c.to[c.now] \in collections
       /\ Advance(k, Checked(c, Home[c.to[c.now]]))
  /\ UNCHANGED <<rows, asked, strays>>

\* The collection is gone, the caller has no role, or the call is cut off.
Stop(k) ==
  /\ call[k].step # "idle"
  /\ Refuse(k)

-----------------------------------------------------------------------------
(***************************************************************************)
(* Write.                                                                  *)
(***************************************************************************)

Without(gone) ==
  /\ at' = [q \in Requests |-> IF q \in gone THEN Nowhere ELSE at[q]]
  /\ tagged' = [q \in Requests |-> IF q \in gone THEN {} ELSE tagged[q]]
  /\ asked' = [q \in Requests |-> IF q \in gone THEN {} ELSE asked[q]]
  /\ shared' = shared \ gone
  /\ strays' = strays \ gone

\* createSavedRequest.
Save(k) ==
  /\ call[k].step = "write" /\ call[k].kind = "save"
  /\ \E q \in call[k].items :
       at' = IF call[k].to[q] \in collections THEN [at EXCEPT ![q] = call[k].to[q]] ELSE at
  /\ End(k)
  /\ UNCHANGED <<collections, tag, tagged, shared, used, asked, strays>>

\* updateSavedRequest, reorderSavedRequestsQuery: all of the items or, when a
\* request or a collection is gone, none.
Put(k) ==
  /\ call[k].step = "write" /\ call[k].kind = "put"
  /\ LET c == call[k]
         Target(q) == IF c.to[q] = Nowhere THEN at[q] ELSE c.to[q]
     IN IF \A q \in c.items : Alive(q) /\ Target(q) \in collections
          THEN /\ at' = [q \in Requests |-> IF q \in c.items THEN Target(q) ELSE at[q]]
               /\ strays' = strays \cup {q \in c.items : Home[Target(q)] # Home[at[q]]}
          ELSE UNCHANGED <<at, strays>>
  /\ End(k)
  /\ UNCHANGED <<collections, tag, tagged, shared, used, asked>>

\* deleteSavedRequest: the links and the tags of the request go with it.
Delete(k) ==
  /\ call[k].step = "write" /\ call[k].kind = "delete"
  /\ Without(call[k].items)
  /\ End(k)
  /\ UNCHANGED <<collections, tag, used>>

\* createSharedLink.
Share(k) ==
  /\ call[k].step = "write" /\ call[k].kind = "share"
  /\ shared' = shared \cup {q \in call[k].items : Alive(q)}
  /\ End(k)
  /\ UNCHANGED <<collections, at, tag, tagged, used, asked, strays>>

\* Faulty variant: any workspace's tag of that name will do.
NamedAnywhere(ws, name) == {g \in Stored : tag[g].name = name}

Named(ws, name) == {g \in Stored : tag[g] = [ws |-> ws, name |-> name]}

\* upsertTag of one of the names, in the workspace that the request was found in.
Upsert(k) ==
  /\ call[k].step = "write" /\ call[k].kind = "tags"
  /\ \E name \in call[k].names :
       LET ws == Home[call[k].seen[call[k].now]]
           Took(g) == Advance(k, [call[k] EXCEPT !.names = @ \ {name}, !.ids = @ \cup {g}])
       IN IF Named(ws, name) # {}
            THEN (\E g \in Named(ws, name) : Took(g)) /\ UNCHANGED <<tag, used>>
            ELSE \E g \in Tags \ used :
                   /\ tag' = [tag EXCEPT ![g] = [ws |-> ws, name |-> name]]
                   /\ used' = used \cup {g}
                   /\ Took(g)
  /\ UNCHANGED <<collections, at, tagged, shared, asked, strays>>

\* Faulty variant: the old tags are removed before the new ones are found missing.
ReplaceTagsInTwo(k) ==
  /\ call[k].step = "write" /\ call[k].kind = "tags" /\ call[k].names = {}
  /\ LET q == call[k].now  ids == call[k].ids IN
       IF Alive(q) /\ ids \subseteq Stored
         THEN tagged' = [tagged EXCEPT ![q] = ids] /\ asked' = [asked EXCEPT ![q] = ids]
         ELSE tagged' = [tagged EXCEPT ![q] = {}] /\ UNCHANGED asked
  /\ End(k)
  /\ UNCHANGED <<collections, at, tag, shared, used, strays>>

\* replaceRequestTags: a transaction, undone when a tag or the request is gone.
ReplaceTags(k) ==
  /\ call[k].step = "write" /\ call[k].kind = "tags" /\ call[k].names = {}
  /\ LET q == call[k].now  ids == call[k].ids IN
       IF Alive(q) /\ ids \subseteq Stored
         THEN /\ tagged' = [tagged EXCEPT ![q] = ids]
              /\ asked' = [asked EXCEPT ![q] = ids]
              /\ strays' = IF Home[at[q]] = Home[call[k].seen[q]] THEN strays \ {q}
                           ELSE strays \cup {q}
         ELSE UNCHANGED <<tagged, asked, strays>>
  /\ End(k)
  /\ UNCHANGED <<collections, at, tag, shared, used>>

-----------------------------------------------------------------------------
(***************************************************************************)
(* The tags themselves, and what removes requests otherwise.               *)
(***************************************************************************)

CreateTag(g, ws, name) ==
  /\ g \notin used /\ Named(ws, name) = {}
  /\ tag' = [tag EXCEPT ![g] = [ws |-> ws, name |-> name]]
  /\ used' = used \cup {g}
  /\ UNCHANGED <<collections, at, tagged, shared, call, asked, strays>>

\* The workspace of a tag never changes, so that the check holds for the write.
RenameTag(g, name) ==
  /\ g \in Stored
  /\ Named(tag[g].ws, name) = {}
  /\ tag' = [tag EXCEPT ![g].name = name]
  /\ UNCHANGED <<collections, at, tagged, shared, used, call, asked, strays>>

\* Faulty variant: the rows that tie the tag to requests stay.
DeleteTagAlone(g) ==
  /\ g \in Stored
  /\ tag' = [tag EXCEPT ![g] = NoTag]
  /\ UNCHANGED <<collections, at, tagged, shared, used, call, asked, strays>>

DeleteTag(g) ==
  /\ g \in Stored
  /\ tag' = [tag EXCEPT ![g] = NoTag]
  /\ tagged' = [q \in Requests |-> tagged[q] \ {g}]
  /\ UNCHANGED <<collections, at, shared, used, call, asked, strays>>

DeleteCollection(c) ==
  /\ c \in collections
  /\ collections' = collections \ {c}
  /\ Without({q \in Requests : at[q] = c})
  /\ UNCHANGED <<tag, used, call>>

Write(k) ==
  Save(k) \/ Put(k) \/ Delete(k) \/ Share(k) \/ Upsert(k) \/ ReplaceTags(k)

Serve(k) ==
  \/ \E q \in Requests, c \in Collections : BeginSave(k, q, c)
  \/ \E items \in SUBSET Requests : \E to \in [items -> Collections \cup {Nowhere}] :
       BeginPut(k, items, to)
  \/ \E kind \in Kind, q \in Requests, names \in SUBSET Names : Begin(k, kind, q, names)
  \/ Find(k) \/ Check(k) \/ CheckTarget(k) \/ Stop(k)
  \/ Write(k)

Next ==
  \/ \E k \in Calls : Serve(k)
  \/ \E g \in Tags :
       \/ \E ws \in Workspaces, name \in Names : CreateTag(g, ws, name)
       \/ \E name \in Names : RenameTag(g, name)
       \/ DeleteTag(g)
  \/ \E c \in Collections : DeleteCollection(c)

Spec == Init /\ [][Next]_vars

-----------------------------------------------------------------------------
TypeOK ==
  /\ collections \subseteq Collections
  /\ at \in [Requests -> collections \cup {Nowhere}]
  /\ tag \in [Tags -> [ws : Workspaces, name : Names] \cup {NoTag}]
  /\ tagged \in [Requests -> SUBSET Stored]
  /\ shared \subseteq {q \in Requests : Alive(q)}
  /\ call \in [Calls -> Call]
  /\ used \subseteq Requests \cup Tags
  /\ asked \in [Requests -> SUBSET Tags]
  /\ strays \subseteq Requests

\* The tags of a request are of its own workspace, unless it was moved to another
\* one since the update that wrote them found it: a move leaves the tags as they are.
TagsAtHome ==
  \A q \in Requests \ strays : \A g \in tagged[q] : tag[g].ws = Home[at[q]]

\* However updates, renames and deletions interleave, a request has the tags that
\* one update asked for, all of them that are left, and an update that fails
\* changes none.
TagsOfOneUpdate == \A q \in Requests : tagged[q] = asked[q] \cap Stored

\* A call writes to a workspace only when its caller's role there was checked in
\* this call, unless the request was moved there after it was found.
WritesWhereAllowed ==
  [][\A k \in Calls : \A q \in call[k].items :
       LET c == call[k]
           Checks(place) == place = Nowhere \/ Home[place] \in c.verified
       IN (c.step = "write" /\ call'[k] # c /\ <<at, tagged, shared>>' # <<at, tagged, shared>>)
            => Checks(c.to[q]) /\ (at[q] = c.seen[q] => Checks(at[q]))]_vars

=============================================================================
