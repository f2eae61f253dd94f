---------------------------- MODULE LibraryLists ----------------------------
(***************************************************************************)
(* The sidebar of one browser over one workspace:                          *)
(* CollectionsSidebar.tsx, hooks/useCollections.ts and the queries and     *)
(* mutations of hooks/queries/useCollections.ts in src/apps/web/src.       *)
(*                                                                         *)
(* The browser keeps a list of the collections, one of the folders and one *)
(* of the requests of each collection that was opened, in the cache of     *)
(* React Query: what a list held when it was last answered, whether it was *)
(* invalidated since, and a fetch that may be under way.  A mutation       *)
(* invalidates lists when it succeeded; those on display are fetched       *)
(* again.  What the cache does is modelled from version 5 of that library. *)
(*                                                                         *)
(* One job of the user runs at a time, over any number of calls; names,    *)
(* places among siblings and tags are one bit of a request, `edited`.      *)
(***************************************************************************)
EXTENDS Naturals, FiniteSets

CONSTANTS
  Collections,
  Requests,   \* naturals, in their order within a collection
  Folders,
  PageSize,   \* how many requests the API answers at most: 50
  MaxJobs,    \* bound on the jobs of a behaviour
  Root,       \* no folder
  Gone,       \* the place of what was deleted
  Unmade,     \* the place of what was not created yet
  NotLoaded   \* a list never answered

ListsAssumption ==
  /\ Gone # Unmade /\ Folders \cap {Root, Gone, Unmade} = {} /\ Root \notin {Gone, Unmade}
  /\ Collections \cap {"collections", "folders", Root, Gone, Unmade} = {}
  /\ NotLoaded \notin [Collections -> Folders \cup {Root, Gone, Unmade}]
  /\ \A S \in SUBSET Folders : S # NotLoaded
  /\ \A S \in SUBSET [id : Requests, edited : BOOLEAN] : S # NotLoaded

VARIABLES
  where,     \* where[c]: the folder of collection c, Root or Gone
  folders,   \* the folders that exist
  row,       \* row[q]: the collection of request q, or Gone, and whether q was edited
  data,      \* data[k]: what list k held when last answered
  stale,     \* the lists invalidated since
  fetch,     \* fetch[k]: a fetch of list k
  failed,    \* lists whose last fetch failed, which show an error
  expanded,  \* the collections open in the tree
  found,     \* results of a search: requests with the collections they were in
  selected,  \* collections and requests selected
  job,       \* what the user has the sidebar do
  jobs,      \* jobs started so far
  missed     \* history: lists that no invalidation is to bring up to date

server == <<where, folders, row>>
cache == <<data, stale, fetch, failed>>
ui == <<expanded, found, selected>>
vars == <<server, cache, ui, job, jobs, missed>>

First == CHOOSE c \in Collections : TRUE

Lists == Collections \cup {"collections", "folders"}

Inside(c) == {q \in Requests : row[q].at = c}

\* The first page; the browser asks for no other.
Page(S) == {q \in S : Cardinality({p \in S : p < q}) < PageSize}

Entry(q) == [id |-> q, edited |-> row[q].edited]

\* What a fetch of list k reads.
Truth(k) ==
  IF k = "collections" THEN where
  ELSE IF k = "folders" THEN folders
  ELSE {Entry(q) : q \in Page(Inside(k))}

NoPlace == {Gone, Unmade}

Listed == {c \in Collections : data["collections"][c] \notin NoPlace}

\* On display: a query of the tree that is enabled.
Active(k) == k \in {"collections", "folders"} \cup (expanded \cap Listed)

Loaded(c) == IF c \in Listed /\ data[c] # NotLoaded THEN data[c] ELSE {}

NoFetch == [step |-> "no", value |-> NotLoaded]
Asked == [step |-> "asked", value |-> NotLoaded]

(***************************************************************************)
(* A job: calls still to make, one under way, and for an export what it    *)
(* has gathered, from which collections and, a history, which of their     *)
(* lists were not up to date then.                                         *)
(***************************************************************************)
Call(do, id, to) == [do |-> do, id |-> id, to |-> to]

NoJob == [kind |-> "none", todo |-> {}, call |-> Call("none", Root, Root), step |-> "next",
          bad |-> 0, chosen |-> {}, rows |-> {}, old |-> {}]

Init ==
  /\ where = [c \in Collections |-> IF c = First THEN Root ELSE Unmade]
  /\ folders = Folders
  /\ row \in [Requests -> [at : {Unmade} \cup {c \in Collections : where[c] = Root}, edited : {FALSE}]]
  /\ data = [k \in Lists |-> IF k \in Collections THEN NotLoaded
                             ELSE IF k = "folders" THEN folders ELSE where]
  /\ stale = {} /\ failed = {} /\ missed = {}
  /\ fetch = [k \in Lists |-> NoFetch]
  /\ expanded = {} /\ found = {} /\ selected = {}
  /\ job = NoJob /\ jobs = 0

(***************************************************************************)
(* The cache.                                                              *)
(***************************************************************************)
\* Opening fetches unless the list is there and fresh; nothing ages here.
Opened(C) ==
  [c \in Lists |-> IF c \in C /\ fetch[c].step = "no" /\ (data[c] = NotLoaded \/ c \in stale)
                   THEN Asked ELSE fetch[c]]

\* A fetch of a list that was never answered is joined, any other replaced.
Refetched(K, f) ==
  [k \in Lists |->
     IF k \in K /\ ~(f[k].step # "no" /\ data[k] = NotLoaded) THEN Asked ELSE f[k]]

\* Faulty variant: only lists on display are marked.
InvalidateShown(K, opened) ==
  /\ stale' = stale \cup {k \in K : Active(k)}
  /\ fetch' = Refetched({k \in K : Active(k)}, Opened(opened))
  /\ UNCHANGED <<data, failed>>

\* Lists known to the cache are marked, those on display fetched again; those of
\* `opened` come to be on display.
Invalidate(K, opened) ==
  /\ stale' = stale \cup {k \in K : data[k] # NotLoaded \/ fetch[k].step # "no"}
  /\ fetch' = Refetched({k \in K : Active(k)}, Opened(opened))
  /\ UNCHANGED <<data, failed>>

Kept(c) == c \in Collections /\ where[c] \notin NoPlace

FetchReads(k) ==
  /\ fetch[k].step = "asked" /\ (k \in Collections => Kept(k))
  /\ fetch' = [fetch EXCEPT ![k] = [step |-> "read", value |-> Truth(k)]]
  /\ UNCHANGED <<server, data, stale, failed, ui, job, jobs, missed>>

\* What arrives counts as fresh, also when the list was invalidated meanwhile.  A
\* collection that comes to be listed may have been opened before, by its creation.
FetchArrives(k) ==
  /\ fetch[k].step = "read"
  /\ data' = [data EXCEPT ![k] = fetch[k].value]
  /\ stale' = stale \ {k} /\ failed' = failed \ {k}
  /\ fetch' = LET listed == {c \in Collections : k = "collections" /\ fetch[k].value[c] \notin NoPlace}
              IN [Opened(expanded \cap (listed \ Listed)) EXCEPT ![k] = NoFetch]
  /\ missed' = IF fetch[k].value = Truth(k) THEN missed \ {k}
               ELSE IF k \in stale THEN missed \cup {k} ELSE missed
  /\ IF job.call.do = "read" /\ job.call.id = k
       THEN job' = [job EXCEPT !.rows = @ \cup fetch[k].value, !.step = "next",
                               !.call = NoJob.call]
       ELSE job' = job
  /\ UNCHANGED <<server, ui, jobs>>

\* After one retry; an export that waits for it is over.  One list at a time has
\* failed (a bound).
FetchFails(k) ==
  /\ fetch[k].step # "no" /\ failed \subseteq {k}
  /\ fetch' = [fetch EXCEPT ![k] = NoFetch]
  /\ failed' = failed \cup {k}
  /\ job' = IF job.call.do = "read" /\ job.call.id = k THEN NoJob ELSE job
  /\ UNCHANGED <<server, data, stale, ui, jobs, missed>>

\* fetchRequests, for the link "Retry" and for an export.
FetchRequests(c) == fetch' = [fetch EXCEPT ![c] = IF @.step = "no" THEN Asked ELSE @]

Retry(c) ==
  /\ c \in expanded \cap failed \cap Listed
  /\ FetchRequests(c)
  /\ UNCHANGED <<server, data, stale, failed, ui, job, jobs, missed>>

ToggleExpand(c) ==
  /\ c \in Listed
  /\ expanded' = IF c \in expanded THEN expanded \ {c} ELSE expanded \cup {c}
  /\ fetch' = Opened({c} \ expanded)
  /\ UNCHANGED <<server, data, stale, failed, found, selected, job, jobs, missed>>

(***************************************************************************)
(* What the user asks for.                                                 *)
(***************************************************************************)
\* Once; its results stay what they were.
SearchRequests ==
  /\ found' = {[id |-> q, at |-> row[q].at] : q \in {p \in Requests : row[p].at \notin NoPlace}}
  /\ found = {} /\ found' # {}
  /\ UNCHANGED <<server, cache, expanded, selected, job, jobs, missed>>

\* Requests on display, with the collection each is said to be in.
Shown ==
  found \cup UNION {{[id |-> e.id, at |-> c] : e \in Loaded(c)} : c \in expanded \cap Listed}

Select(x) ==
  /\ x \in Listed \cup {s.id : s \in Shown}
  /\ selected' = selected \cup {x}
  /\ UNCHANGED <<server, cache, expanded, found, job, jobs, missed>>

\* Leaving the mode of selection.
ClearSelection ==
  /\ selected # {}
  /\ selected' = {}
  /\ UNCHANGED <<server, cache, expanded, found, job, jobs, missed>>

Start(kind, calls, first) ==
  /\ job = NoJob /\ jobs < MaxJobs
  /\ job' = [NoJob EXCEPT !.kind = kind, !.todo = calls, !.call = first,
                          !.step = IF first = NoJob.call THEN "next" ELSE "sent"]
  /\ jobs' = jobs + 1
  /\ UNCHANGED <<server, cache, ui, missed>>

Operate ==
  \/ \E s \in Shown : \E do \in {"deleteRequest", "rename", "tag"} :
       Start("one", {}, Call(do, s.id, s.at))
  \/ \E c \in Listed : Start("one", {}, Call("deleteCollection", c, Root))
  \/ \E c \in Listed : \E f \in data["folders"] \cup {Root} :
       Start("one", {}, Call("moveCollection", c, f))
  \/ \E f \in data["folders"] : Start("one", {}, Call("deleteFolder", f, Root))
  \/ \E c \in Collections, do \in {"create", "import"} :
       where[c] = Unmade /\ Start("one", {}, Call(do, c, Root))
  \/ \E f \in Folders \ data["folders"] : Start("one", {}, Call("createFolder", f, Root))
  \/ Start("one", {}, Call("clear", Root, Root))

\* The requests selected that some list holds; the others are passed over.
SelectedRequests == {q \in selected \cap Requests : \E c \in Listed : \E e \in Loaded(c) : e.id = q}
SelectedCollections == selected \cap Collections

BulkDelete ==
  /\ selected # {}
  /\ Start("bulk", {Call("deleteRequest", q, Root) : q \in SelectedRequests}
                   \cup {Call("deleteCollection", c, Root) : c \in SelectedCollections}, NoJob.call)

BulkMove ==
  \/ /\ SelectedCollections # {} /\ selected \cap Requests = {}
     /\ \E f \in data["folders"] \cup {Root} :
          Start("bulk", {Call("moveCollection", c, f) : c \in SelectedCollections}, NoJob.call)
  \/ /\ SelectedCollections = {} /\ selected \cap Requests # {}
     /\ \E c \in Listed :
          Start("bulk", {Call("moveRequest", q, c) : q \in SelectedRequests}, NoJob.call)

\* Of a Postman or OpenAPI file: a collection, then its requests one by one.  A file
\* of this program's own is one call.
ImportFile ==
  \E c \in Collections :
    where[c] = Unmade /\ Start("import", {Call("save", q, c) : q \in Inside(Unmade)}, Call("create", c, Root))

\* Lists that are loaded and not empty are taken as they are, others fetched.
BulkExport ==
  LET homes == {c \in Listed : \E e \in Loaded(c) : e.id \in selected}
      chosen == (SelectedCollections \cap Listed) \cup homes
      read == {c \in chosen : Loaded(c) = {}}
  IN /\ selected # {} /\ job = NoJob /\ jobs < MaxJobs
     /\ job' = [NoJob EXCEPT !.kind = "export", !.chosen = chosen,
                  !.todo = {Call("read", c, Root) : c \in read},
                  !.rows = UNION {Loaded(c) : c \in chosen},
                  !.old = chosen \cap (stale \cup missed)]
     /\ jobs' = jobs + 1
     /\ UNCHANGED <<server, cache, ui, missed>>

(***************************************************************************)
(* The calls of a job.                                                     *)
(***************************************************************************)
\* Requests are deleted before collections.
NextCall(x) ==
  /\ job.kind # "none" /\ job.step = "next" /\ x \in job.todo
  /\ x.do = "deleteCollection" => \A y \in job.todo : y.do = x.do
  /\ job' = [job EXCEPT !.todo = @ \ {x}, !.call = x, !.step = "sent"]
  /\ IF x.do = "read" THEN FetchRequests(x.id) /\ UNCHANGED <<data, stale, failed>>
                      ELSE UNCHANGED cache
  /\ UNCHANGED <<server, ui, jobs, missed>>

\* What the API does, when it finds what the call is about.
Applies(x) ==
  CASE x.do \in {"deleteRequest", "tag"} -> row[x.id].at \notin NoPlace
    [] x.do \in {"rename", "moveRequest"} -> row[x.id].at \notin NoPlace /\ Kept(x.to)
    [] x.do = "save" -> Kept(x.to)
    [] x.do = "deleteCollection" -> Kept(x.id)
    [] x.do = "moveCollection" -> Kept(x.id) /\ x.to \in folders \cup {Root}
    [] x.do = "deleteFolder" -> x.id \in folders
    [] OTHER -> TRUE

Apply(x) ==
  /\ where' = CASE x.do = "clear" -> [c \in Collections |-> IF Kept(c) THEN Gone ELSE where[c]]
                [] x.do \in {"create", "import"} -> [where EXCEPT ![x.id] = Root]
                [] x.do = "moveCollection" -> [where EXCEPT ![x.id] = x.to]
                [] x.do = "deleteCollection" -> [where EXCEPT ![x.id] = Gone]
                [] x.do = "deleteFolder" ->
                     [c \in Collections |-> IF where[c] = x.id THEN Root ELSE where[c]]
                [] OTHER -> where
  /\ folders' = CASE x.do = "clear" -> {}
                  [] x.do = "createFolder" -> folders \cup {x.id}
                  [] x.do = "deleteFolder" -> folders \ {x.id}
                  [] OTHER -> folders
  /\ row' = CASE x.do = "clear" -> [q \in Requests |-> IF row[q].at = Unmade THEN row[q]
                                                 ELSE [row[q] EXCEPT !.at = Gone]]
              [] x.do = "deleteRequest" -> [row EXCEPT ![x.id].at = Gone]
              [] x.do = "deleteCollection" ->
                   [q \in Requests |-> IF row[q].at = x.id THEN [row[q] EXCEPT !.at = Gone]
                                       ELSE row[q]]
              [] x.do = "import" -> [q \in Requests |-> IF row[q].at = Unmade
                                                          THEN [row[q] EXCEPT !.at = x.id] ELSE row[q]]
              [] x.do = "tag" -> [row EXCEPT ![x.id].edited = TRUE]
              [] x.do = "rename" -> [row EXCEPT ![x.id] = [at |-> x.to, edited |-> TRUE]]
              [] x.do = "moveRequest" -> [row EXCEPT ![x.id].at = x.to]
              [] x.do = "save" -> [row EXCEPT ![x.id] = [at |-> x.to, edited |-> FALSE]]
              [] OTHER -> row

\* Faulty variant: the collections a deleted folder held are not fetched again.
InvalidatedFew(x) ==
  CASE x.do \in {"deleteCollection", "moveCollection"} -> {"collections", "folders"}
    [] x.do = "create" -> {"collections"}
    [] x.do \in {"createFolder", "deleteFolder"} -> {"folders"}
    [] x.do = "save" -> {x.to}
    [] x.do \in {"clear", "import"} -> Lists
    [] OTHER -> Collections

\* The lists whose keys begin with what the mutation names.
Invalidated(x) ==
  CASE x.do \in {"deleteCollection", "moveCollection", "deleteFolder"} -> {"collections", "folders"}
    [] x.do = "create" -> {"collections"}
    [] x.do = "createFolder" -> {"folders"}
    [] x.do = "save" -> {x.to}
    [] x.do \in {"clear", "import", "tag"} -> Lists
    [] OTHER -> Collections

\* The lists on display that the call of the job changes: with no answer, no
\* mutation brings them up to date.
Changed == {k \in Lists : Truth(k)' # Truth(k)}

Served ==
  /\ job.step = "sent" /\ job.call.do # "read"
  /\ \/ /\ Applies(job.call) /\ Apply(job.call)
        /\ job' = [job EXCEPT !.step = "done"] /\ missed' = missed
     \/ /\ Applies(job.call) /\ Apply(job.call)
        /\ job' = [job EXCEPT !.step = "error"]
        /\ missed' = missed \cup Changed
     \/ /\ job' = [job EXCEPT !.step = "error"] /\ missed' = missed
        /\ UNCHANGED server
  /\ UNCHANGED <<cache, ui, jobs>>

Succeeded ==
  /\ job.step = "done"
  /\ job' = [job EXCEPT !.step = "next", !.call = NoJob.call]
  /\ LET made == IF job.call.do = "create" THEN {job.call.id} ELSE {}
     IN /\ expanded' = expanded \cup made
        /\ Invalidate(Invalidated(job.call), made \cap Listed)
  /\ UNCHANGED <<server, found, selected, jobs, missed>>

\* An import counts the request as failed and goes on; another job is over.
Failed ==
  /\ job.step = "error"
  /\ job' = IF job.kind = "import" /\ job.call.do = "save"
              THEN [job EXCEPT !.step = "next", !.call = NoJob.call, !.bad = @ + 1]
              ELSE NoJob
  /\ UNCHANGED <<server, cache, ui, jobs, missed>>

\* Deleting and moving end the selection.
Finish ==
  /\ job.kind # "none" /\ job.step = "next" /\ job.todo = {}
  /\ job' = NoJob
  /\ selected' = IF job.kind = "bulk" THEN {} ELSE selected
  /\ UNCHANGED <<server, cache, expanded, found, jobs, missed>>

UserStep ==
  \/ \E c \in Collections : ToggleExpand(c) \/ Retry(c)
  \/ SearchRequests \/ ClearSelection
  \/ \E x \in Collections \cup Requests : Select(x)
  \/ Operate \/ BulkDelete \/ BulkMove \/ ImportFile \/ BulkExport

Next ==
  \/ UserStep
  \/ \E k \in Lists : FetchReads(k) \/ FetchArrives(k) \/ FetchFails(k)
  \/ \E x \in job.todo : NextCall(x)
  \/ Served \/ Succeeded \/ Failed \/ Finish

Spec == Init /\ [][Next]_vars

(***************************************************************************)
(* Properties.                                                             *)
(***************************************************************************)
\* With nothing under way, every list on display that shows no error holds what
\* the server has: each mutation invalidates all it changed.  Two things excuse a
\* list: the answer of a call that was carried out was lost, or an answer read
\* before a mutation arrived after its invalidation, which then fetches nothing.
ListsCatchUp ==
  job = NoJob /\ (\A k \in Lists : fetch[k] = NoFetch)
  => \A k \in Lists : Active(k) /\ (k \in Collections => Kept(k))
                          => data[k] = Truth(k) \/ k \in failed \cup missed

\* An export holds every request of the collections chosen as the server has it,
\* as far as the first page goes; unless one of their lists was known to be old as it
\* began (invalidated and not fetched again, as those of closed collections are not,
\* or excused above), or a collection is gone that the list of collections still has.
Exported ==
  job.kind = "export" /\ Finish =>
    \/ job.rows = UNION {Truth(c) : c \in job.chosen}
    \/ job.old # {}
    \/ \E c \in job.chosen : ~Kept(c)

\* So in every step.
ExportIsCurrent == [][Exported]_vars

=============================================================================
