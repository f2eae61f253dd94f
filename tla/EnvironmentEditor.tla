-------------------------- MODULE EnvironmentEditor --------------------------
(***************************************************************************)
(* The environments as one browser shows and edits them: the list in the   *)
(* cache of React Query (hooks/queries/useEnvironments.ts), the window     *)
(* that manages them (components/environment/EnvironmentManager.tsx with   *)
(* VariableEditor.tsx), the active one (hooks/useEnvironment.ts) and the   *)
(* one whose variables the request builder resolves (RequestBuilder.tsx).  *)
(*                                                                         *)
(* The editor changes the rows of the cached list in place, so that the    *)
(* builder uses them at once and closing the window does not undo them.    *)
(* An answer for the list replaces only what differs from what is cached;  *)
(* an environment it replaces takes the rows in the editor with it.        *)
(***************************************************************************)
EXTENDS Naturals, Sequences, SequencesExt, FiniteSets

CONSTANTS
  Envs,
  Values,    \* what a row says: its key, value and switches
  Empty,     \* the one of them that a new row has
  MaxRows,   \* bound on the rows of an environment
  MaxIds,    \* bound on the saves and renames that the server carries out
  MaxCalls,  \* bound on calls under way
  None,      \* no environment; not created yet
  Gone       \* deleted

VARIABLES
  server,    \* server[e]: its name, a number, and its rows; or None or Gone
  ids,       \* numbers given so far
  cache,     \* cache[e]: the same as last answered, its rows as changed in place
  fetch,     \* the fetch of the list that is under way, and what it read
  calls,     \* calls of the window under way
  open,      \* the window is open
  selected,  \* the environment it shows
  active,    \* the environment requests use
  own,       \* rows in the editor that are not in the cached list
  dropped,   \* rows of the cached list that are no longer in the editor
  used,      \* the environment whose rows the builder has
  touched,   \* history: environments with rows changed in place since they were answered
  doomed,    \* history: environments chosen when they were deleted, or being
  missed     \* history: the answer of a call or of a fetch was lost

data == <<server, ids>>
window == <<open, selected, own, dropped>>
editorVars == <<server, ids, cache, fetch, calls, open, selected, active, own, dropped, used,
                touched, doomed, missed>>

Row == [id : Nat, value : Values]

\* What the server keeps of one.
Environment == [name : Nat, rows : Seq(Row)]

EditorAssumption ==
  /\ None \notin Envs \cup Environment /\ Gone \notin Environment /\ None # Gone
  /\ Empty \in Values

Kept(e, at) == e # None /\ at[e] \notin {None, Gone}

Listed == {e \in Envs : Kept(e, cache)}

\* The builder takes the rows of the active environment, if it is listed, else it
\* keeps those it has.
Sync(e, list) == used' = IF Kept(e, list) THEN e ELSE used

\* setEditingVariables of the effect: the rows of the list, and no others.  It runs
\* when the window opens and when the environment shown is another or a new object;
\* what it will replace is forgotten here at once.
Reset == own' = <<>> /\ dropped' = {}

NoFetch == [step |-> "no", list |-> None]

Init ==
  /\ server \in [Envs -> {None} \cup {[name |-> 0, rows |-> q] : q \in {<<>>} \cup
                            {<<[id |-> 0, value |-> x]>> : x \in Values}}]
  /\ ids = 0
  /\ cache = server
  /\ fetch = NoFetch /\ calls = {} /\ open = FALSE
  /\ active \in Listed \cup {None} /\ selected = active
  /\ own = <<>> /\ dropped = {}
  /\ used = active
  /\ touched = {} /\ doomed = {} /\ missed = FALSE

-----------------------------------------------------------------------------
(***************************************************************************)
(* What the user does.                                                     *)
(***************************************************************************)
BeingDeleted(e) == \E c \in calls : c.kind = "delete" /\ c.env = e

\* activeEnvironmentId is set; the choice of an environment that is gone or being
\* deleted, and still listed, is remembered.
Activate(e) ==
  /\ active' = e
  /\ doomed' = doomed \cup {d \in (Envs \cap {e}) \ {active} : server[d] = Gone \/ BeingDeleted(d)}
  /\ Sync(e, cache)

\* setSelectedEnvId.
Show(e) ==
  /\ selected' = e
  /\ IF e # selected THEN Reset ELSE UNCHANGED <<own, dropped>>

OpenManager ==
  /\ ~open /\ open' = TRUE
  /\ Reset
  /\ UNCHANGED <<data, cache, fetch, calls, selected, active, used, touched, doomed, missed>>

CloseManager ==
  /\ open /\ open' = FALSE
  /\ Reset
  /\ UNCHANGED <<data, cache, fetch, calls, selected, active, used, touched, doomed, missed>>

\* In the window; choosing again what is shown leaves the editor alone.
Select(e) ==
  /\ open /\ e \in Listed
  /\ Show(e)
  /\ Activate(e)
  /\ UNCHANGED <<data, cache, fetch, calls, open, touched, missed>>

\* In the selector beside the address.
Choose(e) ==
  /\ ~open /\ e \in Listed \cup {None}
  /\ Activate(e)
  /\ UNCHANGED <<data, cache, fetch, calls, window, touched, missed>>

Editing == open /\ selected \in Listed

Remaining == IF selected \in Listed THEN (DOMAIN cache[selected].rows) \ dropped ELSE {}

Nth(S, n) == CHOOSE i \in S : Cardinality({j \in S : j <= i}) = n

\* The rows in the editor.
Shown ==
  [n \in 1 .. Cardinality(Remaining) |-> cache[selected].rows[Nth(Remaining, n)].value] \o own

\* handleToggle, handleKeyChange, handleValueChange and handleSecretToggle.
ChangeRow ==
  /\ Editing
  /\ \/ \E i \in Remaining, x \in Values :
          /\ cache' = [cache EXCEPT ![selected].rows[i].value = x]
          /\ touched' = touched \cup {selected}
          /\ UNCHANGED own
     \/ \E i \in DOMAIN own, x \in Values : own' = [own EXCEPT ![i] = x] /\ UNCHANGED <<cache, touched>>
  /\ UNCHANGED <<data, fetch, calls, open, selected, active, dropped, used, doomed, missed>>

HandleDelete ==
  /\ Editing
  /\ \/ \E i \in Remaining : dropped' = dropped \cup {i} /\ UNCHANGED own
     \/ \E i \in DOMAIN own : own' = RemoveAt(own, i) /\ UNCHANGED dropped
  /\ UNCHANGED <<data, cache, fetch, calls, open, selected, active, used, touched, doomed, missed>>

HandleAddRow ==
  /\ Editing /\ Len(Shown) < MaxRows
  /\ own' = Append(own, Empty)
  /\ UNCHANGED <<data, cache, fetch, calls, open, selected, active, dropped, used, touched,
                 doomed, missed>>

(***************************************************************************)
(* Calls.  Each remembers what its handler captured: the selected and the  *)
(* active environment and the list.  No two alike are under way.           *)
(***************************************************************************)
Start(kind, e, rows) ==
  /\ Cardinality(calls) < MaxCalls
  /\ \A c \in calls : c.kind # kind \/ c.env # e
  /\ calls' = calls \cup {[kind |-> kind, env |-> e, rows |-> rows, step |-> "sent",
                           selected |-> selected, active |-> active, listed |-> Listed]}
  /\ UNCHANGED <<data, cache, fetch, window, active, used, touched, doomed, missed>>

\* One save at a time: its button waits.
SaveVariables ==
  /\ Editing /\ \A c \in calls : c.kind # "save"
  /\ Start("save", selected, Shown)

CreateEnvironment(e) == open /\ e \notin Listed /\ server[e] = None /\ Start("create", e, <<>>)
RenameEnvironment(e) == open /\ e \in Listed /\ Start("rename", e, <<>>)
DeleteEnvironment(e) == open /\ e \in Listed /\ Start("delete", e, <<>>)

\* A save replaces every row, with new ids.
Apply(c) ==
  LET numbered == [i \in DOMAIN c.rows |-> [id |-> ids', value |-> c.rows[i]]]
  IN CASE c.kind = "create" -> server' = [server EXCEPT ![c.env] = [name |-> 0, rows |-> <<>>]]
       [] c.kind = "rename" -> server' = [server EXCEPT ![c.env].name = ids']
       [] c.kind = "delete" -> server' = [server EXCEPT ![c.env] = Gone]
       [] c.kind = "save" -> server' = [server EXCEPT ![c.env].rows = numbered]

Applies(c) == IF c.kind = "create" THEN server[c.env] = None ELSE Kept(c.env, server)

\* A failed one changes nothing, but when its answer is lost.
Served(c) ==
  /\ c.step = "sent"
  /\ \/ /\ Applies(c)
        /\ ids < MaxIds /\ ids' = ids + 1
        /\ Apply(c)
        /\ \/ calls' = (calls \ {c}) \cup {[c EXCEPT !.step = "done"]} /\ UNCHANGED <<missed, doomed>>
           \/ /\ calls' = calls \ {c} /\ missed' = TRUE
              /\ doomed' = IF c.kind = "delete" THEN doomed \cup {c.env} ELSE doomed
     \/ calls' = calls \ {c} /\ UNCHANGED <<data, missed, doomed>>
  /\ UNCHANGED <<cache, fetch, window, active, used, touched>>

\* Faulty variant: a save names only the key of the one environment.
InvalidatedDetail(c) == c.kind # "save"

\* The keys of every mutation begin that of the list.
Invalidated(c) == TRUE

\* Faulty variant: another environment is chosen only in the window.
AfterDeletionKeeps(c, next) == IF c.selected = c.env /\ next # None THEN next ELSE active

\* deleteEnvironment gives up what was active when it was called; then another of the
\* list of that time is chosen, if what it showed at that time is what is deleted.
AfterDeletion(c, next) ==
  IF c.selected = c.env /\ next # None THEN next
  ELSE IF c.active = c.env THEN None ELSE active

Others(c) == IF c.listed = {c.env} THEN {None} ELSE c.listed \ {c.env}

Succeeded(c) ==
  /\ c.step = "done"
  /\ calls' = calls \ {c}
  /\ fetch' = IF Invalidated(c) THEN [NoFetch EXCEPT !.step = "asked"] ELSE fetch
  /\ CASE c.kind = "create" -> Show(c.env) /\ Activate(c.env)
       [] c.kind = "delete" ->
            \E next \in Others(c) :
              /\ IF c.selected = c.env THEN Show(next)
                 ELSE UNCHANGED <<selected, own, dropped>>
              /\ Activate(AfterDeletion(c, next))
       [] OTHER -> UNCHANGED <<selected, own, dropped, active, used, doomed>>
  /\ UNCHANGED <<data, cache, open, touched, missed>>

-----------------------------------------------------------------------------
(***************************************************************************)
(* The list.                                                               *)
(***************************************************************************)
FetchReads ==
  /\ fetch.step = "asked"
  /\ fetch' = [step |-> "read", list |-> server]
  /\ UNCHANGED <<data, cache, calls, window, active, used, touched, doomed, missed>>

\* The environments that differ from what is cached become new objects.
FetchArrives ==
  /\ fetch.step = "read"
  /\ cache' = fetch.list
  /\ fetch' = NoFetch
  /\ touched' = {} /\ missed' = (missed /\ fetch.list # server)
  /\ IF selected # None /\ cache'[selected] # cache[selected] THEN Reset
     ELSE UNCHANGED <<own, dropped>>
  /\ Sync(active, fetch.list)
  /\ UNCHANGED <<data, calls, open, selected, active, doomed>>

FetchFails ==
  /\ fetch # NoFetch
  /\ fetch' = NoFetch /\ missed' = TRUE
  /\ UNCHANGED <<data, cache, calls, window, active, used, touched, doomed>>

Next ==
  \/ OpenManager \/ CloseManager \/ ChangeRow \/ HandleDelete \/ HandleAddRow \/ SaveVariables
  \/ \E e \in Envs : \/ Select(e) \/ Choose(e)
                     \/ CreateEnvironment(e) \/ RenameEnvironment(e) \/ DeleteEnvironment(e)
  \/ Choose(None)
  \/ \E c \in calls : Served(c) \/ Succeeded(c)
  \/ FetchReads \/ FetchArrives \/ FetchFails

Spec == Init /\ [][Next]_editorVars

-----------------------------------------------------------------------------
(***************************************************************************)
(* Properties.                                                             *)
(***************************************************************************)
AtRest == calls = {} /\ fetch = NoFetch

\* With nothing under way, the list has every environment as the server keeps it,
\* and so do the editor of one without rows of its own and the builder; but for
\* rows changed in place and not saved, and a call or a fetch whose answer was lost.
EditorCatchesUp ==
  AtRest /\ ~missed
  => /\ \A e \in Envs \ touched : cache[e] = server[e]
     /\ Editing /\ selected \notin touched /\ own = <<>> /\ dropped = {}
        => Shown = [i \in DOMAIN server[selected].rows |-> server[selected].rows[i].value]
     /\ active # None /\ Kept(active, server) => used = active

\* With nothing under way, the active environment exists; unless it was chosen
\* from a list that still had it when it was deleted already or being deleted, by the
\* user or by the deletion of another; or the answer of its deletion was lost.
ActiveExists == AtRest /\ active # None => Kept(active, server) \/ active \in doomed

=============================================================================
