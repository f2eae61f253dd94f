----------------------------- MODULE Playground -----------------------------
(***************************************************************************)
(* What a guest's browser keeps of the playground: environments, the       *)
(* active one and a history of sends, in localStorage                      *)
(* (utils/playground.storage.ts) and in the tabs that show them            *)
(* (hooks/usePlaygroundEnvironment.ts, hooks/usePlaygroundHistory.ts,      *)
(* app/playground/page.tsx, components/playground/PlaygroundSidebar.tsx).  *)
(*                                                                         *)
(* A tab has two copies of the environments: the page's, whose active one  *)
(* the requests use, and the sidebar's, which the manager changes.  Both   *)
(* are read from the storage when the tab loads, and only then.            *)
(***************************************************************************)
EXTENDS Naturals, Sequences

CONSTANTS
  Tabs,
  Envs,
  Values,     \* what an environment says: its name and rows
  Fresh,      \* the one of them that a new environment has
  Requests,
  MaxHistory, \* entries kept: 20
  MaxEntries, \* bound on the sends recorded
  None

PlaygroundAssumption == Fresh \in Values /\ None \notin Values \cup Envs

VARIABLES
  storage,   \* what localStorage holds: envs, active, history
  made,      \* environments created so far
  side,      \* side[t]: the sidebar's environments, the active one and the one it shows
  page,      \* page[t]: the page's environments and its active one
  used,      \* used[t]: the variables the builder has
  list,      \* list[t]: the history shown
  send,      \* send[t]: the request under way, with the response shown when it was sent
  response,  \* response[t]: the request whose response is shown
  entries,   \* entries recorded so far
  unsaved,   \* history: unsaved[t], environments of the sidebar changed in place
  lone,      \* history: lone[t], no other tab wrote, and no write failed, since t loaded
  apart      \* history: apart[t], the sidebar was used since t loaded

vars == <<storage, made, side, page, used, list, send, response, entries, unsaved, lone, apart>>

NothingStored == [envs |-> [e \in Envs |-> None], active |-> None, history |-> <<>>]

NotSending == [step |-> "no", request |-> None, seen |-> None]

Entry == [id : 1 .. MaxEntries, request : Requests, status : Requests]

First(q, n) == SubSeq(q, 1, IF Len(q) < n THEN Len(q) ELSE n)

\* The active environment as it was stored, unless it is gone.
Found(s) == IF s.active # None /\ s.envs[s.active] # None THEN s.active ELSE None

Loaded(s) == [envs |-> s.envs, active |-> Found(s)]

\* Faulty variant: the variables first set stay.
SyncOnce(t, copy) ==
  used' = IF copy.active = None \/ used[t] # None THEN used
          ELSE [used EXCEPT ![t] = copy.envs[copy.active]]

\* setActiveVariables of the page, for an active environment only.
Sync(t, copy) ==
  used' = IF copy.active = None THEN used ELSE [used EXCEPT ![t] = copy.envs[copy.active]]

Init ==
  /\ storage = NothingStored /\ made = {} /\ entries = 0
  /\ side = [t \in Tabs |-> [envs |-> NothingStored.envs, active |-> None, shown |-> None]]
  /\ page = [t \in Tabs |-> Loaded(NothingStored)]
  /\ used = [t \in Tabs |-> None]
  /\ list = [t \in Tabs |-> <<>>]
  /\ send = [t \in Tabs |-> NotSending] /\ response = [t \in Tabs |-> None]
  /\ unsaved = [t \in Tabs |-> {}]
  /\ lone = [t \in Tabs |-> TRUE] /\ apart = [t \in Tabs |-> FALSE]

\* A tab is opened, or loaded again.  loadEnvironments of both, loadHistory.
Load(t) ==
  /\ side' = [side EXCEPT ![t] = [envs |-> storage.envs, active |-> Found(storage), shown |-> None]]
  /\ page' = [page EXCEPT ![t] = Loaded(storage)]
  /\ Sync(t, Loaded(storage))
  /\ list' = [list EXCEPT ![t] = storage.history]
  /\ send' = [send EXCEPT ![t] = NotSending] /\ response' = [response EXCEPT ![t] = None]
  /\ unsaved' = [unsaved EXCEPT ![t] = {}]
  /\ lone' = [lone EXCEPT ![t] = TRUE] /\ apart' = [apart EXCEPT ![t] = FALSE]
  /\ UNCHANGED <<storage, made, entries>>

\* localStorage.setItem, which fails silently when the storage is full.
Store(t, new) ==
  \/ /\ storage' = new
     /\ lone' = [u \in Tabs |-> lone[u] /\ (u = t \/ new = storage)]
  \/ /\ storage' = storage
     /\ lone' = [lone EXCEPT ![t] = @ /\ new = storage]

-----------------------------------------------------------------------------
(***************************************************************************)
(* The sidebar.                                                            *)
(***************************************************************************)
\* Environments are stored before what is active is.
Change(t, envs, active, shown, put) ==
  /\ side' = [side EXCEPT ![t] = [envs |-> envs, active |-> active, shown |-> shown]]
  /\ Store(t, put)
  /\ apart' = [apart EXCEPT ![t] = TRUE]
  /\ UNCHANGED <<page, used, list, send, response, entries>>

WithEnvs(envs) == [storage EXCEPT !.envs = envs]

CreateEnvironment(t, e) ==
  LET envs == [side[t].envs EXCEPT ![e] = Fresh]
  IN /\ e \notin made /\ made' = made \cup {e}
     /\ Change(t, envs, e, e, [WithEnvs(envs) EXCEPT !.active = e])
     /\ unsaved' = [unsaved EXCEPT ![t] = {}]

\* updateEnvironment and saveVariables: a name or rows.
UpdateEnvironment(t, e, x) ==
  LET envs == [side[t].envs EXCEPT ![e] = x]
  IN /\ side[t].envs[e] # None
     /\ Change(t, envs, side[t].active, side[t].shown, WithEnvs(envs))
     /\ unsaved' = [unsaved EXCEPT ![t] = {}] /\ made' = made

\* The editor changes rows where they are, which stores nothing; they are stored
\* with the next change.
EditInPlace(t, e, x) ==
  /\ side[t].envs[e] # None /\ side[t].shown = e
  /\ side' = [side EXCEPT ![t].envs[e] = x]
  /\ unsaved' = [unsaved EXCEPT ![t] = @ \cup {e}]
  /\ apart' = [apart EXCEPT ![t] = TRUE]
  /\ UNCHANGED <<storage, made, page, used, list, send, response, entries, lone>>

\* deleteEnvironment gives up the active one if that is deleted.
GivenUp(t, e) == IF side[t].active = e THEN None ELSE storage.active

\* Then the manager chooses another, if it showed the one deleted.
DeleteEnvironment(t, e) ==
  LET envs == [side[t].envs EXCEPT ![e] = None]
      others == {d \in Envs : envs[d] # None}
      kept == IF side[t].active = e THEN None ELSE side[t].active
  IN /\ side[t].envs[e] # None
     /\ IF side[t].shown # e
          THEN Change(t, envs, kept, side[t].shown, [WithEnvs(envs) EXCEPT !.active = GivenUp(t, e)])
        ELSE IF others = {}
          THEN Change(t, envs, kept, None, [WithEnvs(envs) EXCEPT !.active = GivenUp(t, e)])
        ELSE \E next \in others : Change(t, envs, next, next, [WithEnvs(envs) EXCEPT !.active = next])
     /\ unsaved' = [unsaved EXCEPT ![t] = {}] /\ made' = made

\* In the manager, which shows what is chosen, or in the sidebar's selector.
ChooseInSidebar(t, e) ==
  /\ e # None => side[t].envs[e] # None
  /\ \E shown \in {side[t].shown} \cup ({e} \ {None}) :
       Change(t, side[t].envs, e, shown, [storage EXCEPT !.active = e])
  /\ UNCHANGED <<made, unsaved>>

-----------------------------------------------------------------------------
(***************************************************************************)
(* The page.                                                               *)
(***************************************************************************)
ChooseInPage(t, e) ==
  /\ e # None => page[t].envs[e] # None
  /\ page' = [page EXCEPT ![t].active = e]
  /\ Sync(t, page'[t])
  /\ Store(t, [storage EXCEPT !.active = e])
  /\ UNCHANGED <<made, side, list, send, response, entries, unsaved, apart>>

\* The button waits for the answer.  The handler has the response shown so far.
Send(t, r) ==
  /\ send[t].step = "no"
  /\ send' = [send EXCEPT ![t] = [step |-> "sent", request |-> r, seen |-> response[t]]]
  /\ response' = [response EXCEPT ![t] = None]
  /\ UNCHANGED <<storage, made, side, page, used, list, entries, unsaved, lone, apart>>

Answered(t) ==
  /\ send[t].step = "sent"
  /\ send' = [send EXCEPT ![t].step = "answered"]
  /\ response' \in {response, [response EXCEPT ![t] = send[t].request]}
  /\ UNCHANGED <<storage, made, side, page, used, list, entries, unsaved, lone, apart>>

\* Faulty variant: the list on display is not cut.
ShortenedNever(q) == q

Shortened(q) == First(q, MaxHistory)

\* 100 ms later: with the status of the response that was shown before.
Record(t) ==
  LET entry == [id |-> entries + 1, request |-> send[t].request, status |-> send[t].seen]
  IN /\ send[t].step = "answered"
     /\ send' = [send EXCEPT ![t] = NotSending]
     /\ IF send[t].seen = None THEN UNCHANGED <<storage, lone, list, entries>>
        ELSE /\ entries < MaxEntries /\ entries' = entries + 1
             /\ list' = [list EXCEPT ![t] = Shortened(<<entry>> \o @)]
             /\ Store(t, [storage EXCEPT !.history = First(<<entry>> \o @, MaxHistory)])
     /\ UNCHANGED <<made, side, page, used, response, unsaved, apart>>

Without(q, id) == SelectSeq(q, LAMBDA entry : entry.id # id)

DeleteEntry(t, id) ==
  /\ \E i \in DOMAIN list[t] : list[t][i].id = id
  /\ list' = [list EXCEPT ![t] = Without(@, id)]
  /\ Store(t, [storage EXCEPT !.history = Without(@, id)])
  /\ UNCHANGED <<made, side, page, used, send, response, entries, unsaved, apart>>

ClearAll(t) ==
  /\ list[t] # <<>>
  /\ list' = [list EXCEPT ![t] = <<>>]
  /\ Store(t, [storage EXCEPT !.history = <<>>])
  /\ UNCHANGED <<made, side, page, used, send, response, entries, unsaved, apart>>

SidebarStep ==
  \E t \in Tabs :
    \/ \E e \in Envs : CreateEnvironment(t, e) \/ DeleteEnvironment(t, e)
    \/ \E e \in Envs, x \in Values : UpdateEnvironment(t, e, x) \/ EditInPlace(t, e, x)
    \/ \E e \in Envs \cup {None} : ChooseInSidebar(t, e)

PageStep ==
  \E t \in Tabs :
    \/ \E e \in Envs \cup {None} : ChooseInPage(t, e)
    \/ \E r \in Requests : Send(t, r)
    \/ Answered(t) \/ Record(t) \/ ClearAll(t)
    \/ \E id \in 1 .. MaxEntries : DeleteEntry(t, id)

Next == SidebarStep \/ PageStep \/ (\E t \in Tabs : Load(t))

Spec == Init /\ [][Next]_vars

-----------------------------------------------------------------------------
(***************************************************************************)
(* Properties.                                                             *)
(***************************************************************************)
\* What a tab shows is what it will show after it is loaded again: environments and
\* history are stored as shown, and the active one, where the sidebar and the page
\* agree, is stored as such; but for rows changed in place, for a write that failed
\* and for another tab, which replaces the environments by its own.
ReloadRestores ==
  \A t \in Tabs : lone[t] =>
    /\ \A e \in Envs \ unsaved[t] : storage.envs[e] = side[t].envs[e]
    /\ list[t] = storage.history
    /\ side[t].active = page[t].active => Found(storage) = side[t].active

\* Requests use the variables that are stored of the active environment, until the
\* sidebar is used: the page sees what changes there only after it is loaded again.
UsesActive ==
  \A t \in Tabs : lone[t] /\ ~apart[t] /\ Found(storage) # None
                  => used[t] = storage.envs[Found(storage)]

=============================================================================
