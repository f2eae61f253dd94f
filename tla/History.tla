------------------------------ MODULE History ------------------------------
(***************************************************************************)
(* The history of one user's requests: the rows that executeAndSave        *)
(* (src/api/src/services/request.service.ts) adds and history.service.ts   *)
(* lists and deletes, and the list that every tab of the user shows        *)
(* (src/apps/web/src/hooks/useRequestHistory.ts, the request page and      *)
(* app/(app)/history/page.tsx).                                            *)
(*                                                                         *)
(* fetchHistory is a new function at every render and an effect of both    *)
(* pages depends on it, so that every render asks for the list again: a    *)
(* key typed, a call that begins or ends, a list that differs, an error.   *)
(* All of it counts against the server's global limit of calls.            *)
(***************************************************************************)
EXTENDS Naturals, Sequences, SequencesExt

CONSTANTS
  Tabs,
  MaxEntries, \* bound on the requests recorded
  PageLimit,  \* entries listed: 50
  Findable,   \* entries looked through for one to delete: 1000
  Quota,      \* calls accepted in a window: 200
  None

HistoryAssumption == PageLimit \in Nat /\ None \notin Seq(Nat)

VARIABLES
  rows,    \* the entries, newest first
  made,    \* entries recorded so far
  left,    \* calls the server still accepts in this window
  shown,   \* shown[t]: the list of the tab's query cache, None before the first answer
  fetch,   \* fetch[t]: the query under way, with the list it was answered
  call,    \* call[t]: the mutation or the send under way
  late,    \* sends whose answer nobody waits for any more
  behind   \* history: behind[t], the rows were changed since t's list was read, and not
           \* by a call of t

historyVars == <<rows, made, left, shown, fetch, call, late, behind>>

NoFetch == [at |-> "no", list |-> <<>>]
NoCall == [at |-> "no", id |-> 0]

Init ==
  /\ rows = <<>> /\ made = 0 /\ left = Quota
  /\ shown = [t \in Tabs |-> None]
  /\ fetch = [t \in Tabs |-> [NoFetch EXCEPT !.at = "asked"]]
  /\ call = [t \in Tabs |-> NoCall] /\ late = 0
  /\ behind = [t \in Tabs |-> FALSE]

\* findHistoryByUserId: the newest n.
Newest(n) == SubSeq(rows, 1, IF n < Len(rows) THEN n ELSE Len(rows))

\* A call reaches the server and is let through.
Accepted == left > 0 /\ left' = left - 1

\* Faulty variant: the list is asked for when the page is mounted, as the comment of
\* the effect says.
RenderedOnce(t) == UNCHANGED fetch

\* The effect runs: refetch, which takes the place of a query under way unless
\* there is no list yet; then it waits for that one.
Rendered(t) ==
  fetch' = [fetch EXCEPT ![t] =
              IF shown[t] = None /\ @.at # "no" THEN @ ELSE [NoFetch EXCEPT !.at = "asked"]]

-----------------------------------------------------------------------------
(***************************************************************************)
(* The list.                                                               *)
(***************************************************************************)

\* The user types, or anything else renders the page.
Type(t) ==
  /\ Rendered(t)
  /\ UNCHANGED <<rows, made, left, shown, call, late, behind>>

FetchServed(t) ==
  /\ fetch[t].at = "asked" /\ Accepted
  /\ fetch' = [fetch EXCEPT ![t] = [at |-> "answered", list |-> Newest(PageLimit)]]
  /\ behind' = [behind EXCEPT ![t] = FALSE]
  /\ UNCHANGED <<rows, made, shown, call, late>>

\* Another list is another render; the same list is not.
FetchReturns(t) ==
  /\ fetch[t].at = "answered"
  /\ shown' = [shown EXCEPT ![t] = fetch[t].list]
  /\ fetch' = [fetch EXCEPT ![t] =
                 IF shown[t] = fetch[t].list THEN NoFetch ELSE [NoFetch EXCEPT !.at = "asked"]]
  /\ UNCHANGED <<rows, made, left, call, late, behind>>

\* Refused by the limit, or lost, twice; the error is a render, and so asks again.
FetchFails(t) ==
  /\ fetch[t].at # "no"
  /\ fetch' = [fetch EXCEPT ![t] = [NoFetch EXCEPT !.at = "asked"]]
  /\ UNCHANGED <<rows, made, left, shown, call, late, behind>>

-----------------------------------------------------------------------------
(***************************************************************************)
(* Sends, deletions of one entry and of all.                               *)
(***************************************************************************)

Begin(t, at, id) ==
  /\ call[t].at = "no"
  /\ call' = [call EXCEPT ![t] = [at |-> at, id |-> id]]
  /\ Rendered(t)
  /\ UNCHANGED <<rows, made, left, shown, late, behind>>

Send(t) == Begin(t, "send", 0)

DeleteHistoryEntry(t) ==
  /\ shown[t] # None
  /\ \E i \in DOMAIN shown[t] : Begin(t, "find", shown[t][i])

\* The button is disabled while nothing is shown.
ClearHistory(t) == shown[t] \notin {None, <<>>} /\ Begin(t, "clear", 0)

To(t, at) == call' = [call EXCEPT ![t].at = at]

Write(by, new) ==
  /\ rows' = new
  /\ behind' = [u \in Tabs |-> behind[u] \/ (u \notin by /\ new # rows)]

\* executeAndSave: a request that gets no answer is not recorded.
Record(by) ==
  /\ made < MaxEntries /\ made' = made + 1
  /\ Write(by, <<made + 1>> \o rows)

SendServed(t) ==
  /\ call[t].at = "send" /\ Accepted
  /\ Record({t})
  /\ To(t, "ended")
  /\ UNCHANGED <<shown, fetch, late>>

\* The connection breaks while the server waits for the answer to record.
GiveUp(t) ==
  /\ call[t].at = "send" /\ late < MaxEntries /\ Accepted
  /\ late' = late + 1
  /\ call' = [call EXCEPT ![t] = NoCall]
  /\ Rendered(t)
  /\ UNCHANGED <<rows, made, shown, behind>>

LateRecord ==
  /\ late > 0 /\ late' = late - 1
  /\ Record({})
  /\ UNCHANGED <<left, shown, fetch, call>>

\* deleteHistoryEntryService looks for the entry among the newest.
FindEntry(t) ==
  /\ call[t].at = "find" /\ Accepted
  /\ LET found == Newest(Findable)
     IN  To(t, IF \E i \in DOMAIN found : found[i] = call[t].id THEN "delete" ELSE "ended")
  /\ UNCHANGED <<rows, made, shown, fetch, late, behind>>

\* It is an error if the entry is gone by now.
DeleteEntry(t) ==
  /\ call[t].at = "delete"
  /\ \/ \E i \in DOMAIN rows : rows[i] = call[t].id /\ Write({t}, RemoveAt(rows, i))
     \/ (\A i \in DOMAIN rows : rows[i] # call[t].id) /\ Write({t}, rows)
  /\ To(t, "ended")
  /\ UNCHANGED <<made, left, shown, fetch, late>>

ClearServed(t) ==
  /\ call[t].at = "clear" /\ Accepted
  /\ Write({t}, <<>>)
  /\ To(t, "ended")
  /\ UNCHANGED <<made, shown, fetch, late>>

\* The answer, or no answer at all: success invalidates the list, which asks for it
\* again; so does a failure, by the render.
CallReturns(t) ==
  /\ call[t].at \in {"ended", "send", "find", "clear"}
  /\ call' = [call EXCEPT ![t] = NoCall]
  /\ Rendered(t)
  /\ UNCHANGED <<rows, made, left, shown, late, behind>>

WindowEnds ==
  /\ left < Quota /\ left' = Quota
  /\ UNCHANGED <<rows, made, shown, fetch, call, late, behind>>

Serve(t) == FetchServed(t) \/ SendServed(t) \/ FindEntry(t) \/ DeleteEntry(t) \/ ClearServed(t)

Next ==
  \/ \E t \in Tabs :
       \/ Type(t) \/ FetchReturns(t) \/ FetchFails(t)
       \/ Send(t) \/ DeleteHistoryEntry(t) \/ ClearHistory(t)
       \/ Serve(t) \/ CallReturns(t) \/ GiveUp(t)
  \/ LateRecord \/ WindowEnds

-----------------------------------------------------------------------------
\* At rest a tab shows the newest entries, whatever calls and answers crossed, were
\* refused or lost before, unless another tab, or a send given up, changed them since: the refetch of
\* every render covers what the mutations' invalidations leave out (src/apps/web/src/
\* hooks/queries/useHistory.ts:16), a deletion whose answer was lost among it.
HistoryCatchesUp ==
  \A t \in Tabs :
    (fetch[t].at = "no" /\ call[t].at = "no") => behind[t] \/ shown[t] = Newest(PageLimit)

=============================================================================
