--------------------------- MODULE RequestBuilder ---------------------------
(***************************************************************************)
(* The request editor: hooks/useRequestBuilder.ts, and what                *)
(* components/request/RequestBuilder.tsx, UrlBar.tsx and HistorySidebar.tsx *)
(* do with it, all under src/apps/web/src.                                 *)
(*                                                                         *)
(* sendRequest works on the state of the render that it was called from;   *)
(* between its awaits the user edits, sends again (Ctrl+Enter asks nothing *)
(* of isLoading), leaves the page or reloads it.  Of the editor's contents *)
(* only whether there are any is kept, the rest is in SentRequest; which   *)
(* scripts there are is chosen when they would run, and the variables they *)
(* set are in Variables.                                                   *)
(***************************************************************************)
CONSTANT Sends  \* the calls of sendRequest that can be under way at once

VARIABLES
  editor,    \* useState: whether a request is there, and isLoading
  draft,     \* localStorage apico_last_request: {} or {the editor saved there}
  send,      \* send[s]: how far the call is, and the state it captured
  restored,  \* history: isLoading was read from the draft
  fresh      \* history: no send since a reset that no send overlapped

vars == <<editor, draft, send, restored, fresh>>

Editor == [open : BOOLEAN, isLoading : BOOLEAN]

defaultState == [open |-> FALSE, isLoading |-> FALSE]

\* `state` is the captured state, `mounted` whether the editor it would set still is.
Send == [at : {"idle", "pre", "execute", "test"}, state : Editor, mounted : BOOLEAN]

NoSend == [at |-> "idle", state |-> defaultState, mounted |-> FALSE]

Init ==
  /\ editor = defaultState
  /\ draft = {}
  /\ send = [s \in Sends |-> NoSend]
  /\ restored = FALSE /\ fresh = FALSE

Idle == \A s \in Sends : send[s].at = "idle"

-----------------------------------------------------------------------------
(***************************************************************************)
(* What the user does.                                                     *)
(***************************************************************************)

\* What is typed, handleLoadRequest and loadFromCurl: isLoading stays as it is.
Edit ==
  /\ editor' = [editor EXCEPT !.open = TRUE]
  /\ UNCHANGED <<draft, send, restored, fresh>>

\* Faulty variant: the draft stays.
ResetAllKeepsDraft ==
  /\ editor' = defaultState
  /\ restored' = FALSE
  /\ fresh' = Idle
  /\ UNCHANGED <<draft, send>>

ResetAll ==
  /\ editor' = defaultState
  /\ draft' = {}
  /\ restored' = FALSE
  /\ fresh' = Idle
  /\ UNCHANGED send

\* The page is mounted anew with the draft.  After a reload nothing is left of
\* the calls under way; after a visit to another page they go on, but what they
\* set is a component that is gone.
Mount(reload) ==
  /\ editor' = IF draft = {} THEN defaultState ELSE CHOOSE e \in draft : TRUE
  /\ restored' = editor'.isLoading
  /\ send' = [s \in Sends |->
                IF reload THEN NoSend ELSE [send[s] EXCEPT !.mounted = FALSE]]
  /\ UNCHANGED <<draft, fresh>>

-----------------------------------------------------------------------------
(***************************************************************************)
(* sendRequest, between its awaits.                                        *)
(***************************************************************************)

\* The button is disabled while isLoading, the shortcut is not.  A form has no
\* pre-request script.
SendRequest(s, next) ==
  /\ send[s].at = "idle"
  /\ editor.open
  /\ send' = [send EXCEPT ![s] = [at |-> next, state |-> editor, mounted |-> TRUE]]
  /\ editor' = [editor EXCEPT !.isLoading = TRUE]
  /\ restored' = FALSE /\ fresh' = FALSE
  /\ UNCHANGED draft

\* A script that fails leaves the request as it was.
PreScript(s) ==
  /\ send[s].at = "pre"
  /\ send' = [send EXCEPT ![s].at = "execute"]
  /\ UNCHANGED <<editor, draft, restored, fresh>>

\* setState, which has no effect on a component that is gone.
StopLoading(s) ==
  IF send[s].mounted
    THEN editor' = [editor EXCEPT !.isLoading = FALSE] /\ restored' = FALSE
    ELSE UNCHANGED <<editor, restored>>

\* What is saved is the captured state, whatever the editor holds by now.
Persist(s) ==
  /\ draft' = {send[s].state}
  /\ send' = [send EXCEPT ![s] = NoSend]

Answered(s, test) ==
  /\ send[s].at = "execute"
  /\ StopLoading(s)
  /\ IF test
       THEN send' = [send EXCEPT ![s].at = "test"] /\ UNCHANGED draft
       ELSE Persist(s)
  /\ UNCHANGED fresh

\* It never throws: a script that fails is a result too.
TestScript(s) ==
  /\ send[s].at = "test"
  /\ Persist(s)
  /\ UNCHANGED <<editor, restored, fresh>>

\* Faulty variant: the spinner goes on.
FailLoading(s) ==
  /\ send[s].at \in {"pre", "execute"}
  /\ send' = [send EXCEPT ![s] = NoSend]
  /\ UNCHANGED <<editor, restored, draft, fresh>>

\* The request is invalid once the script has run, or is not executed.
Fail(s) ==
  /\ send[s].at \in {"pre", "execute"}
  /\ StopLoading(s)
  /\ send' = [send EXCEPT ![s] = NoSend]
  /\ UNCHANGED <<draft, fresh>>

Proceed(s) ==
  \/ PreScript(s) \/ TestScript(s) \/ Fail(s)
  \/ \E test \in BOOLEAN : Answered(s, test)

Next ==
  \/ Edit \/ ResetAll
  \/ \E reload \in BOOLEAN : Mount(reload)
  \/ \E s \in Sends :
       \/ \E next \in {"pre", "execute"} : SendRequest(s, next)
       \/ Proceed(s)

\* Scripts are bounded by their timeout, and every call of the API is answered.
Fairness == \A s \in Sends : WF_vars(Proceed(s))

Spec == Init /\ [][Next]_vars /\ Fairness

-----------------------------------------------------------------------------
TypeOK ==
  /\ editor \in Editor
  /\ draft \in {{}} \cup {{e} : e \in Editor}
  /\ send \in [Sends -> Send]
  /\ restored \in BOOLEAN /\ fresh \in BOOLEAN

\* After "New request" the old one does not come back with a reload until something
\* is sent again, unless a send was under way, which saves it once more.
ResetStays == fresh => draft = {}

\* The spinner stops, unless it was read from a draft: a send begun with Ctrl+Enter
\* while another is loading saves isLoading with the rest of its state, and after a
\* reload no call is left to clear it.
SpinnerStops == (editor.isLoading /\ ~restored) ~> (~editor.isLoading \/ restored)

=============================================================================
