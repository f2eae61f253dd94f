---------------------------- MODULE SentRequest ----------------------------
(***************************************************************************)
(* What the target of a request receives, from the editor                  *)
(* (src/apps/web/src/hooks/useRequestBuilder.ts, FormDataEditor.tsx)       *)
(* through the proxy (src/api/src/proxy/executor.ts), and what of it comes *)
(* back when the request is opened again: from a collection it was saved   *)
(* in, from the history, or from the draft that a reload restores          *)
(* (handleLoadRequest of RequestBuilder.tsx).                              *)
(*                                                                         *)
(* Method and address always come along and are left out, and so are blank *)
(* keys; of the headers typed only the one that the proxy may set itself   *)
(* is kept.  What variables and scripts do is in Variables and             *)
(* ScriptedRequest; here a request has a script or not.                    *)
(***************************************************************************)
EXTENDS Naturals, Sequences

CONSTANTS
  Keys,     \* the keys of form fields
  Files,
  MaxRows,  \* bound on the rows of a form
  MaxSteps, \* bound on what the user does
  None

FilesAssumption == None \notin Files \cup {"text"} /\ "text" \notin Files

VARIABLES
  request, \* the editor's state
  files,   \* formDataFiles: files[i], the file attached to row i
  saved,   \* a request saved, or None
  draft,   \* localStorage apico_last_request, or None
  entry,   \* the newest entry of the history, or None
  opened,  \* history: where the untouched contents of the editor come from, or None
  sent,    \* what the target received last, or None
  steps    \* how much the user did

sentVars == <<request, files, saved, draft, entry, opened, sent, steps>>

\* One row of a form: its text, or the name of the file chosen.
Field == [key : Keys, type : {"text"}, fileName : {None}, enabled : BOOLEAN]
           \cup [key : Keys, type : {"file"}, fileName : Files \cup {None}, enabled : BOOLEAN]

Forms == UNION {[1 .. n -> Field] : n \in 0 .. MaxRows}

RequestState ==
  [header : {"none", "Content-Type", "Authorization"}, param : BOOLEAN,
   body : {"", "json", "text"}, form : BOOLEAN, fields : Forms,
   auth : {"none", "bearer", "query"}, script : {"", "script"}]

defaultState ==
  [header |-> "none", param |-> FALSE, body |-> "", form |-> FALSE, fields |-> <<>>,
   auth |-> "none", script |-> ""]

Attached(fields) == [i \in DOMAIN fields |-> fields[i].fileName]

Detached(fields) == [i \in DOMAIN fields |-> None]

\* The editor may hold any request, its files attached.
Init ==
  /\ request \in RequestState
  /\ request.form => request.body = "" /\ request.header = "none"
  /\ ~request.form => request.fields = <<>>
  /\ files = Attached(request.fields)
  /\ saved = None /\ draft = None /\ entry = None /\ opened = None /\ sent = None
  /\ steps = 0

-----------------------------------------------------------------------------
(***************************************************************************)
(* The way to the target.                                                  *)
(***************************************************************************)

\* Faulty variant: the proxy takes any file.
FileAnyKey(r, attached, i) ==
  LET some == {j \in DOMAIN r.fields : r.fields[j].type = "file" /\ attached[j] # None}
  IN  IF some = {} THEN None ELSE attached[CHOOSE j \in some : \A k \in some : j <= k]

\* The files travel under the keys of their rows, of the enabled ones, and the proxy
\* takes the first under a row's key.
FileOf(r, attached, i) ==
  LET named == {j \in DOMAIN r.fields :
                  /\ r.fields[j].type = "file" /\ r.fields[j].enabled
                  /\ r.fields[j].key = r.fields[i].key /\ attached[j] # None}
  IN  IF named = {} THEN None ELSE attached[CHOOSE j \in named : \A k \in named : j <= k]

\* A row as it is received; a disabled one, and one without a file, is not.
Part(field, file) ==
  IF ~field.enabled \/ (field.type = "file" /\ file = None) THEN None
    ELSE [key |-> field.key, content |-> IF field.type = "text" THEN "text" ELSE file]

Parts(r, attached) == [i \in DOMAIN r.fields |-> Part(r.fields[i], FileOf(r, attached, i))]

\* executeRequest of the proxy: credentials go over what is typed, the body's type
\* only where none is.
Received(r, attached) ==
  [authorization |-> IF r.auth = "bearer" THEN "token"
                       ELSE IF r.header = "Authorization" THEN "typed" ELSE "none",
   query |-> (IF r.param THEN {"param"} ELSE {}) \cup (IF r.auth = "query" THEN {"key"} ELSE {}),
   contentType |-> IF r.form THEN "form"
                     ELSE IF r.header = "Content-Type" THEN "typed"
                     ELSE IF r.body = "json" THEN "json" ELSE "none",
   body |-> IF r.form THEN "" ELSE r.body,
   parts |-> IF r.form THEN Parts(r, attached) ELSE <<>>,
   script |-> IF r.form THEN "" ELSE r.script]

Did == steps < MaxSteps /\ steps' = steps + 1

\* Faulty variant: the entry of a form has its body only.
EntryBodyOnly(r) == [r EXCEPT !.form = FALSE, !.fields = <<>>]

\* executeAndSave: the rows of a form go into the body.
Entry(r) == r

\* sendRequest, which saves its state as the draft.
Send ==
  /\ sent' = Received(request, files)
  /\ entry' = [request |-> Entry(request), meant |-> Received(request, files)]
  /\ draft' = [request |-> request, meant |-> Received(request, files)]
  /\ Did
  /\ UNCHANGED <<request, files, saved, opened>>

-----------------------------------------------------------------------------
(***************************************************************************)
(* Saving and opening.                                                     *)
(***************************************************************************)

\* handleSaveRequest of the sidebar.
Save ==
  /\ saved' = [request |-> request, meant |-> Received(request, files)]
  /\ Did
  /\ UNCHANGED <<request, files, draft, entry, opened, sent>>

\* handleLoadRequest: the parts of a form are found in the body; the scripts stay as
\* they are, an entry has no query and no credentials to load, and no file comes along.
HandleLoadRequest(from, stored) ==
  LET r == stored.request IN
  /\ stored # None
  /\ request' =
       [request EXCEPT !.header = r.header, !.form = r.form,
                       !.body = IF r.form THEN "" ELSE r.body,
                       !.fields = IF r.form THEN r.fields ELSE <<>>,
                       !.param = from = "saved" /\ r.param,
                       !.auth = IF from = "saved" THEN r.auth ELSE @]
  /\ files' = Detached(request'.fields)
  /\ opened' = [from |-> from, meant |-> stored.meant]
  /\ Did
  /\ UNCHANGED <<saved, draft, entry, sent>>

\* The page is loaded again: the draft is read, the files are gone.
Reload ==
  /\ request' = IF draft = None THEN defaultState ELSE draft.request
  /\ files' = Detached(request'.fields)
  /\ opened' = IF draft = None THEN None ELSE [from |-> "draft", meant |-> draft.meant]
  /\ Did
  /\ UNCHANGED <<saved, draft, entry, sent>>

-----------------------------------------------------------------------------
(***************************************************************************)
(* The editor.                                                             *)
(***************************************************************************)

Edit(r, attached) ==
  /\ request' = r /\ files' = attached /\ opened' = None
  /\ Did
  /\ UNCHANGED <<saved, draft, entry, sent>>

EditFields(fields, attached) == request.form /\ Edit([request EXCEPT !.fields = fields], attached)

SetAuth(auth) == Edit([request EXCEPT !.auth = auth], files)

SetScript(script) == Edit([request EXCEPT !.script = script], files)

SetBodyType(form) == Edit([request EXCEPT !.form = form], files)

HandleKeyChange(i, key) == EditFields([request.fields EXCEPT ![i].key = key], files)

HandleToggle(i) == EditFields([request.fields EXCEPT ![i].enabled = ~@], files)

HandleTypeChange(i, type) ==
  EditFields([request.fields EXCEPT ![i].type = type, ![i].fileName = None],
             [files EXCEPT ![i] = None])

HandleFileSelect(i, file) ==
  /\ request.fields[i].type = "file"
  /\ EditFields([request.fields EXCEPT ![i].fileName = file], [files EXCEPT ![i] = file])

Without(q, i) == [j \in 1 .. Len(q) - 1 |-> q[IF j < i THEN j ELSE j + 1]]

\* Faulty variant: the files keep their numbers.
HandleDeleteUnshifted(i) ==
  EditFields(Without(request.fields, i), [j \in 1 .. Len(files) - 1 |-> files[j]])

HandleDelete(i) == EditFields(Without(request.fields, i), Without(files, i))

HandleAddRow(key) ==
  /\ Len(request.fields) < MaxRows
  /\ EditFields(Append(request.fields, [key |-> key, type |-> "text", fileName |-> None,
                                        enabled |-> TRUE]),
                Append(files, None))

Next ==
  \/ Send \/ Save \/ Reload
  \/ HandleLoadRequest("saved", saved) \/ HandleLoadRequest("history", entry)
  \/ \E auth \in {"none", "bearer"} : SetAuth(auth)
  \/ \E script \in {"", "script"} : SetScript(script)
  \/ \E form \in BOOLEAN : SetBodyType(form)
  \/ \E key \in Keys : HandleAddRow(key)
  \/ \E i \in DOMAIN request.fields :
       \/ HandleDelete(i) \/ HandleToggle(i)
       \/ \E key \in Keys : HandleKeyChange(i, key)
       \/ \E type \in {"text", "file"} : HandleTypeChange(i, type)
       \/ \E file \in Files \cup {None} : HandleFileSelect(i, file)

-----------------------------------------------------------------------------
\* Two rows with a file share a key: the second is sent the file of the first.
Ambiguous(r) ==
  \E i, j \in DOMAIN r.fields :
    /\ i # j /\ r.fields[i].key = r.fields[j].key
    /\ \A k \in {i, j} : r.fields[k].type = "file" /\ r.fields[k].enabled

\* The form as the editor shows it: each row with the file named in it, those aside
\* that were named before the contents were loaded and have to be attached again.
ShownParts(r, attached) ==
  [i \in DOMAIN r.fields |->
     Part(r.fields[i], IF attached[i] = None THEN None ELSE r.fields[i].fileName)]

TextParts(parts) == [i \in DOMAIN parts |-> IF parts[i] # None /\ parts[i].content = "text"
                                              THEN parts[i] ELSE None]

\* What a request opened again says of the one it was: an entry of the history has no
\* query, and leaves the credentials that are there; only a draft brings its scripts.
Recalled(from) ==
  {"contentType", "body"}
    \cup (IF from = "history" THEN {} ELSE {"authorization", "query"})
    \cup (IF from = "draft" THEN {"script"} ELSE {})

\* The target receives the form that the editor shows, row by row, unless two files
\* share a key; and a request opened again and sent untouched is received as the one
\* it was, except for files, which have to be attached again (FormDataEditor.tsx:151),
\* and for what is not recalled.
Meant ==
  sent' # sent =>
    /\ (request.form /\ ~Ambiguous(request)) => sent'.parts = ShownParts(request, files)
    /\ opened # None =>
         /\ TextParts(sent'.parts) = TextParts(opened.meant.parts)
         /\ \A aspect \in Recalled(opened.from) : sent'[aspect] = opened.meant[aspect]

\* So in every step.
SentAsMeant == [][Meant]_sentVars

=============================================================================
