----------------------------- MODULE PostmanFile -----------------------------
(***************************************************************************)
(* A Postman collection file, as the two programs that take one read it:   *)
(* the import of the web application (utils/postman.parser.ts, its dialog  *)
(* and the loop of CollectionsSidebar.tsx that saves what was read) and    *)
(* the command line runner (cli/loadCollection.ts).                        *)
(*                                                                         *)
(* The tree of items is a list in the order of the text: an item's depth   *)
(* is the number of folders around it.                                     *)
(***************************************************************************)
EXTENDS Naturals, Sequences, SequencesExt

CONSTANTS
  MaxItems,      \* bound on the items of a file
  MaxEdits,      \* bound on what is unusual in a file
  MaxImports,    \* bound on imports begun
  Undefined      \* a field that is left out

VARIABLES
  file,
  edits,
  dialog,    \* [open, text, importing, error]: the dialog; text: it holds the file
  job,       \* the import under way: [at, ok, failed], at = 0 while it creates
  made,      \* the collections imports created, with their requests
  told       \* what each ended import showed: [ok, failed, error], and of which of made

\* Undefined is nothing else.
FileAssumption == Undefined \notin [at : Nat, ok : Nat, failed : Nat]

postmanVars == <<file, edits, dialog, job, made, told>>

Methods == {"good", "odd"}          \* one the program supports, or not
Auths == {Undefined, "noauth", "bearer", "oauth2"}
Bodies == {Undefined, "raw", "urlencoded", "formdata", "disabled", "graphql"}
Code == {"blank", "s1", "s2"}
Event == [listen : {"prerequest", "test"}, code : Code]

\* The address: a text, or an object with the text or its parts.  asked: the text
\* has a query; listed: the object lists one.
Url == [as : {Undefined, "text", "raw", "parts"}, asked : BOOLEAN, listed : BOOLEAN]

Plain ==
  [kind |-> "request", named |-> TRUE, method |-> "good", body |-> Undefined,
   url |-> [as |-> "raw", asked |-> FALSE, listed |-> FALSE],
   auth |-> Undefined, events |-> <<>>]

Init ==
  /\ file = [info |-> TRUE, schema |-> "v2", listed |-> TRUE, auth |-> Undefined, items |-> <<>>]
  /\ edits = 0 /\ made = <<>> /\ told = <<>>
  /\ dialog = [open |-> FALSE, text |-> FALSE, importing |-> FALSE, error |-> FALSE]
  /\ job = Undefined

-----------------------------------------------------------------------------
(* What is in the file; nobody has looked at it yet.                       *)

Writing ==
  /\ ~dialog.open /\ job = Undefined /\ made = <<>> /\ told = <<>>
  /\ UNCHANGED <<dialog, job, made, told>>

Depths ==
  LET n == Len(file.items)
  IN IF n = 0 THEN {0}
     ELSE 0 .. file.items[n].depth + (IF file.items[n].kind = "folder" THEN 1 ELSE 0)

AddItem(kind, d) ==
  /\ Writing /\ file.listed /\ Len(file.items) < MaxItems
  /\ file' = [file EXCEPT !.items =
                Append(@, [x \in DOMAIN Plain \cup {"depth"} |->
                             CASE x = "depth" -> d [] x = "kind" -> kind [] OTHER -> Plain[x]])]
  /\ edits' = edits

EditFile(field, v) ==
  /\ Writing /\ edits < MaxEdits
  /\ file' = [file EXCEPT ![field] = v]
  /\ edits' = edits + 1

EditHead ==
  \/ EditFile("info", FALSE)
  \/ \E v \in {"v1", "other"} : EditFile("schema", v)
  \/ file.items = <<>> /\ EditFile("listed", FALSE)
  \/ \E a \in Auths : EditFile("auth", a)

Edit(field, v) ==
  LET n == Len(file.items) IN
  /\ Writing /\ n > 0 /\ edits < MaxEdits
  /\ file' = [file EXCEPT !.items[n][field] = v]
  /\ edits' = edits + 1

EditLast ==
  \/ Edit("named", FALSE)
  \/ \E m \in Methods : Edit("method", m)
  \/ \E b \in Bodies : Edit("body", b)
  \/ \E u \in Url : Edit("url", u)
  \/ \E a \in Auths : Edit("auth", a)
  \/ file.items # <<>>
     /\ \E e \in Event : Edit("events", Append(Last(file.items).events, e))

\* The folders around item i.
FolderPath(i) ==
  {j \in 1 .. i - 1 : /\ file.items[j].kind = "folder"
                      /\ \A k \in j + 1 .. i : file.items[k].depth > file.items[j].depth}

-----------------------------------------------------------------------------
(* What both programs do with one item, word for word.                     *)

\* An unknown kind of authentication is none, and "noauth" is one.
ParseAuth(a) == IF a = "oauth2" THEN Undefined ELSE a

\* A text keeps its query; an object's is taken from its list.
ParseUrl(u) ==
  CASE u.as = Undefined -> [url |-> "example", query |-> FALSE, params |-> FALSE]
    [] u.as = "text"    -> [url |-> "given", query |-> u.asked, params |-> FALSE]
    [] OTHER            -> [url |-> "given", query |-> FALSE, params |-> u.listed]

\* The positions of the requests, in the order of the text, that are supported.
WalkItems ==
  LET walked[i \in 0 .. Len(file.items)] ==
        IF i = 0 THEN <<>>
        ELSE IF file.items[i].kind = "request" /\ file.items[i].method = "good"
        THEN Append(walked[i - 1], i) ELSE walked[i - 1]
  IN walked[Len(file.items)]

\* The last event with a script counts.
ParseEvents(events, which) ==
  FoldLeft(LAMBDA code, e : IF e.listen = which /\ e.code # "blank" THEN e.code ELSE code,
           Undefined, events)

Request(i, default, body, auth) ==
  LET item == file.items[i]
  IN [item |-> i, name |-> IF item.named THEN "given" ELSE default, path |-> FolderPath(i),
      url |-> ParseUrl(item.url), body |-> body, auth |-> auth,
      pre |-> ParseEvents(item.events, "prerequest"), test |-> ParseEvents(item.events, "test")]

-----------------------------------------------------------------------------
(* The web application.                                                    *)

ParseBody(b) == IF b \in {"disabled", "graphql"} THEN Undefined ELSE b

\* Faulty variant: what the collection says comes first.
WebAuthInherited(item) ==
  IF ParseAuth(file.auth) # Undefined THEN ParseAuth(file.auth) ELSE ParseAuth(item.auth)

\* A request's own authentication counts, or else the collection's.
WebAuth(item) ==
  IF ParseAuth(item.auth) # Undefined THEN ParseAuth(item.auth) ELSE ParseAuth(file.auth)

ParseRequestItem(i) ==
  Request(i, "methodAndAddress", ParseBody(file.items[i].body), WebAuth(file.items[i]))

\* What the dialog shows and imports; nothing when the parser refuses the text.
ParsePostman ==
  IF file.info /\ file.schema = "v2" /\ file.listed
  THEN [k \in DOMAIN WalkItems |-> ParseRequestItem(WalkItems[k])] ELSE <<>>

OpenDialog ==
  /\ ~dialog.open
  /\ dialog' = [dialog EXCEPT !.open = TRUE, !.text = FALSE, !.error = FALSE]
  /\ UNCHANGED <<file, edits, job, made, told>>

\* A file selected, or its text pasted.
GiveText ==
  /\ dialog.open /\ ~dialog.text
  /\ dialog' = [dialog EXCEPT !.text = TRUE]
  /\ UNCHANGED <<file, edits, job, made, told>>

\* Cancel, Escape, or a click beside it: an import under way goes on.
CloseDialog ==
  /\ dialog.open
  /\ dialog' = [dialog EXCEPT !.open = FALSE]
  /\ UNCHANGED <<file, edits, job, made, told>>

HandleImport ==
  /\ dialog.open /\ dialog.text /\ ParsePostman # <<>> /\ ~dialog.importing
  /\ Len(told) < MaxImports
  /\ dialog' = [dialog EXCEPT !.importing = TRUE, !.error = FALSE]
  /\ job' = [at |-> 0, ok |-> 0, failed |-> 0]
  /\ UNCHANGED <<file, edits, made, told>>

Importing == job # Undefined /\ UNCHANGED <<file, edits>>

CollectionCreated ==
  /\ Importing /\ job.at = 0
  /\ made' = Append(made, <<>>) /\ job' = [job EXCEPT !.at = 1]
  /\ UNCHANGED <<dialog, told>>

\* The import's error is shown, even in a dialog opened since.
CreationFails ==
  /\ Importing /\ job.at = 0
  /\ job' = Undefined
  /\ told' = Append(told, [ok |-> 0, failed |-> 0, error |-> TRUE, of |-> 0])
  /\ dialog' = [dialog EXCEPT !.importing = FALSE, !.error = TRUE]
  /\ made' = made

\* Scripts and the rest, but neither the folders nor the description.
SaveInput(k) == [x \in DOMAIN ParsePostman[k] \ {"path"} |-> ParsePostman[k][x]]

\* One request saved, or not, or saved with the answer lost; the loop goes on.
SaveNext(saved, answered) ==
  /\ Importing /\ job.at \in DOMAIN ParsePostman
  /\ made' = IF saved THEN [made EXCEPT ![Len(made)] = Append(@, SaveInput(job.at))] ELSE made
  /\ job' = [job EXCEPT !.at = @ + 1, !.ok = @ + (IF answered THEN 1 ELSE 0),
                        !.failed = @ + (IF answered THEN 0 ELSE 1)]
  /\ UNCHANGED <<dialog, told>>

\* The dialog closes, the one opened since as well.
ImportEnds ==
  /\ Importing /\ job.at > Len(ParsePostman)
  /\ job' = Undefined
  /\ told' = Append(told, [ok |-> job.ok, failed |-> job.failed, error |-> FALSE, of |-> Len(made)])
  /\ dialog' = [dialog EXCEPT !.importing = FALSE, !.open = FALSE]
  /\ made' = made

-----------------------------------------------------------------------------
(* The command line runner.                                                *)

\* It knows no form data.
CliBody(b) == IF b \in {"disabled", "graphql", "formdata"} THEN Undefined ELSE b

CliAuth(item) ==
  IF ParseAuth(item.auth) # Undefined THEN ParseAuth(item.auth) ELSE ParseAuth(file.auth)

ParseRequest(i) ==
  Request(i, "methodAndRequest", CliBody(file.items[i].body), CliAuth(file.items[i]))

\* Any version of the schema will do, and a file without items has none.
LoadCollectionFromFile ==
  IF file.info /\ file.schema \in {"v2", "v1"}
  THEN [k \in DOMAIN WalkItems |-> ParseRequest(WalkItems[k])] ELSE <<>>

-----------------------------------------------------------------------------
Next ==
  \/ \E kind \in {"folder", "request", "neither"}, d \in Depths : AddItem(kind, d)
  \/ EditHead \/ EditLast
  \/ OpenDialog \/ GiveText \/ CloseDialog \/ HandleImport
  \/ CollectionCreated \/ CreationFails
  \/ \E saved, answered \in BOOLEAN : (answered => saved) /\ SaveNext(saved, answered)
  \/ ImportEnds

Spec == Init /\ [][Next]_postmanVars

\* The same request, apart from the folder it is filed in, a default name, and form
\* data, which the command line runner drops.
Alike(q, r) ==
  /\ \A x \in {"item", "url", "auth", "pre", "test"} : q[x] = r[x]
  /\ q.name = r.name \/ ~file.items[q.item].named
  /\ q.body = r.body \/ q.body = "formdata"

\* What an import leaves in a collection is what the command line runner runs from the
\* same file, in the same order and without repetition: all of it when the import said
\* that nothing failed, and at least as much as it said was imported.
SavedAsRun ==
  LET run == LoadCollectionFromFile
  IN /\ \A n \in DOMAIN made :
          /\ \A k \in DOMAIN made[n] : \E i \in DOMAIN run : Alike(made[n][k], run[i])
          /\ \A j, k \in DOMAIN made[n] : j < k => made[n][j].item < made[n][k].item
     /\ \A t \in DOMAIN told :
          ~told[t].error => /\ told[t].ok + told[t].failed = Len(run)
                            /\ told[t].ok <= Len(made[told[t].of])

=============================================================================
