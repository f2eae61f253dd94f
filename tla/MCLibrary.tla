----------------------------- MODULE MCLibrary -----------------------------
(***************************************************************************)
(* What a library holds and what comes into it, for TLC.  `part` says what *)
(* a behaviour is about: calls that move several saved requests, calls     *)
(* about the tags and links of one, the import of the folders of a file    *)
(* (LibraryImport), a file of Postman's (PostmanFile), a file of OpenAPI   *)
(* (OpenApiFile), or a command pasted (CurlCommand).                       *)
(***************************************************************************)
EXTENDS SavedRequests, Naturals, TLC

CONSTANTS w1, w2, c1, c2, Length, Ids, FolderNames, Root,
          MaxItems, MaxEdits, MaxImports, Undefined,
          SchemaNames, MaxLinks, Params, MaxParams, Limit, MaxLater, None

VARIABLES part, key, parent, remaining, created, guard, next, folder, phase,
          file, edits, dialog, job, made, told,
          schemas, params, nextParam, braces, fields, schemaLink, seen, depth, outcome,
          editor, typed, clip, preview, open, copied, pasted

importVars == <<key, parent, remaining, created, guard, next, folder, phase>>
postmanVars == <<file, edits, dialog, job, made, told>>
openApiVars == <<schemas, params, nextParam, braces, fields, schemaLink, seen, depth, outcome>>
curlVars == <<editor, typed, clip, preview, open, copied, pasted>>

OneEach == c1 :> w1 @@ c2 :> w2

Alike == Permutations(Calls) \cup Permutations(Tags)

Import == INSTANCE LibraryImport WITH Names <- FolderNames

Postman == INSTANCE PostmanFile
OpenApi == INSTANCE OpenApiFile
             WITH Names <- SchemaNames, next <- nextParam, link <- schemaLink
Curl == INSTANCE CurlCommand WITH edits <- typed

ASSUME LibraryAssumption ==
  /\ Import!ImportAssumption /\ Postman!FileAssumption /\ OpenApi!OpenApiAssumption
  /\ Curl!CurlAssumption

\* One parameter list or one body at a time.
OneOrTheOther ==
  /\ params # <<>> => schemaLink = None
  /\ schemaLink = None => \A n \in SchemaNames : schemas[n].kind = "value"

\* What a part is not about is in one initial state.
ImportInit ==
  /\ IF part = "import" THEN TRUE
     ELSE /\ key = [i \in 1 .. Length |-> CHOOSE k \in Ids : TRUE]
          /\ parent = [i \in 1 .. Length |-> Root]
  /\ Import!Init

OpenApiInit ==
  /\ IF part = "openapi" THEN TRUE
     ELSE /\ schemas = [n \in SchemaNames |-> [kind |-> "value", links |-> {}]]
          /\ params = <<>> /\ schemaLink = None
  /\ OpenApi!Init
  /\ OneOrTheOther

LibraryInit ==
  /\ part \in {"moves", "tags", "import", "postman", "openapi", "curl"}
  /\ Init
  /\ part \in {"moves", "tags"} \/ at = [NotAsked EXCEPT ![CHOOSE q \in Requests : TRUE] = c1]
  /\ ImportInit /\ Postman!Init /\ OpenApiInit /\ Curl!Init

MovesStep ==
  /\ part = "moves" /\ Next
  /\ \A k \in Calls : call'[k].kind \in {"save", "put", "delete"}
  /\ tag' = tag
  /\ UNCHANGED <<importVars, postmanVars, openApiVars, curlVars>>

TagsStep ==
  /\ part = "tags" /\ Next
  /\ used' \cap Requests = used \cap Requests
  /\ UNCHANGED <<importVars, postmanVars, openApiVars, curlVars>>

ImportStep ==
  part = "import" /\ Import!Next /\ UNCHANGED <<vars, postmanVars, openApiVars, curlVars>>

PostmanStep ==
  part = "postman" /\ Postman!Next /\ UNCHANGED <<vars, importVars, openApiVars, curlVars>>

OpenApiStep ==
  part = "openapi" /\ OpenApi!Next /\ UNCHANGED <<vars, importVars, postmanVars, curlVars>>

CurlStep ==
  part = "curl" /\ Curl!Next /\ UNCHANGED <<vars, importVars, postmanVars, openApiVars>>

LibraryNext ==
  /\ MovesStep \/ TagsStep \/ ImportStep \/ PostmanStep \/ OpenApiStep \/ CurlStep
  /\ UNCHANGED part

LibrarySpec ==
  LibraryInit
    /\ [][LibraryNext]_<<part, vars, importVars, postmanVars, openApiVars, curlVars>>

\* Which folders an import creates, and when it fails; see LibraryImport.
ImportExact == Import!ImportExact

\* A file saved by the web client runs as it does from the command line; see
\* PostmanFile for what is excepted.
SavedAsRun == Postman!SavedAsRun

\* What of an OpenAPI file is read; see OpenApiFile for what is excepted.
ReadUnlessLoop == OpenApi!ReadUnlessLoop

\* What is pasted is what was copied; see CurlCommand for what is excepted.
PastedAsCopied == Curl!PastedAsCopied

=============================================================================
