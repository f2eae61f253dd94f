----------------------------- MODULE OpenApiFile -----------------------------
(***************************************************************************)
(* One endpoint of an OpenAPI file, read by utils/openapi.parser.ts: its   *)
(* parameters, one after the other, and the example made of the schema of  *)
(* its body.                                                               *)
(*                                                                         *)
(* The example follows references from schema to schema; the names it has  *)
(* been through stop it from going round.  Every path it takes through the *)
(* schemas is a behaviour; the stack of calls overflows at Limit, and the  *)
(* dialog then refuses the whole file.                                     *)
(***************************************************************************)
EXTENDS Naturals, Sequences, FiniteSets, SequencesExt, FiniteSetsExt

CONSTANTS
  Names,        \* of the file's schemas
  MaxLinks,     \* bound on the properties of a schema
  Params,       \* names of parameters; each has a placeholder in the path
  MaxParams,    \* bound on the parameters of an endpoint
  Limit,        \* calls the stack has room for
  None

OpenApiAssumption ==
  /\ IsFiniteSet(Names) /\ Limit \in Nat
  /\ Limit > (Cardinality(Names) + 1) * (Cardinality(Names) + 1)

VARIABLES
  schemas,   \* the file's named schemas
  params,    \* the endpoint's: [in, name, required], those of the path first
  next,      \* the parameter to look at
  braces,    \* the pairs of braces around each placeholder of the path
  fields,    \* what was read: [query, header], sequences of [name, enabled]
  link,      \* the schema the example is at, None when there is nothing below
  seen,      \* the names it went through
  depth,     \* calls on the stack
  outcome    \* "reading", "read" or "refused"

openApiVars == <<schemas, params, next, braces, fields, link, seen, depth, outcome>>

\* A schema within a schema: a reference, or {allOf: [a reference]} on the spot.
Link == [via : {"ref", "allOf"}, to : Names]

\* value: without schemas inside; allOf: its links are the references of its parts.
Schema ==
  [kind : {"value"}, links : {{}}]
    \cup [kind : {"array", "ref"}, links : {{l} : l \in Link}]
    \cup [kind : {"object"}, links : UNION {kSubset(k, Link) : k \in 0 .. MaxLinks}]
    \cup [kind : {"allOf"}, links : SUBSET [via : {"ref"}, to : Names]]

Param == [in : {"query", "header", "path"}, name : Params, required : BOOLEAN]

Init ==
  /\ schemas \in [Names -> {s \in Schema : s.kind = "ref" => \A l \in s.links : l.via = "ref"}]
  /\ params \in UNION {[1 .. n -> Param] : n \in 0 .. MaxParams}
  /\ link \in Link \cup {None}
  /\ next = 1 /\ braces = [p \in Params |-> 1] /\ fields = [query |-> <<>>, header |-> <<>>]
  /\ seen = {} /\ depth = 1 /\ outcome = "reading"

\* Faulty variant: a placeholder stays as it is.
ReadParamVerbatim ==
  /\ outcome = "reading" /\ next <= Len(params)
  /\ LET p == params[next] IN
       IF p.in = "path" THEN UNCHANGED <<braces, fields>>
       ELSE /\ fields' = [fields EXCEPT ![p.in] =
                            Append(@, [name |-> p.name, enabled |-> p.required])]
            /\ braces' = braces
  /\ next' = next + 1
  /\ UNCHANGED <<schemas, params, link, seen, depth, outcome>>

\* The placeholder is replaced by a variable: "{id}" by "{{id}}", in which "{id}" is
\* found once more.
ReadParam ==
  /\ outcome = "reading" /\ next <= Len(params)
  /\ LET p == params[next] IN
       IF p.in = "path" THEN braces' = [braces EXCEPT ![p.name] = @ + 1] /\ fields' = fields
       ELSE /\ fields' = [fields EXCEPT ![p.in] =
                            Append(@, [name |-> p.name, enabled |-> p.required])]
            /\ braces' = braces
  /\ next' = next + 1
  /\ UNCHANGED <<schemas, params, link, seen, depth, outcome>>

\* The properties mergeAllOf collects: those of the parts that have some.
MergeAllOf(parts) ==
  UNION {schemas[l.to].links : l \in {l \in parts : schemas[l.to].kind = "object"}}

\* What is inside a named schema.
Inside(n) ==
  CASE schemas[n].kind = "value" -> {}
    [] schemas[n].kind = "allOf" -> MergeAllOf(schemas[n].links)
    [] OTHER -> schemas[n].links

\* Faulty variant: names are not remembered.
BelowUnseen(l) ==
  IF l.via = "allOf" THEN [links |-> MergeAllOf({l}), seen |-> seen]
  ELSE IF l.to \in seen THEN [links |-> {}, seen |-> seen]
  ELSE [links |-> Inside(l.to), seen |-> seen]

\* Where exampleFromSchema goes from a schema, and the names it takes along.
Below(l) ==
  IF l.via = "allOf" THEN [links |-> MergeAllOf({l}), seen |-> seen]
  ELSE IF l.to \in seen THEN [links |-> {}, seen |-> seen]
  ELSE [links |-> Inside(l.to), seen |-> seen \cup {l.to}]

ExampleFromSchema ==
  /\ outcome = "reading" /\ next > Len(params) /\ link # None
  /\ LET below == Below(link) IN
       /\ link' \in IF below.links = {} THEN {None} ELSE below.links
       /\ seen' = below.seen
  /\ depth' = depth + 1
  /\ outcome' = IF depth' > Limit THEN "refused" ELSE outcome
  /\ UNCHANGED <<schemas, params, next, braces, fields>>

EndpointRead ==
  /\ outcome = "reading" /\ next > Len(params) /\ link = None
  /\ outcome' = "read"
  /\ UNCHANGED <<schemas, params, next, braces, fields, link, seen, depth>>

Next == ReadParam \/ ExampleFromSchema \/ EndpointRead

Spec == Init /\ [][Next]_openApiVars

-----------------------------------------------------------------------------
\* Schemas that contain each other by allOf alone: no name is remembered on the way.
AllOfLoop ==
  \E S \in SUBSET Names \ {{}} :
    \A a \in S : \E b \in S : /\ schemas[a].kind = "object" /\ schemas[b].kind = "object"
                              /\ [via |-> "allOf", to |-> b] \in schemas[a].links

Declared(p) == Cardinality({i \in DOMAIN params : params[i].in = "path" /\ params[i].name = p})

\* An endpoint is read, however its schemas refer to each other, and a placeholder
\* declared in the path becomes a variable; except that schemas that contain each other
\* by allOf alone overflow the stack and with it the file is refused, and that a
\* placeholder declared by the path and by its operation is wrapped twice.
ReadUnlessLoop ==
  /\ outcome = "refused" => AllOfLoop
  /\ outcome = "read" => \A p \in Params : Declared(p) = 1 => braces[p] = 2

=============================================================================
