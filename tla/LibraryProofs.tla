--------------------------- MODULE LibraryProofs ---------------------------
(***************************************************************************)
(* Theorems about what a library holds, for any number of workspaces,      *)
(* collections, requests, tags and calls, and about what comes into it:    *)
(* folders of an import, a file of Postman's, schemas and parameters of    *)
(* OpenAPI, a command, each of any length.                                 *)
(*                                                                         *)
(* Saved requests.  The properties are about what is written; what makes   *)
(* them hold is in the locals of the calls under way.  Progress says which *)
(* roles a call has checked by each of its steps, TagsFound what the tags  *)
(* that it looked up are worth while others rename and delete them, and    *)
(* Newcomers that nobody else can touch a request that is being saved.     *)
(*                                                                         *)
(* Files.  A parser walks a list: its loop is a recursive function here,   *)
(* and what it computes is shown by induction over a set of numbers        *)
(* (Induction), after a lemma that the function exists (LoopRuns).         *)
(***************************************************************************)
EXTENDS MCLibrary, FiniteSetTheorems, SequenceTheorems, TLAPS

\* The roles for where q was found and for where it goes have been checked.
Cleared(c, q) ==
  /\ c.seen[q] # Nowhere => Home[c.seen[q]] \in c.verified
  /\ c.to[q] # Nowhere => Home[c.to[q]] \in c.verified

\* Of a call's items each is cleared, still to check, or being checked.
Progress(c) ==
  /\ c.todo \subseteq c.items
  /\ c.step \in {"check", "target"} => c.now \in c.items /\ c.now \notin c.todo
  /\ c.step = "check" => c.seen[c.now] # Nowhere
  /\ c.step = "target" => /\ c.to[c.now] # Nowhere
                          /\ c.seen[c.now] # Nowhere => Home[c.seen[c.now]] \in c.verified
  /\ \A q \in c.items \ c.todo :
       Cleared(c, q) \/ (c.step \in {"check", "target"} /\ q = c.now)
  /\ c.step = "write" => c.todo = {}
  /\ (c.step \in {"check", "target", "write"} /\ c.kind # "save") => c.seen[c.now] # Nowhere
  /\ c.step # "write" => c.ids = {}

CallsProgress == \A k \in Calls : Progress(call[k])

Shape == TypeOK /\ Requests # {}

USE HomeAssumption

-----------------------------------------------------------------------------
(***************************************************************************)
(* Types.                                                                  *)
(***************************************************************************)
LEMMA NoCallIsCall == Requests # {} => NoCall \in Call
BY DEF NoCall, NotAsked, Call, Kind

LEMMA InitShape == Init => Shape
<1> SUFFICES ASSUME Init PROVE Shape
  OBVIOUS
<1>1. PICK q \in Requests, c \in Collections : at = [NotAsked EXCEPT ![q] = c] /\ used = {q}
  BY DEF Init
<1>2. at \in [Requests -> collections \cup {Nowhere}] /\ Requests # {}
  BY <1>1 DEF Init, NotAsked
<1>3. call \in [Calls -> Call]
  BY <1>2, NoCallIsCall DEF Init
<1>4. tag \in [Tags -> [ws : Workspaces, name : Names] \cup {NoTag}]
  BY DEF Init
<1>5. tagged \in [Requests -> SUBSET Stored] /\ asked \in [Requests -> SUBSET Tags]
  BY DEF Init
<1> QED BY <1>1, <1>2, <1>3, <1>4, <1>5 DEF Init, Shape, TypeOK

LEMMA EndShape == ASSUME Shape, NEW k \in Calls, End(k) PROVE call' \in [Calls -> Call]
BY NoCallIsCall DEF Shape, TypeOK, End

LEMMA AdvanceShape ==
  ASSUME Shape, NEW k \in Calls, NEW c \in Call, Advance(k, c)
  PROVE  call' \in [Calls -> Call]
BY DEF Shape, TypeOK, Advance

\* A call under way, with its fields.
LEMMA CallFields ==
  ASSUME Shape, NEW k \in Calls
  PROVE  /\ call[k] \in Call
         /\ call[k].to \in [Requests -> Collections \cup {Nowhere}]
         /\ call[k].seen \in [Requests -> Collections \cup {Nowhere}]
         /\ call[k].items \subseteq Requests /\ call[k].todo \subseteq Requests
         /\ call[k].now \in Requests /\ call[k].verified \subseteq Workspaces
         /\ call[k].names \subseteq Names /\ call[k].ids \subseteq Tags
BY DEF Shape, TypeOK, Call

LEMMA HomeOf == ASSUME NEW c \in Collections PROVE Home[c] \in Workspaces /\ c # Nowhere
OBVIOUS

\* Each step of a call that is not its last leaves it a call that progresses.
LEMMA BeginSaveStep ==
  ASSUME Shape, NEW k \in Calls, NEW q \in Requests, NEW c \in Collections,
         BeginSave(k, q, c)
  PROVE  call' \in [Calls -> Call] /\ Progress(call'[k])
<1> DEFINE d == [NoCall EXCEPT !.kind = "save", !.step = "target", !.items = {q},
                               !.to[q] = c, !.now = q]
<1>1. d \in Call
  BY NoCallIsCall DEF Shape, Call, NoCall, NotAsked, Kind
<1>2. call'[k] = d /\ call' \in [Calls -> Call]
  BY <1>1, AdvanceShape DEF BeginSave, Advance, Shape, TypeOK
<1>3. Progress(d)
  BY DEF Progress, NoCall, NotAsked
<1> QED BY <1>2, <1>3

LEMMA BeginPutStep ==
  ASSUME Shape, NEW k \in Calls, NEW items \in SUBSET Requests,
         NEW to \in [items -> Collections \cup {Nowhere}], BeginPut(k, items, to)
  PROVE  call' \in [Calls -> Call] /\ Progress(call'[k])
<1> DEFINE d == [NoCall EXCEPT !.kind = "put", !.step = "find", !.items = items,
                               !.todo = items, !.to = [q \in Requests |->
                                 IF q \in items THEN to[q] ELSE Nowhere]]
<1>1. d \in Call
  BY NoCallIsCall DEF Shape, Call, NoCall, NotAsked, Kind
<1>2. call'[k] = d /\ call' \in [Calls -> Call]
  BY <1>1, AdvanceShape DEF BeginPut, Advance, Shape, TypeOK
<1>3. Progress(d)
  BY DEF Progress, NoCall, NotAsked
<1> QED BY <1>2, <1>3

LEMMA BeginStep ==
  ASSUME Shape, NEW k \in Calls, NEW kind \in Kind, NEW q \in Requests,
         NEW names \in SUBSET Names, Begin(k, kind, q, names)
  PROVE  call' \in [Calls -> Call] /\ Progress(call'[k])
<1> DEFINE d == [NoCall EXCEPT !.kind = kind, !.step = "find", !.items = {q},
                               !.todo = {q}, !.names = names]
<1>1. d \in Call
  BY NoCallIsCall DEF Shape, Call, NoCall, NotAsked, Kind
<1>2. call'[k] = d /\ call' \in [Calls -> Call]
  BY <1>1, AdvanceShape DEF Begin, Advance, Shape, TypeOK
<1>3. Progress(d)
  BY DEF Progress, NoCall, NotAsked
<1> QED BY <1>2, <1>3

LEMMA EndStep ==
  ASSUME Shape, NEW k \in Calls, End(k)
  PROVE  call' \in [Calls -> Call] /\ Progress(call'[k])
<1>1. call'[k] = NoCall
  BY DEF End, Shape, TypeOK
<1>2. Progress(NoCall)
  BY DEF Progress, NoCall
<1> QED BY <1>1, <1>2, EndShape

LEMMA FindStep ==
  ASSUME Shape, NEW k \in Calls, Progress(call[k]), Find(k)
  PROVE  call' \in [Calls -> Call] /\ Progress(call'[k])
<1>1. PICK q \in call[k].todo :
        IF Alive(q)
          THEN Advance(k, [call[k] EXCEPT !.step = "check", !.now = q, !.seen[q] = at[q],
                                          !.todo = @ \ {q}])
          ELSE End(k)
  BY DEF Find
<1>2. CASE Alive(q)
  <2> DEFINE c == call[k]
             d == [c EXCEPT !.step = "check", !.now = q, !.seen[q] = at[q], !.todo = @ \ {q}]
  <2>1. q \in Requests /\ at[q] \in Collections
    BY <1>2, CallFields DEF Alive, Shape, TypeOK
  <2>2. d \in Call
    BY <2>1, CallFields DEF Call
  <2>3. call'[k] = d /\ call' \in [Calls -> Call]
    BY <1>1, <1>2, <2>2, AdvanceShape DEF Advance, Shape, TypeOK
  <2>4. /\ d.items = c.items /\ d.todo = c.todo \ {q} /\ d.now = q /\ d.step = "check"
        /\ d.kind = c.kind /\ d.to = c.to /\ d.verified = c.verified /\ d.ids = c.ids
        /\ d.seen[q] = at[q] /\ \A p \in Requests \ {q} : d.seen[p] = c.seen[p]
    BY <2>1, CallFields DEF Call
  <2>5. \A p \in d.items \ d.todo : p = q \/ (p \in c.items \ c.todo /\ Cleared(c, p))
    BY <1>1, <2>4 DEF Progress, Find
  <2>6. \A p \in d.items \ d.todo : p = q \/ Cleared(d, p)
    BY <2>4, <2>5, CallFields DEF Cleared
  <2>7. q \in d.items /\ d.seen[q] # Nowhere /\ d.ids = {} /\ d.todo \subseteq d.items
    BY <1>1, <2>1, <2>4 DEF Progress, Find
  <2>8. Progress(d)
    BY <2>4, <2>6, <2>7 DEF Progress
  <2> QED BY <2>3, <2>8
<1>3. CASE ~Alive(q)
  BY <1>1, <1>3, EndStep
<1> QED BY <1>2, <1>3

\* The role in ws has been checked, and with it that of the item is complete.
LEMMA CheckedProgress ==
  ASSUME NEW c \in Call, NEW ws \in Workspaces, Progress(c),
         c.step \in {"check", "target"},
         c.seen[c.now] # Nowhere => Home[c.seen[c.now]] \in c.verified \cup {ws},
         c.to[c.now] # Nowhere => Home[c.to[c.now]] \in c.verified \cup {ws}
  PROVE  Checked(c, ws) \in Call /\ Progress(Checked(c, ws))
<1> DEFINE d == Checked(c, ws)
<1>1. d \in Call
  BY DEF Checked, Call
<1>2. /\ d.items = c.items /\ d.todo = c.todo /\ d.now = c.now /\ d.kind = c.kind
      /\ d.to = c.to /\ d.seen = c.seen /\ d.verified = c.verified \cup {ws}
      /\ d.ids = c.ids /\ d.step = IF c.todo = {} THEN "write" ELSE "find"
  BY DEF Checked, Call
<1>3. \A q \in c.items \ c.todo : Cleared(d, q)
  BY <1>2 DEF Progress, Cleared
<1> QED BY <1>1, <1>2, <1>3 DEF Progress

LEMMA CheckStep ==
  ASSUME Shape, NEW k \in Calls, Progress(call[k]), Check(k)
  PROVE  call' \in [Calls -> Call] /\ Progress(call'[k])
<1> DEFINE c == call[k]
           from == c.seen[c.now]
           ws == Home[from]
           passed == Checked(c, ws)
           d == IF c.to[c.now] \in {Nowhere, from} THEN passed
                ELSE [passed EXCEPT !.step = "target"]
<1>1. /\ c \in Call /\ from \in Collections /\ from # Nowhere
      /\ ws \in Workspaces /\ c.step = "check"
  BY CallFields, HomeOf DEF Check, Shape, TypeOK
<1>2. /\ passed \in Call /\ passed.items = c.items /\ passed.todo = c.todo /\ passed.now = c.now
      /\ passed.to = c.to /\ passed.seen = c.seen /\ passed.verified = c.verified \cup {ws}
      /\ passed.ids = c.ids /\ passed.kind = c.kind
  BY <1>1 DEF Checked, Call
<1>3. ASSUME c.to[c.now] \in {Nowhere, from} PROVE passed \in Call /\ Progress(passed)
  BY <1>1, <1>3, CheckedProgress
<1>4. ASSUME c.to[c.now] \notin {Nowhere, from}
      PROVE  LET e == [passed EXCEPT !.step = "target"] IN e \in Call /\ Progress(e)
  <2> DEFINE e == [passed EXCEPT !.step = "target"]
  <2>1. /\ e \in Call /\ e.items = c.items /\ e.todo = c.todo /\ e.now = c.now /\ e.to = c.to
        /\ e.seen = c.seen /\ e.verified = c.verified \cup {ws} /\ e.ids = c.ids
        /\ e.kind = c.kind /\ e.step = "target"
    BY <1>2 DEF Call
  <2>2. \A q \in c.items \ c.todo : Cleared(e, q) \/ q = c.now
    BY <1>1, <2>1 DEF Progress, Cleared
  <2> HIDE DEF e
  <2>3. Progress(e)
    BY <1>1, <1>4, <2>1, <2>2 DEF Progress
  <2> QED BY <2>1, <2>3 DEF e
<1>5. d \in Call /\ Progress(d)
  BY <1>3, <1>4
<1>6. Advance(k, d)
  BY DEF Check
<1> HIDE DEF d
<1> QED BY <1>5, <1>6, AdvanceShape DEF Advance, Shape, TypeOK

LEMMA CheckTargetStep ==
  ASSUME Shape, NEW k \in Calls, Progress(call[k]), CheckTarget(k)
  PROVE  call' \in [Calls -> Call] /\ Progress(call'[k])
<1> DEFINE c == call[k]
           ws == Home[c.to[c.now]]
<1>1. c \in Call /\ c.step = "target" /\ ws \in Workspaces
  BY CallFields, HomeOf DEF CheckTarget, Shape, TypeOK
<1>2. Checked(c, ws) \in Call /\ Progress(Checked(c, ws))
  BY <1>1, CheckedProgress DEF Progress
<1>3. Advance(k, Checked(c, ws))
  BY DEF CheckTarget
<1> QED BY <1>2, <1>3, AdvanceShape DEF Advance, Shape, TypeOK

\* The tag that an upsert took, and the names that are left.
LEMMA UpsertStep ==
  ASSUME Shape, NEW k \in Calls, Progress(call[k]), Upsert(k)
  PROVE  /\ call' \in [Calls -> Call] /\ Progress(call'[k])
         /\ \E name \in Names, g \in Tags :
              /\ call'[k] = [call[k] EXCEPT !.names = @ \ {name}, !.ids = @ \cup {g}]
              /\ LET ws == Home[call[k].seen[call[k].now]] IN
                   \/ g \in Stored /\ tag[g].ws = ws /\ UNCHANGED <<tag, used>>
                   \/ /\ g \notin used /\ used' = used \cup {g} /\ ws \in Workspaces
                      /\ tag' = [tag EXCEPT ![g] = [ws |-> ws, name |-> name]]
<1> DEFINE c == call[k]
           ws == Home[c.seen[c.now]]
           Step(name, g) == [c EXCEPT !.names = @ \ {name}, !.ids = @ \cup {g}]
<1>1. c.step = "write" /\ c.kind = "tags" /\ c \in Call /\ c.names \subseteq Names
  BY CallFields DEF Upsert
<1>2. ws \in Workspaces
  BY <1>1, HomeOf, CallFields DEF Progress
<1>3. PICK name \in c.names :
        IF Named(ws, name) # {}
          THEN (\E g \in Named(ws, name) : Advance(k, Step(name, g))) /\ UNCHANGED <<tag, used>>
          ELSE \E g \in Tags \ used :
                 /\ tag' = [tag EXCEPT ![g] = [ws |-> ws, name |-> name]]
                 /\ used' = used \cup {g}
                 /\ Advance(k, Step(name, g))
  BY DEF Upsert
<1>4. \E g \in Tags :
        /\ Advance(k, Step(name, g))
        /\ \/ g \in Stored /\ tag[g].ws = ws /\ UNCHANGED <<tag, used>>
           \/ /\ g \notin used /\ used' = used \cup {g}
              /\ tag' = [tag EXCEPT ![g] = [ws |-> ws, name |-> name]]
  <2>1. CASE Named(ws, name) # {}
    <3>1. PICK g \in Named(ws, name) : Advance(k, Step(name, g))
      BY <1>3, <2>1
    <3>2. g \in Tags /\ g \in Stored /\ tag[g].ws = ws
      BY DEF Named, Stored
    <3> QED BY <1>3, <2>1, <3>1, <3>2
  <2>2. CASE Named(ws, name) = {}
    BY <1>3, <2>2
  <2> QED BY <2>1, <2>2
<1>5. PICK g \in Tags :
        /\ Advance(k, Step(name, g))
        /\ \/ g \in Stored /\ tag[g].ws = ws /\ UNCHANGED <<tag, used>>
           \/ /\ g \notin used /\ used' = used \cup {g}
              /\ tag' = [tag EXCEPT ![g] = [ws |-> ws, name |-> name]]
  BY <1>4
<1> DEFINE d == Step(name, g)
<1>6. /\ d \in Call /\ d.items = c.items /\ d.todo = c.todo /\ d.now = c.now /\ d.to = c.to
      /\ d.seen = c.seen /\ d.verified = c.verified /\ d.kind = c.kind /\ d.step = c.step
  BY <1>1 DEF Call
<1>7. Progress(d)
  <2>1. \A q \in c.items \ c.todo : Cleared(d, q)
    BY <1>1, <1>6 DEF Progress, Cleared
  <2> HIDE DEF d
  <2> QED BY <1>1, <1>6, <2>1 DEF Progress
<1>8. call'[k] = d
  BY <1>5 DEF Advance, Shape, TypeOK
<1>9. call' \in [Calls -> Call]
  BY <1>5, <1>6, AdvanceShape
<1> QED BY <1>1, <1>2, <1>5, <1>7, <1>8, <1>9

-----------------------------------------------------------------------------
(***************************************************************************)
(* Progress of every call, and types, over every step.                     *)
(***************************************************************************)

\* Which call a step is of, if any, and that no other call notices.
LEMMA OneCall ==
  ASSUME Shape, Next
  PROVE  UNCHANGED call \/ \E k \in Calls : Serve(k) /\ \A l \in Calls \ {k} : call'[l] = call[l]
<1>1. ASSUME NEW k \in Calls, Serve(k)
      PROVE  \A l \in Calls \ {k} : call'[l] = call[l]
  BY <1>1
     DEF Serve, BeginSave, BeginPut, Begin, Find, Check, CheckTarget, Stop, Refuse, Write,
              Save, Put, Delete, Share, Upsert, ReplaceTags, End, Advance, Shape, TypeOK
<1> QED BY <1>1 DEF Next, CreateTag, RenameTag, DeleteTag, DeleteCollection

LEMMA ServeStep ==
  ASSUME Shape, NEW k \in Calls, Progress(call[k]), Serve(k)
  PROVE  call' \in [Calls -> Call] /\ Progress(call'[k])
<1>1. ASSUME NEW q \in Requests, NEW c \in Collections, BeginSave(k, q, c)
      PROVE  call' \in [Calls -> Call] /\ Progress(call'[k])
  BY <1>1, BeginSaveStep
<1>2. ASSUME NEW items \in SUBSET Requests, NEW to \in [items -> Collections \cup {Nowhere}],
             BeginPut(k, items, to)
      PROVE  call' \in [Calls -> Call] /\ Progress(call'[k])
  BY <1>2, BeginPutStep
<1>3. ASSUME NEW kind \in Kind, NEW q \in Requests, NEW names \in SUBSET Names,
             Begin(k, kind, q, names)
      PROVE  call' \in [Calls -> Call] /\ Progress(call'[k])
  BY <1>3, BeginStep
<1>4. CASE End(k)
  BY <1>4, EndStep
<1> QED BY <1>1, <1>2, <1>3, <1>4, FindStep, CheckStep, CheckTargetStep, UpsertStep
        DEF Serve, Stop, Refuse, Write, Save, Put, Delete, Share, ReplaceTags

LEMMA NextProgress ==
  ASSUME Shape, CallsProgress, Next
  PROVE  call' \in [Calls -> Call] /\ CallsProgress'
<1>1. CASE UNCHANGED call
  BY <1>1 DEF Shape, TypeOK, CallsProgress, Progress, Cleared
<1>2. ASSUME NEW k \in Calls, Serve(k), \A l \in Calls \ {k} : call'[l] = call[l]
      PROVE  call' \in [Calls -> Call] /\ CallsProgress'
  <2>1. call' \in [Calls -> Call] /\ Progress(call'[k])
    BY <1>2, ServeStep DEF CallsProgress
  <2>2. \A l \in Calls : Progress(call'[l])
    BY <1>2, <2>1 DEF CallsProgress
  <2> QED BY <2>1, <2>2 DEF CallsProgress
<1> QED BY <1>1, <1>2, OneCall

\* Without keeps every table of requests a table.
LEMMA WithoutShape ==
  ASSUME Shape, NEW gone \in SUBSET Requests, Without(gone), UNCHANGED tag,
         NEW C \in SUBSET Collections, \A q \in Requests \ gone : at[q] \in C \cup {Nowhere}
  PROVE  /\ at' \in [Requests -> C \cup {Nowhere}] /\ tagged' \in [Requests -> SUBSET Stored']
         /\ shared' \subseteq {q \in Requests : Alive(q)'}
         /\ asked' \in [Requests -> SUBSET Tags] /\ strays' \subseteq Requests
<1>1. Stored' = Stored
  BY DEF Stored
<1>2. /\ at' = [q \in Requests |-> IF q \in gone THEN Nowhere ELSE at[q]]
      /\ tagged' = [q \in Requests |-> IF q \in gone THEN {} ELSE tagged[q]]
      /\ asked' = [q \in Requests |-> IF q \in gone THEN {} ELSE asked[q]]
      /\ shared' = shared \ gone /\ strays' = strays \ gone
  BY DEF Without
<1>3. shared' \subseteq {q \in Requests : Alive(q)'}
  BY <1>2 DEF Shape, TypeOK, Alive
<1> QED BY <1>1, <1>2, <1>3 DEF Shape, TypeOK

\* A tag that is new takes a name; those stored stay stored.
LEMMA NewTagShape ==
  ASSUME Shape, NEW g \in Tags, NEW ws \in Workspaces, NEW name \in Names,
         tag' = [tag EXCEPT ![g] = [ws |-> ws, name |-> name]]
  PROVE  /\ tag' \in [Tags -> [ws : Workspaces, name : Names] \cup {NoTag}]
         /\ Stored' = Stored \cup {g}
         /\ tag'[g].ws = ws /\ \A h \in Tags \ {g} : tag'[h] = tag[h]
<1>1. [ws |-> ws, name |-> name] # NoTag
  BY DEF NoTag
<1> QED BY <1>1 DEF Stored, Shape, TypeOK

LEMMA SaveShape == ASSUME Shape, NEW k \in Calls, Save(k) PROVE Shape'
<1>1. PICK q \in call[k].items :
        at' = IF call[k].to[q] \in collections THEN [at EXCEPT ![q] = call[k].to[q]] ELSE at
  BY DEF Save
<1>2. call' \in [Calls -> Call] /\ q \in Requests
  BY CallFields, EndShape DEF Save
<1>3. at' \in [Requests -> collections \cup {Nowhere}]
  BY <1>1, <1>2 DEF Shape, TypeOK
<1>4. \A p \in Requests : Alive(p) => at'[p] # Nowhere
  BY <1>1, <1>2 DEF Shape, TypeOK, Alive
<1>5. shared \subseteq {p \in Requests : Alive(p)'}
  BY <1>4 DEF Shape, TypeOK, Alive
<1>6. UNCHANGED <<collections, tag, tagged, shared, used, asked, strays>>
  BY DEF Save
<1> QED BY <1>2, <1>3, <1>5, <1>6 DEF Shape, TypeOK, Stored

LEMMA PutShape == ASSUME Shape, NEW k \in Calls, Put(k) PROVE Shape'
<1> DEFINE c == call[k]
           Target(q) == IF c.to[q] = Nowhere THEN at[q] ELSE c.to[q]
<1>1. call' \in [Calls -> Call] /\ c.items \subseteq Requests
  BY CallFields, EndShape DEF Put
<1>2. UNCHANGED <<collections, tag, tagged, shared, used, asked>>
  BY DEF Put
<1>3. CASE \A q \in c.items : Alive(q) /\ Target(q) \in collections
  <2>1. /\ at' = [q \in Requests |-> IF q \in c.items THEN Target(q) ELSE at[q]]
        /\ strays' = strays \cup {q \in c.items : Home[Target(q)] # Home[at[q]]}
    BY <1>3 DEF Put
  <2>2. at' \in [Requests -> collections \cup {Nowhere}] /\ strays' \subseteq Requests
    BY <1>1, <1>3, <2>1 DEF Shape, TypeOK
  <2>3. \A p \in Requests : Alive(p) => at'[p] # Nowhere
    BY <1>1, <1>3, <2>1 DEF Shape, TypeOK, Alive
  <2>4. shared \subseteq {p \in Requests : Alive(p)'}
    BY <2>3 DEF Shape, TypeOK, Alive
  <2> QED BY <1>1, <1>2, <2>2, <2>4 DEF Shape, TypeOK, Stored
<1>4. CASE ~(\A q \in c.items : Alive(q) /\ Target(q) \in collections)
  <2>1. UNCHANGED <<at, strays>>
    BY <1>4 DEF Put
  <2> QED BY <1>1, <1>2, <2>1 DEF Shape, TypeOK, Stored, Alive
<1> QED BY <1>3, <1>4

LEMMA DeleteShape == ASSUME Shape, NEW k \in Calls, Delete(k) PROVE Shape'
<1>1. call' \in [Calls -> Call] /\ call[k].items \in SUBSET Requests
  BY CallFields, EndShape DEF Delete
<1>2. Without(call[k].items) /\ UNCHANGED <<collections, tag, used>>
  BY DEF Delete
<1>3. collections \in SUBSET Collections /\ \A q \in Requests : at[q] \in collections \cup {Nowhere}
  BY DEF Shape, TypeOK
<1> QED BY <1>1, <1>2, <1>3, WithoutShape DEF Shape, TypeOK

LEMMA ReplaceTagsShape == ASSUME Shape, NEW k \in Calls, ReplaceTags(k) PROVE Shape'
<1> DEFINE q == call[k].now  ids == call[k].ids
<1>1. call' \in [Calls -> Call] /\ q \in Requests /\ ids \subseteq Tags
  BY CallFields, EndShape DEF ReplaceTags
<1>2. UNCHANGED <<collections, at, tag, shared, used>>
  BY DEF ReplaceTags
<1>3. /\ tagged' \in [Requests -> SUBSET Stored] /\ asked' \in [Requests -> SUBSET Tags]
      /\ strays' \subseteq Requests
  <2>1. CASE Alive(q) /\ ids \subseteq Stored
    <3>1. /\ tagged' = [tagged EXCEPT ![q] = ids] /\ asked' = [asked EXCEPT ![q] = ids]
          /\ strays' \subseteq strays \cup {q}
      BY <2>1 DEF ReplaceTags
    <3> QED BY <1>1, <2>1, <3>1 DEF Shape, TypeOK
  <2>2. CASE ~(Alive(q) /\ ids \subseteq Stored)
    BY <2>2 DEF ReplaceTags, Shape, TypeOK
  <2> QED BY <2>1, <2>2
<1> QED BY <1>1, <1>2, <1>3 DEF Shape, TypeOK, Stored, Alive

\* The steps that write no rows.
LEMMA QuietShape ==
  ASSUME Shape, call' \in [Calls -> Call], UNCHANGED <<collections, at, tag, tagged>>,
         UNCHANGED <<shared, asked, strays>>, used' \subseteq Requests \cup Tags
  PROVE  Shape'
BY DEF Shape, TypeOK, Stored, Alive

LEMMA NextShape == ASSUME Shape, CallsProgress, Next PROVE Shape'
<1>1. call' \in [Calls -> Call]
  BY NextProgress
<1>2. ASSUME NEW k \in Calls, Serve(k) PROVE Shape'
  <2>1. CASE Save(k) \/ Put(k) \/ Delete(k) \/ ReplaceTags(k)
    BY <2>1, SaveShape, PutShape, DeleteShape, ReplaceTagsShape
  <2>2. CASE Share(k)
    <3>1. shared' \subseteq {q \in Requests : Alive(q)}
      BY <2>2, CallFields DEF Share, Shape, TypeOK
    <3> QED BY <1>1, <2>2, <3>1 DEF Share, Shape, TypeOK, Stored, Alive
  <2>3. CASE Upsert(k)
    <3>1. PICK name \in Names, g \in Tags, ws \in {Home[call[k].seen[call[k].now]]} :
            \/ g \in Stored /\ UNCHANGED <<tag, used>>
            \/ /\ g \notin used /\ used' = used \cup {g} /\ ws \in Workspaces
               /\ tag' = [tag EXCEPT ![g] = [ws |-> ws, name |-> name]]
      BY <2>3, UpsertStep DEF CallsProgress
    <3>2. UNCHANGED <<collections, at, tagged, shared, asked, strays>>
      BY <2>3 DEF Upsert
    <3>3. CASE UNCHANGED <<tag, used>>
      BY <1>1, <3>2, <3>3, QuietShape DEF Shape, TypeOK
    <3>4. CASE ~UNCHANGED <<tag, used>>
      <4>1. /\ tag' \in [Tags -> [ws : Workspaces, name : Names] \cup {NoTag}]
            /\ Stored' = Stored \cup {g}
        BY <3>1, <3>4, NewTagShape
      <4> QED BY <1>1, <3>1, <3>2, <3>4, <4>1 DEF Shape, TypeOK, Alive
    <3> QED BY <3>3, <3>4
  <2>4. CASE /\ UNCHANGED <<collections, at, tag, tagged>> /\ UNCHANGED <<shared, asked, strays>>
             /\ used' \subseteq Requests \cup Tags
    BY <1>1, <2>4, QuietShape
  <2> QED BY <1>2, <2>1, <2>2, <2>3, <2>4
          DEF Serve, Write, BeginSave, BeginPut, Begin, Find, Check, CheckTarget, Stop, Refuse,
              rows, Shape, TypeOK
<1>3. ASSUME NEW g \in Tags, NEW ws \in Workspaces, NEW name \in Names, CreateTag(g, ws, name)
      PROVE  Shape'
  <2>1. /\ tag' \in [Tags -> [ws : Workspaces, name : Names] \cup {NoTag}]
        /\ Stored' = Stored \cup {g}
    BY <1>3, NewTagShape DEF CreateTag
  <2> QED BY <1>1, <1>3, <2>1 DEF CreateTag, Shape, TypeOK, Alive
<1>4. ASSUME NEW g \in Tags, NEW name \in Names, RenameTag(g, name) PROVE Shape'
  <2>1. tag[g] \in [ws : Workspaces, name : Names]
    BY <1>4 DEF RenameTag, Stored, Shape, TypeOK
  <2>2. tag' = [tag EXCEPT ![g] = [ws |-> tag[g].ws, name |-> name]]
    <3>1. [tag[g] EXCEPT !.name = name] = [ws |-> tag[g].ws, name |-> name]
      BY <2>1
    <3>2. tag' = [tag EXCEPT ![g] = [tag[g] EXCEPT !.name = name]]
      BY <1>4 DEF RenameTag
    <3> QED BY <3>1, <3>2
  <2>3. /\ tag' \in [Tags -> [ws : Workspaces, name : Names] \cup {NoTag}]
        /\ Stored' = Stored \cup {g}
    BY <2>1, <2>2, NewTagShape
  <2> QED BY <1>1, <1>4, <2>3 DEF RenameTag, Shape, TypeOK, Alive
<1>5. ASSUME NEW g \in Tags, DeleteTag(g) PROVE Shape'
  <2>1. Stored' = Stored \ {g} /\ tag' \in [Tags -> [ws : Workspaces, name : Names] \cup {NoTag}]
    BY <1>5 DEF DeleteTag, Stored, Shape, TypeOK
  <2>2. tagged' \in [Requests -> SUBSET Stored']
    BY <1>5, <2>1 DEF DeleteTag, Shape, TypeOK
  <2> QED BY <1>1, <1>5, <2>1, <2>2 DEF DeleteTag, Shape, TypeOK, Alive
<1>6. ASSUME NEW c \in Collections, DeleteCollection(c) PROVE Shape'
  <2> DEFINE gone == {q \in Requests : at[q] = c}
             C == collections \ {c}
  <2>1. Without(gone) /\ collections' = C /\ UNCHANGED <<tag, used>>
    BY <1>6 DEF DeleteCollection
  <2>2. gone \in SUBSET Requests /\ C \in SUBSET Collections
    BY DEF Shape, TypeOK
  <2>3. \A q \in Requests \ gone : at[q] \in C \cup {Nowhere}
    BY DEF Shape, TypeOK
  <2> HIDE DEF gone, C
  <2>4. /\ at' \in [Requests -> C \cup {Nowhere}] /\ tagged' \in [Requests -> SUBSET Stored']
        /\ shared' \subseteq {q \in Requests : Alive(q)'}
        /\ asked' \in [Requests -> SUBSET Tags] /\ strays' \subseteq Requests
    BY <2>1, <2>2, <2>3, WithoutShape
  <2> QED BY <1>1, <2>1, <2>2, <2>4 DEF Shape, TypeOK
<1> QED BY <1>2, <1>3, <1>4, <1>5, <1>6 DEF Next

IInv == Shape /\ CallsProgress

LEMMA InitInv == Init => IInv
<1>1. ASSUME Init PROVE CallsProgress
  <2>1. Progress(NoCall)
    BY DEF Progress, NoCall
  <2> QED BY <1>1, <2>1 DEF Init, CallsProgress
<1> QED BY <1>1, InitShape DEF IInv

LEMMA StepInv == IInv /\ [Next]_vars => IInv'
<1>1. ASSUME IInv, UNCHANGED vars PROVE IInv'
  BY <1>1
     DEF IInv, Shape, TypeOK, CallsProgress, Progress, Cleared, Stored, Alive, vars, rows
<1>2. ASSUME IInv, Next PROVE IInv'
  BY <1>2, NextShape, NextProgress DEF IInv
<1> QED BY <1>1, <1>2

LEMMA Invariant == Spec => []IInv
BY InitInv, StepInv, PTL DEF Spec

\* Every table and every call's locals keep their types.
THEOREM TypeCorrect == Spec => []TypeOK
<1>1. IInv => TypeOK
  BY DEF IInv, Shape
<1> QED BY <1>1, Invariant, PTL

LEMMA WritesAreCleared ==
  ASSUME IInv, NEW k \in Calls, NEW q \in call[k].items, call[k].step = "write"
  PROVE  LET c == call[k]
             Checks(place) == place = Nowhere \/ Home[place] \in c.verified
         IN Checks(c.to[q]) /\ (at[q] = c.seen[q] => Checks(at[q]))
BY DEF IInv, CallsProgress, Progress, Cleared

\* However moves, deletions and other calls come in between, a call writes only to
\* workspaces where it checked its caller's role, but for a request that was moved
\* after the call had found it.
THEOREM WritesAreAllowed == Spec => WritesWhereAllowed
<1>1. IInv => \A k \in Calls : \A q \in call[k].items :
        LET c == call[k]
            Checks(place) == place = Nowhere \/ Home[place] \in c.verified
        IN (c.step = "write" /\ call'[k] # c /\ <<at, tagged, shared>>' # <<at, tagged, shared>>)
             => Checks(c.to[q]) /\ (at[q] = c.seen[q] => Checks(at[q]))
  BY WritesAreCleared
<1> QED BY <1>1, Invariant, PTL DEF WritesWhereAllowed

-----------------------------------------------------------------------------
(***************************************************************************)
(* Tags.                                                                   *)
(***************************************************************************)

\* Ids in use are known, a request that is gone has no tags, and tags that an update
\* wrote were stored when it did.
RowsKnown ==
  /\ \A q \in Requests : Alive(q) => q \in used
  /\ \A q \in Requests : ~Alive(q) => tagged[q] = {}
  /\ Stored \subseteq used
  /\ \A q \in Requests : asked[q] \subseteq used

\* A request that is being saved is nowhere yet, and nobody else saves it.
Saving(k) == call[k].step # "idle" /\ call[k].kind = "save"

Newcomers ==
  /\ \A k \in Calls : Saving(k) =>
       \A q \in call[k].items : ~Alive(q) /\ q \in used
  /\ \A k, l \in Calls : (k # l /\ Saving(k) /\ Saving(l)) =>
       call[k].items \cap call[l].items = {}

\* A tag that was looked up, and is still there, is of the workspace it was looked up in.
TagsFound ==
  \A k \in Calls : \A g \in call[k].ids :
    g \in used /\ (g \in Stored => tag[g].ws = Home[call[k].seen[call[k].now]])

RowInv == RowsKnown /\ TagsOfOneUpdate /\ TagsAtHome

TagInv == RowInv /\ Newcomers /\ TagsFound

LEMMA InitTags == Init => TagInv
<1> SUFFICES ASSUME Init PROVE TagInv
  OBVIOUS
<1>1. PICK q \in Requests, c \in Collections : at = [NotAsked EXCEPT ![q] = c] /\ used = {q}
  BY DEF Init
<1>2. Stored = {} /\ \A p \in Requests : tagged[p] = {} /\ asked[p] = {}
  BY DEF Init, Stored
<1>3. \A p \in Requests : Alive(p) => p \in used
  BY <1>1 DEF Alive, NotAsked
<1>4. \A k \in Calls : ~Saving(k) /\ call[k].ids = {}
  BY DEF Init, Saving, NoCall
<1>5. Newcomers /\ TagsFound
  BY <1>4 DEF Newcomers, TagsFound
<1> QED BY <1>2, <1>3, <1>5 DEF TagInv, RowInv, RowsKnown, TagsOfOneUpdate, TagsAtHome

\* The rows.
LEMMA SameRows ==
  ASSUME Shape, RowInv, UNCHANGED <<at, tag, tagged, asked, strays>>, used \subseteq used'
  PROVE  RowInv'
BY DEF RowInv, RowsKnown, TagsOfOneUpdate, TagsAtHome, Stored, Alive

LEMMA WithoutRows ==
  ASSUME Shape, RowInv, NEW gone \in SUBSET Requests, Without(gone), UNCHANGED <<tag, used>>
  PROVE  RowInv' /\ \A q \in Requests : ~Alive(q) => at'[q] = Nowhere
<1>1. \A q \in Requests :
        /\ at'[q] = (IF q \in gone THEN Nowhere ELSE at[q])
        /\ tagged'[q] = (IF q \in gone THEN {} ELSE tagged[q])
        /\ asked'[q] = (IF q \in gone THEN {} ELSE asked[q])
        /\ q \in strays' <=> q \in strays /\ q \notin gone
  BY DEF Without
<1>2. Stored' = Stored
  BY DEF Stored
<1>3. RowsKnown'
  BY <1>1, <1>2 DEF RowInv, RowsKnown, Alive
<1>4. TagsOfOneUpdate'
  BY <1>1, <1>2 DEF RowInv, TagsOfOneUpdate
<1>5. TagsAtHome'
  BY <1>1 DEF RowInv, TagsAtHome
<1> QED BY <1>1, <1>3, <1>4, <1>5 DEF RowInv, Alive

\* Ids are not used again, so that nobody asked for a new tag.
LEMMA NewTagRows ==
  ASSUME Shape, RowInv, NEW g \in Tags, NEW ws \in Workspaces, NEW name \in Names,
         g \notin used, used' = used \cup {g},
         tag' = [tag EXCEPT ![g] = [ws |-> ws, name |-> name]],
         UNCHANGED <<at, tagged, asked, strays>>
  PROVE  RowInv'
<1>1. Stored' = Stored \cup {g} /\ \A h \in Tags \ {g} : tag'[h] = tag[h]
  BY NewTagShape
<1>2. \A q \in Requests : g \notin asked[q] /\ g \notin tagged[q]
  BY DEF RowInv, RowsKnown, TagsOfOneUpdate
<1>3. RowsKnown'
  BY <1>1 DEF RowInv, RowsKnown, Alive
<1>4. TagsOfOneUpdate'
  BY <1>1, <1>2 DEF RowInv, TagsOfOneUpdate
<1>5. TagsAtHome'
  BY <1>1, <1>2 DEF RowInv, TagsAtHome, Shape, TypeOK, Stored
<1> QED BY <1>3, <1>4, <1>5 DEF RowInv

\* A tag that is renamed stays in its workspace.
LEMMA RenamedTag ==
  ASSUME Shape, NEW g \in Tags, NEW name \in Names, RenameTag(g, name)
  PROVE  Stored' = Stored /\ \A h \in Tags : h \in Stored => tag'[h].ws = tag[h].ws
<1>1. tag[g] \in [ws : Workspaces, name : Names] /\ g \in Stored
  BY DEF RenameTag, Stored, Shape, TypeOK
<1>2. [tag[g] EXCEPT !.name = name] = [ws |-> tag[g].ws, name |-> name]
  BY <1>1
<1>3. tag' = [tag EXCEPT ![g] = [tag[g] EXCEPT !.name = name]]
  BY DEF RenameTag
<1>4. tag' = [tag EXCEPT ![g] = [ws |-> tag[g].ws, name |-> name]]
  BY <1>2, <1>3
<1>5. Stored' = Stored \cup {g} /\ tag'[g].ws = tag[g].ws
        /\ \A h \in Tags \ {g} : tag'[h] = tag[h]
  BY <1>1, <1>4, NewTagShape
<1> QED BY <1>1, <1>5

LEMMA RenameTagRows ==
  ASSUME Shape, RowInv, NEW g \in Tags, NEW name \in Names, RenameTag(g, name)
  PROVE  RowInv'
<1>1. Stored' = Stored /\ \A h \in Tags : h \in Stored => tag'[h].ws = tag[h].ws
  BY RenamedTag
<1>2. UNCHANGED <<at, tagged, used, asked, strays>>
  BY DEF RenameTag
<1>3. TagsAtHome'
  BY <1>1, <1>2 DEF RowInv, TagsAtHome, TagsOfOneUpdate, Stored
<1> QED BY <1>1, <1>2, <1>3 DEF RowInv, RowsKnown, TagsOfOneUpdate, Alive

LEMMA DeleteTagRows ==
  ASSUME Shape, RowInv, NEW g \in Tags, DeleteTag(g)
  PROVE  RowInv' /\ Stored' = Stored \ {g} /\ \A h \in Tags \ {g} : tag'[h] = tag[h]
<1>1. Stored' = Stored \ {g} /\ \A h \in Tags \ {g} : tag'[h] = tag[h]
  BY DEF DeleteTag, Stored, Shape, TypeOK
<1>2. UNCHANGED <<at, used, asked, strays>> /\ \A q \in Requests : tagged'[q] = tagged[q] \ {g}
  BY DEF DeleteTag
<1>3. RowsKnown'
  BY <1>1, <1>2 DEF RowInv, RowsKnown, Alive
<1>4. TagsOfOneUpdate'
  BY <1>1, <1>2 DEF RowInv, TagsOfOneUpdate
<1>5. TagsAtHome'
  BY <1>1, <1>2 DEF RowInv, TagsAtHome, TagsOfOneUpdate, Stored
<1> QED BY <1>1, <1>3, <1>4, <1>5 DEF RowInv

\* The request that is saved is new and has no tags.
LEMMA SaveRows ==
  ASSUME Shape, RowInv, Newcomers, NEW k \in Calls, Save(k)
  PROVE  /\ RowInv'
         /\ \A l \in Calls \ {k} : Saving(l) => \A p \in call[l].items : at'[p] = Nowhere
<1>1. PICK q \in call[k].items :
        at' = IF call[k].to[q] \in collections THEN [at EXCEPT ![q] = call[k].to[q]] ELSE at
  BY DEF Save
<1>2. Saving(k) /\ q \in Requests /\ ~Alive(q) /\ q \in used /\ tagged[q] = {}
  BY <1>1, CallFields DEF Save, Saving, Newcomers, RowInv, RowsKnown
<1>3. UNCHANGED <<tag, tagged, used, asked, strays>> /\ \A p \in Requests \ {q} : at'[p] = at[p]
  BY <1>1, <1>2 DEF Save, Shape, TypeOK
<1>4. RowInv'
  BY <1>2, <1>3 DEF RowInv, RowsKnown, TagsOfOneUpdate, TagsAtHome, Stored, Alive
<1>5. ASSUME NEW l \in Calls \ {k}, Saving(l), NEW p \in call[l].items PROVE at'[p] = Nowhere
  <2>1. p # q /\ ~Alive(p) /\ p \in Requests
    BY <1>1, <1>2, <1>5, CallFields DEF Newcomers
  <2> QED BY <1>3, <2>1 DEF Alive
<1> QED BY <1>4, <1>5

\* Who moves to another workspace strays.
LEMMA PutRows ==
  ASSUME Shape, RowInv, NEW k \in Calls, Put(k)
  PROVE  RowInv' /\ \A q \in Requests : ~Alive(q) => at'[q] = Nowhere
<1> DEFINE c == call[k]
           Target(q) == IF c.to[q] = Nowhere THEN at[q] ELSE c.to[q]
<1>1. c.items \subseteq Requests /\ UNCHANGED <<tag, tagged, used, asked>>
  BY CallFields DEF Put
<1>2. CASE \A q \in c.items : Alive(q) /\ Target(q) \in collections
  <2>1. /\ at' = [q \in Requests |-> IF q \in c.items THEN Target(q) ELSE at[q]]
        /\ strays' = strays \cup {q \in c.items : Home[Target(q)] # Home[at[q]]}
    BY <1>2 DEF Put
  <2>2. \A q \in Requests : Alive(q)' <=> Alive(q)
    BY <1>1, <1>2, <2>1 DEF Alive, Shape, TypeOK
  <2>3. \A q \in Requests \ strays' : q \notin strays /\ Home[at'[q]] = Home[at[q]]
    BY <1>1, <1>2, <2>1
  <2>4. TagsAtHome'
    BY <1>1, <2>3 DEF RowInv, TagsAtHome
  <2> QED BY <1>1, <2>2, <2>4 DEF RowInv, RowsKnown, TagsOfOneUpdate, Stored, Alive
<1>3. CASE ~(\A q \in c.items : Alive(q) /\ Target(q) \in collections)
  <2>1. UNCHANGED <<at, strays>>
    BY <1>3 DEF Put
  <2> QED BY <1>1, <2>1, SameRows DEF Alive
<1> QED BY <1>2, <1>3

\* What an update writes was found in the workspace that it found the request in.
LEMMA ReplaceTagsRows ==
  ASSUME Shape, RowInv, TagsFound, NEW k \in Calls, ReplaceTags(k)
  PROVE  RowInv'
<1> DEFINE q == call[k].now  ids == call[k].ids
<1>1. q \in Requests /\ ids \subseteq Tags /\ UNCHANGED <<at, tag, used>>
  BY CallFields DEF ReplaceTags
<1>2. CASE Alive(q) /\ ids \subseteq Stored
  <2>1. /\ tagged' = [tagged EXCEPT ![q] = ids] /\ asked' = [asked EXCEPT ![q] = ids]
        /\ strays' = IF Home[at[q]] = Home[call[k].seen[q]] THEN strays \ {q}
                     ELSE strays \cup {q}
    BY <1>2 DEF ReplaceTags
  <2>2. /\ tagged'[q] = ids /\ asked'[q] = ids
        /\ \A p \in Requests \ {q} : tagged'[p] = tagged[p] /\ asked'[p] = asked[p]
    BY <1>1, <2>1 DEF Shape, TypeOK
  <2>3. \A g \in ids : g \in used /\ tag[g].ws = Home[call[k].seen[q]]
    BY <1>2 DEF TagsFound
  <2>4. RowsKnown'
    BY <1>1, <1>2, <2>2, <2>3 DEF RowInv, RowsKnown, Alive, Stored
  <2>5. TagsOfOneUpdate'
    BY <1>1, <1>2, <2>2 DEF RowInv, TagsOfOneUpdate, Stored
  <2>6. TagsAtHome'
    <3> SUFFICES ASSUME NEW p \in Requests \ strays', NEW g \in tagged'[p]
                 PROVE  tag[g].ws = Home[at[p]]
      BY <1>1 DEF TagsAtHome
    <3>1. CASE p = q
      BY <2>1, <2>2, <2>3, <3>1
    <3>2. CASE p # q
      <4>1. p \notin strays
        BY <2>1, <3>2
      <4> QED BY <2>2, <3>2, <4>1 DEF RowInv, TagsAtHome
    <3> QED BY <3>1, <3>2
  <2> QED BY <2>4, <2>5, <2>6 DEF RowInv
<1>3. CASE ~(Alive(q) /\ ids \subseteq Stored)
  <2>1. UNCHANGED <<tagged, asked, strays>>
    BY <1>3 DEF ReplaceTags
  <2> QED BY <1>1, <2>1, SameRows
<1> QED BY <1>2, <1>3

\* The calls.
LEMMA KeptNewcomers ==
  ASSUME Shape, Newcomers, NEW k \in Calls, \A l \in Calls \ {k} : call'[l] = call[l],
         used \subseteq used',
         \A l \in Calls \ {k} : Saving(l) => \A q \in call[l].items : at'[q] = Nowhere,
         Saving(k)' => /\ Saving(k) /\ call'[k].items = call[k].items
                       /\ \A q \in call[k].items : at'[q] = Nowhere
  PROVE  Newcomers'
<1>1. \A l \in Calls : Saving(l)' => /\ Saving(l) /\ call'[l].items = call[l].items
                                    /\ \A q \in call[l].items : at'[q] = Nowhere
  BY DEF Saving
<1> QED BY <1>1 DEF Newcomers, Alive

LEMMA KeptTags ==
  ASSUME Shape, TagsFound, NEW k \in Calls, \A l \in Calls \ {k} : call'[l] = call[l],
         used \subseteq used', call'[k].ids = {},
         \A g \in Tags : (g \in used /\ g \in Stored') => g \in Stored /\ tag'[g].ws = tag[g].ws
  PROVE  TagsFound'
<1> SUFFICES ASSUME NEW l \in Calls, NEW g \in call'[l].ids
             PROVE  g \in used' /\ (g \in Stored' => tag'[g].ws = Home[call'[l].seen[call'[l].now]])
  BY DEF TagsFound
<1>1. l # k /\ g \in call[l].ids /\ g \in Tags
  BY CallFields
<1> QED BY <1>1 DEF TagsFound

LEMMA EndIsNoCall == ASSUME Shape, NEW k \in Calls, End(k) PROVE call'[k] = NoCall
BY DEF End, Shape, TypeOK

\* Until it writes, a call keeps its kind and its items, and knows no tags.
LEMMA Onward ==
  ASSUME Shape, NEW k \in Calls, Find(k) \/ Check(k) \/ CheckTarget(k) \/ Stop(k)
  PROVE  \/ call'[k] = NoCall
         \/ /\ call[k].step \notin {"idle", "write"} /\ call'[k].kind = call[k].kind
            /\ call'[k].items = call[k].items /\ call'[k].ids = call[k].ids
<1> DEFINE c == call[k]
           Same(d) == d.kind = c.kind /\ d.items = c.items /\ d.ids = c.ids
<1>1. c \in Call
  BY CallFields
<1>2. \A d : Advance(k, d) => call'[k] = d
  BY DEF Advance, Shape, TypeOK
<1>3. \A ws : Same(Checked(c, ws)) /\ Same([Checked(c, ws) EXCEPT !.step = "target"])
  BY <1>1 DEF Checked, Call
<1>4. CASE Find(k)
  <2>1. \A q : Same([c EXCEPT !.step = "check", !.now = q, !.seen[q] = at[q], !.todo = @ \ {q}])
    BY <1>1 DEF Call
  <2> QED BY <1>2, <1>4, <2>1, EndIsNoCall DEF Find
<1>5. CASE Check(k)
  BY <1>2, <1>3, <1>5 DEF Check
<1>6. CASE CheckTarget(k)
  BY <1>2, <1>3, <1>6 DEF CheckTarget
<1>7. CASE Stop(k)
  BY <1>7, EndIsNoCall DEF Stop, Refuse
<1> QED BY <1>4, <1>5, <1>6, <1>7

\* The steps that are not about tags or rows.
LEMMA QuietStep ==
  ASSUME IInv, TagInv, NEW k \in Calls, Serve(k), ~Write(k)
  PROVE  TagInv'
<1>1. /\ Shape /\ RowInv /\ Newcomers /\ TagsFound /\ Progress(call[k])
      /\ call' \in [Calls -> Call] /\ Progress(call'[k])
  BY ServeStep DEF IInv, TagInv, CallsProgress
<1>2. \A l \in Calls \ {k} : call'[l] = call[l]
  BY <1>1
     DEF Serve, BeginSave, BeginPut, Begin, Find, Check, CheckTarget, Stop, Refuse, Write,
              End, Advance, Shape, TypeOK
<1>3. UNCHANGED <<collections, at, tag, tagged, shared, asked, strays>> /\ used \subseteq used'
  BY
     DEF Serve, BeginSave, BeginPut, Begin, Find, Check, CheckTarget, Stop, Refuse, Write,
         rows
<1>4. RowInv'
  BY <1>1, <1>3, SameRows
<1>5. call'[k].ids = {}
  <2>1. CASE Find(k) \/ Check(k) \/ CheckTarget(k) \/ Stop(k)
    BY <1>1, <2>1, Onward DEF Progress, NoCall
  <2>2. CASE \E q \in Requests, c \in Collections : BeginSave(k, q, c)
    BY <1>1, <2>2 DEF BeginSave, Advance, NoCall, Shape, TypeOK
  <2>3. ASSUME NEW items \in SUBSET Requests, NEW to \in [items -> Collections \cup {Nowhere}],
               BeginPut(k, items, to)
        PROVE  call'[k].ids = {}
    BY <1>1, <2>3 DEF BeginPut, Advance, NoCall, Shape, TypeOK
  <2>4. CASE \E kind \in Kind, q \in Requests, names \in SUBSET Names : Begin(k, kind, q, names)
    BY <1>1, <2>4 DEF Begin, Advance, NoCall, Shape, TypeOK
  <2> QED BY <2>1, <2>2, <2>3, <2>4 DEF Serve
<1>6. TagsFound'
  BY <1>1, <1>2, <1>3, <1>5, KeptTags DEF Stored
<1>7. Newcomers'
  <2>1. CASE Saving(k)' => Saving(k) /\ call'[k].items = call[k].items
    <3>1. \A l \in Calls : Saving(l) => \A q \in call[l].items : at'[q] = Nowhere
      BY <1>1, <1>3 DEF Newcomers, Alive
    <3> QED BY <1>1, <1>2, <1>3, <2>1, <3>1, KeptNewcomers
  <2>2. ASSUME NEW q \in Requests, NEW c \in Collections, BeginSave(k, q, c) PROVE Newcomers'
    <3>1. call'[k].items = {q} /\ q \notin used /\ used' = used \cup {q}
      BY <1>1, <2>2 DEF BeginSave, Advance, NoCall, Shape, TypeOK
    <3>2. \A l \in Calls \ {k} : (Saving(l)' <=> Saving(l)) /\ call'[l].items = call[l].items
      BY <1>2 DEF Saving
    <3>3. at'[q] = Nowhere
      BY <1>1, <1>3, <3>1 DEF RowInv, RowsKnown, Alive
    <3>4. \A l \in Calls \ {k} : Saving(l) => q \notin call[l].items
      BY <1>1, <3>1 DEF Newcomers
    <3>5. ASSUME NEW l \in Calls, Saving(l)', NEW p \in call'[l].items PROVE ~Alive(p)' /\ p \in used'
      BY <1>1, <1>3, <3>1, <3>2, <3>3, <3>5 DEF Newcomers, Alive
    <3>6. ASSUME NEW l \in Calls, NEW m \in Calls, l # m, Saving(l)', Saving(m)'
          PROVE  call'[l].items \cap call'[m].items = {}
      BY <1>1, <3>1, <3>2, <3>4, <3>6 DEF Newcomers
    <3> QED BY <3>5, <3>6 DEF Newcomers
  <2>3. ASSUME call'[k].kind # "save" PROVE Newcomers'
    BY <2>1, <2>3 DEF Saving
  <2>4. CASE Find(k) \/ Check(k) \/ CheckTarget(k) \/ Stop(k)
    <3>1. Saving(k)' => Saving(k) /\ call'[k].items = call[k].items
      BY <1>1, <2>4, Onward DEF Saving, NoCall
    <3> QED BY <2>1, <3>1
  <2>5. ASSUME NEW items \in SUBSET Requests, NEW to \in [items -> Collections \cup {Nowhere}],
               BeginPut(k, items, to)
        PROVE  Newcomers'
    <3>1. call'[k].kind = "put"
      BY <1>1, <2>5 DEF BeginPut, Advance, NoCall, Shape, TypeOK
    <3> QED BY <2>3, <3>1
  <2>6. ASSUME NEW kind \in Kind, NEW q \in Requests, NEW names \in SUBSET Names,
               Begin(k, kind, q, names)
        PROVE  Newcomers'
    <3>1. call'[k].kind # "save"
      BY <1>1, <2>6 DEF Begin, Advance, NoCall, Shape, TypeOK
    <3> QED BY <2>3, <3>1
  <2> QED BY <2>2, <2>4, <2>5, <2>6 DEF Serve
<1> QED BY <1>4, <1>6, <1>7 DEF TagInv

\* The steps that write, and end the call, but for the upsert of one tag.
LEMMA EndedTags ==
  ASSUME Shape, Newcomers, TagsFound, NEW k \in Calls, End(k), UNCHANGED <<tag, used>>,
         \A l \in Calls \ {k} : Saving(l) => \A q \in call[l].items : at'[q] = Nowhere
  PROVE  Newcomers' /\ TagsFound'
<1>1. call'[k] = NoCall /\ \A l \in Calls \ {k} : call'[l] = call[l]
  BY EndIsNoCall DEF End, Shape, TypeOK
<1>2. ~Saving(k)' /\ call'[k].ids = {}
  BY <1>1 DEF Saving, NoCall
<1>3. Newcomers'
  BY <1>1, <1>2, KeptNewcomers
<1>4. TagsFound'
  BY <1>1, <1>2, KeptTags DEF Stored
<1> QED BY <1>3, <1>4

LEMMA UpsertTags ==
  ASSUME IInv, TagInv, NEW k \in Calls, Upsert(k)
  PROVE  TagInv'
<1> DEFINE c == call[k]
           ws == Home[c.seen[c.now]]
<1>1. Shape /\ RowInv /\ Newcomers /\ TagsFound /\ Progress(c)
  BY DEF IInv, TagInv, CallsProgress
<1>2. PICK name \in Names, g \in Tags :
        /\ call'[k] = [c EXCEPT !.names = @ \ {name}, !.ids = @ \cup {g}]
        /\ \/ g \in Stored /\ tag[g].ws = ws /\ UNCHANGED <<tag, used>>
           \/ /\ g \notin used /\ used' = used \cup {g} /\ ws \in Workspaces
              /\ tag' = [tag EXCEPT ![g] = [ws |-> ws, name |-> name]]
  BY <1>1, UpsertStep
<1>3. UNCHANGED <<collections, at, tagged, shared, asked, strays>>
  BY DEF Upsert
<1>4. /\ call'[k].kind = "tags" /\ call'[k].ids = c.ids \cup {g}
      /\ call'[k].seen = c.seen /\ call'[k].now = c.now
  BY <1>1, <1>2, CallFields DEF Upsert, Call
<1>5. \A l \in Calls \ {k} : call'[l] = call[l]
  BY <1>1 DEF Upsert, Advance, Shape, TypeOK
<1>6. used \subseteq used' /\ g \in used'
  BY <1>1, <1>2 DEF RowInv, RowsKnown
<1>7. RowInv'
  BY <1>1, <1>2, <1>3, SameRows, NewTagRows
<1>8. /\ tag'[g].ws = ws
      /\ \A h \in Tags : (h \in used /\ h \in Stored') => h \in Stored /\ tag'[h].ws = tag[h].ws
  <2>1. CASE g \in Stored /\ tag[g].ws = ws /\ UNCHANGED <<tag, used>>
    BY <2>1 DEF Stored
  <2>2. CASE /\ g \notin used /\ used' = used \cup {g} /\ ws \in Workspaces
             /\ tag' = [tag EXCEPT ![g] = [ws |-> ws, name |-> name]]
    <3>1. /\ Stored' = Stored \cup {g} /\ tag'[g].ws = ws
          /\ \A h \in Tags \ {g} : tag'[h] = tag[h]
      BY <1>1, <2>2, NewTagShape
    <3> QED BY <2>2, <3>1
  <2> QED BY <1>2, <2>1, <2>2
<1>9. TagsFound'
  <2> SUFFICES ASSUME NEW l \in Calls, NEW h \in call'[l].ids
               PROVE  h \in used' /\ (h \in Stored' => tag'[h].ws = Home[call'[l].seen[call'[l].now]])
    BY DEF TagsFound
  <2>1. CASE l = k /\ h = g
    BY <1>4, <1>6, <1>8, <2>1
  <2>2. CASE ~(l = k /\ h = g)
    <3>1. h \in call[l].ids /\ h \in Tags
      BY <1>1, <1>4, <1>5, <2>2, CallFields
    <3>2. h \in used /\ (h \in Stored => tag[h].ws = Home[call[l].seen[call[l].now]])
      BY <1>1, <3>1 DEF TagsFound
    <3>3. call'[l].seen = call[l].seen /\ call'[l].now = call[l].now
      BY <1>4, <1>5
    <3> QED BY <1>6, <1>8, <3>1, <3>2, <3>3
  <2> QED BY <2>1, <2>2
<1>10. Newcomers'
  <2>1. \A l \in Calls : Saving(l) => \A q \in call[l].items : at'[q] = Nowhere
    BY <1>1, <1>3 DEF Newcomers, Alive
  <2>2. ~Saving(k)'
    BY <1>4 DEF Saving
  <2> QED BY <1>1, <1>5, <1>6, <2>1, <2>2, KeptNewcomers
<1> QED BY <1>7, <1>9, <1>10 DEF TagInv

LEMMA WriteTags ==
  ASSUME IInv, TagInv, NEW k \in Calls, Write(k)
  PROVE  TagInv'
<1>1. Shape /\ RowInv /\ Newcomers /\ TagsFound
  BY DEF IInv, TagInv
<1>2. ASSUME \A q \in Requests : ~Alive(q) => at'[q] = Nowhere
      PROVE  \A l \in Calls \ {k} : Saving(l) => \A q \in call[l].items : at'[q] = Nowhere
  BY <1>1, <1>2, CallFields DEF Newcomers
<1>3. CASE Save(k)
  <2>1. End(k) /\ UNCHANGED <<tag, used>>
    BY <1>3 DEF Save
  <2> QED BY <1>1, <1>3, <2>1, SaveRows, EndedTags DEF TagInv
<1>4. CASE Put(k)
  <2>1. End(k) /\ UNCHANGED <<tag, used>>
    BY <1>4 DEF Put
  <2> QED BY <1>1, <1>2, <1>4, <2>1, PutRows, EndedTags DEF TagInv
<1>5. CASE Delete(k)
  <2>1. End(k) /\ UNCHANGED <<tag, used>> /\ Without(call[k].items)
    BY <1>5 DEF Delete
  <2>2. call[k].items \in SUBSET Requests
    BY <1>1, CallFields
  <2>3. RowInv' /\ \A q \in Requests : ~Alive(q) => at'[q] = Nowhere
    BY <1>1, <2>1, <2>2, WithoutRows
  <2> QED BY <1>1, <1>2, <2>1, <2>3, EndedTags DEF TagInv
<1>6. CASE Share(k)
  <2>1. End(k) /\ UNCHANGED <<at, tag, tagged, used, asked, strays>>
    BY <1>6 DEF Share
  <2>2. RowInv'
    BY <1>1, <2>1, SameRows
  <2> QED BY <1>1, <1>2, <2>1, <2>2, EndedTags DEF TagInv, Alive
<1>7. CASE ReplaceTags(k)
  <2>1. End(k) /\ UNCHANGED <<at, tag, used>>
    BY <1>7 DEF ReplaceTags
  <2>2. RowInv'
    BY <1>1, <1>7, ReplaceTagsRows
  <2> QED BY <1>1, <1>2, <2>1, <2>2, EndedTags DEF TagInv, Alive
<1> QED BY <1>3, <1>4, <1>5, <1>6, <1>7, UpsertTags DEF Write

\* The steps of no call.
LEMMA OtherTags ==
  ASSUME IInv, TagInv, UNCHANGED call, RowInv', used \subseteq used',
         \A q \in Requests : ~Alive(q) => at'[q] = Nowhere,
         \A g \in Tags : (g \in used /\ g \in Stored') => g \in Stored /\ tag'[g].ws = tag[g].ws
  PROVE  TagInv'
<1>1. Newcomers'
  BY CallFields DEF IInv, TagInv, Newcomers, Saving, Alive
<1>2. \A k \in Calls : call[k].ids \subseteq Tags
  BY CallFields DEF IInv
<1>3. TagsFound'
  BY <1>2 DEF TagInv, TagsFound
<1> QED BY <1>1, <1>3 DEF TagInv

LEMMA StepTags == IInv /\ TagInv /\ [Next]_vars => TagInv'
<1> SUFFICES ASSUME IInv, TagInv, [Next]_vars PROVE TagInv'
  OBVIOUS
<1>1. Shape /\ RowInv
  BY DEF IInv, TagInv
<1>2. CASE UNCHANGED vars
  <2>1. RowInv'
    BY <1>1, <1>2, SameRows DEF vars, rows
  <2> QED BY <1>2, <2>1, OtherTags DEF vars, rows, Stored, Alive
<1>3. ASSUME NEW k \in Calls, Serve(k) PROVE TagInv'
  BY <1>3, QuietStep, WriteTags
<1>4. ASSUME NEW g \in Tags, NEW ws \in Workspaces, NEW name \in Names, CreateTag(g, ws, name)
      PROVE  TagInv'
  <2>1. RowInv'
    BY <1>1, <1>4, NewTagRows DEF CreateTag
  <2>2. Stored' = Stored \cup {g} /\ \A h \in Tags \ {g} : tag'[h] = tag[h]
    BY <1>1, <1>4, NewTagShape DEF CreateTag
  <2> QED BY <1>4, <2>1, <2>2, OtherTags DEF CreateTag, Alive
<1>5. ASSUME NEW g \in Tags, NEW name \in Names, RenameTag(g, name) PROVE TagInv'
  BY <1>1, <1>5, RenameTagRows, RenamedTag, OtherTags DEF RenameTag, Alive
<1>6. ASSUME NEW g \in Tags, DeleteTag(g) PROVE TagInv'
  <2>1. RowInv' /\ Stored' = Stored \ {g} /\ \A h \in Tags \ {g} : tag'[h] = tag[h]
    BY <1>1, <1>6, DeleteTagRows
  <2> QED BY <1>6, <2>1, OtherTags DEF DeleteTag, Alive
<1>7. ASSUME NEW c \in Collections, DeleteCollection(c) PROVE TagInv'
  <2> DEFINE gone == {q \in Requests : at[q] = c}
  <2>1. Without(gone) /\ UNCHANGED <<tag, used, call>> /\ gone \in SUBSET Requests
    BY <1>7 DEF DeleteCollection
  <2>2. RowInv' /\ \A q \in Requests : ~Alive(q) => at'[q] = Nowhere
    BY <1>1, <2>1, WithoutRows
  <2> QED BY <2>1, <2>2, OtherTags DEF Stored
<1> QED BY <1>2, <1>3, <1>4, <1>5, <1>6, <1>7 DEF Next

LEMMA TagInvariant == Spec => []TagInv
BY InitTags, StepTags, Invariant, PTL DEF Spec

\* However updates, renames and deletions interleave, a request has the tags of one
\* update, all of them that are left.
THEOREM TagsAreOfOneUpdate == Spec => []TagsOfOneUpdate
<1>1. TagInv => TagsOfOneUpdate
  BY DEF TagInv, RowInv
<1> QED BY <1>1, TagInvariant, PTL

\* A request has no tags of another workspace, unless it was moved there since the
\* update that wrote them found it.
THEOREM TagsStayAtHome == Spec => []TagsAtHome
<1>1. TagInv => TagsAtHome
  BY DEF TagInv, RowInv
<1> QED BY <1>1, TagInvariant, PTL

-----------------------------------------------------------------------------
(***************************************************************************)
(* The import of folders: for a file of any length, the passes create      *)
(* exactly what hangs from the root, in an order that has parents first,   *)
(* and as many passes as the code allows are enough.                       *)
(***************************************************************************)
Phase == {"folders", "collection", "request", "done", "invalid parents", "unknown collection"}
Failing == {"invalid parents", "unknown collection"}

FileKeys == {key[i] : i \in Import!Places}
CreatedKeys == {key[created[j]] : j \in 1 .. Len(created)}

\* What the code asks of a folder before it creates it.
Creatable(i) == key[i] \in remaining /\ parent[i] \in Import!Mapped \cup {Root}

Shapes ==
  /\ key \in [Import!Places -> Import!Keys] /\ parent \in [Import!Places -> Ids \cup {Root}]
  /\ created \in Seq(Import!Places) /\ phase \in Phase
  /\ guard \in 1 .. Import!Passes /\ next \in 1 .. Length + 1
  /\ folder \in Ids \cup {Root}

\* Every key is created or remains, and each creation leaves one fewer to create.
Accounts ==
  /\ CreatedKeys \cup remaining = FileKeys
  /\ CreatedKeys \cap remaining = {}
  /\ IsFiniteSet(remaining) /\ Len(created) + Cardinality(remaining) <= Length

\* What ImportExact asks of the folders created, said of any moment.
Ordered ==
  \A j \in 1 .. Len(created) :
    /\ created[j] \in Import!Rooted
    /\ \A k \in 1 .. j - 1 : key[created[k]] # key[created[j]]
    /\ parent[created[j]] = Root \/ \E k \in 1 .. j - 1 :
                                       key[created[k]] = parent[created[j]]

\* Every pass but the present one has created a folder, and the present one has too
\* or has come across none it could create; or nothing can be created any more.
Searching ==
  \/ \A i \in Import!Places : ~Creatable(i)
  \/ Len(created) >= guard
  \/ Len(created) >= guard - 1 /\ \A i \in Import!Places : i < next => ~Creatable(i)

ImportInv ==
  /\ Shapes
  /\ phase \notin Failing => Accounts /\ Ordered
  /\ phase = "folders" => Searching /\ folder = Root
  /\ phase \in {"collection", "request", "done"} =>
       /\ remaining = {}
       /\ folder = Root \/ \E j \in 1 .. Len(created) : key[created[j]] = folder
  /\ phase \in Failing => created = <<>>
  /\ phase = "invalid parents" => {key[i] : i \in Import!Rooted} # FileKeys

\* A list has no more keys than places.
LEMMA KeysCounted ==
  ASSUME Import!ImportAssumption, key \in [Import!Places -> Import!Keys]
  PROVE  IsFiniteSet(FileKeys) /\ Cardinality(FileKeys) <= Length
<1>1. Length \in Nat /\ IsFiniteSet(Import!Places) /\ Cardinality(Import!Places) = Length
  BY FS_Interval DEF Import!ImportAssumption, Import!Places
<1>2. [i \in Import!Places |-> key[i]] \in Surjection(Import!Places, FileKeys)
  BY DEF Surjection, FileKeys
<1> QED BY <1>1, <1>2, FS_Surjection

LEMMA ImportInvInit == ASSUME Import!ImportAssumption, Import!Init PROVE ImportInv
<1>1. Length \in Nat /\ created = <<>> /\ Len(created) = 0 /\ remaining = FileKeys
  BY DEF Import!ImportAssumption, Import!Init, FileKeys
<1>2. Shapes
  BY <1>1 DEF Import!Init, Shapes, Phase, Import!Passes
<1>3. Accounts
  <2>1. CreatedKeys = {}
    BY <1>1 DEF CreatedKeys
  <2>2. IsFiniteSet(FileKeys) /\ Cardinality(FileKeys) <= Length /\ Cardinality(FileKeys) \in Nat
    BY <1>2, KeysCounted, FS_CardinalityType DEF Shapes
  <2> QED BY <1>1, <2>1, <2>2 DEF Accounts
<1>4. Ordered
  BY <1>1 DEF Ordered
<1>5. Searching
  BY <1>1 DEF Import!Init, Searching, Import!Places
<1> QED BY <1>2, <1>3, <1>4, <1>5 DEF ImportInv, Import!Init, Failing

\* What hangs from the root does so whatever has been created.
LEMMA RootedStays == ASSUME UNCHANGED Import!file PROVE Import!Rooted' = Import!Rooted
BY DEF Import!file, Import!Rooted, Import!Places

LEMMA SoundStays ==
  ASSUME Accounts, Ordered, UNCHANGED <<key, parent, remaining, created>>
  PROVE  Accounts' /\ Ordered'
<1>1. Import!Rooted' = Import!Rooted
  BY RootedStays DEF Import!file
<1>2. FileKeys' = FileKeys /\ CreatedKeys' = CreatedKeys
  BY DEF FileKeys, CreatedKeys, Import!Places
<1>3. Accounts'
  BY <1>2 DEF Accounts
<1>4. Ordered'
  BY <1>1 DEF Ordered
<1> QED BY <1>3, <1>4

\* A folder whose parent has been created hangs from the root.
LEMMA RootedGrows ==
  ASSUME Shapes, Ordered, NEW i \in Import!Places, parent[i] \in Import!Mapped \cup {Root}
  PROVE  i \in Import!Rooted
<1> DEFINE Closed(S) == \A p \in Import!Places :
             (parent[p] = Root \/ parent[p] \in {key[j] : j \in S} \cap Ids) => p \in S
<1>1. SUFFICES ASSUME NEW S \in SUBSET Import!Places, Closed(S) PROVE i \in S
  BY DEF Import!Rooted
<1>2. CASE parent[i] = Root
  BY <1>1, <1>2
<1>3. CASE parent[i] \in Import!Mapped
  <2>1. PICK j \in 1 .. Len(created) : key[created[j]] = parent[i] /\ parent[i] \in Ids
    BY <1>3 DEF Import!Mapped
  <2>2. created[j] \in S
    BY <1>1, <2>1 DEF Ordered, Import!Rooted
  <2> QED BY <1>1, <2>1, <2>2
<1> QED BY <1>2, <1>3

LEMMA VisitKeeps == ASSUME Import!ImportAssumption, ImportInv, Import!Visit PROVE ImportInv'
<1>1. /\ Shapes /\ Accounts /\ Ordered /\ Searching /\ phase = "folders" /\ folder = Root
      /\ Length \in Nat /\ next \in Import!Places /\ next' = next + 1
      /\ UNCHANGED <<key, parent, guard, folder, phase>>
  BY
     DEF Import!Visit, ImportInv, Shapes, Failing, Import!ImportAssumption, Import!Places,
         Import!file
<1>2. UNCHANGED <<FileKeys, Import!Rooted>>
  BY <1>1, RootedStays DEF FileKeys, Import!file, Import!Places
<1>3. CASE Creatable(next)
  <2> DEFINE n == Len(created)
  <2>1. created' = Append(created, next) /\ remaining' = remaining \ {key[next]}
    BY <1>3 DEF Import!Visit, Creatable
  <2>2. /\ n \in Nat /\ Len(created') = n + 1 /\ created' \in Seq(Import!Places)
        /\ created'[n + 1] = next /\ \A j \in 1 .. n : created'[j] = created[j]
    BY <1>1, <2>1 DEF Shapes
  <2>3. Shapes'
    BY <1>1, <2>2 DEF Shapes, Import!Places
  <2>4. CreatedKeys' = CreatedKeys \cup {key[next]}
    <3>1. 1 .. Len(created') = (1 .. n) \cup {n + 1}
      BY <2>2
    <3> QED BY <1>1, <2>2, <3>1 DEF CreatedKeys
  <2>5. key[next] \in remaining /\ key[next] \notin CreatedKeys
    BY <1>1, <1>3 DEF Creatable, Accounts
  <2>6. Accounts'
    <3>1. Cardinality(remaining) \in Nat /\ IsFiniteSet(remaining')
          /\ Cardinality(remaining') = Cardinality(remaining) - 1
      BY <1>1, <2>1, <2>5, FS_RemoveElement, FS_CardinalityType DEF Accounts
    <3>2. Len(created') + Cardinality(remaining') <= Length
      BY <1>1, <2>2, <3>1 DEF Accounts
    <3> QED BY <1>1, <1>2, <2>1, <2>4, <2>5, <3>1, <3>2 DEF Accounts
  <2>7. Ordered'
    <3> SUFFICES ASSUME NEW j \in 1 .. n + 1
                 PROVE  /\ created'[j] \in Import!Rooted
                        /\ \A k \in 1 .. j - 1 : key[created'[k]] # key[created'[j]]
                        /\ parent[created'[j]] = Root \/ \E k \in 1 .. j - 1 :
                              key[created'[k]] = parent[created'[j]]
      BY <1>1, <1>2, <2>2 DEF Ordered
    <3>1. CASE j \in 1 .. n
      <4>1. created'[j] = created[j] /\ \A k \in 1 .. j - 1 : created'[k] = created[k]
        BY <2>2, <3>1
      <4> QED BY <1>1, <3>1, <4>1 DEF Ordered
    <3>2. CASE j = n + 1
      <4>1. created'[j] = next /\ j - 1 = n
        BY <2>2, <3>2
      <4>2. next \in Import!Rooted
        BY <1>1, <1>3, RootedGrows DEF Creatable
      <4>3. \A k \in 1 .. n : key[created'[k]] # key[next]
        BY <2>2, <2>5 DEF CreatedKeys
      <4>4. parent[next] = Root \/ \E k \in 1 .. n : key[created'[k]] = parent[next]
        BY <1>3, <2>2 DEF Creatable, Import!Mapped
      <4> QED BY <4>1, <4>2, <4>3, <4>4
    <3> QED BY <2>2, <3>1, <3>2
  <2>8. Searching'
    <3>1. n >= guard - 1
      BY <1>1, <1>3, <2>2 DEF Searching, Shapes
    <3> QED BY <1>1, <2>2, <3>1 DEF Searching, Shapes
  <2> QED BY <1>1, <2>3, <2>6, <2>7, <2>8 DEF ImportInv, Failing
<1>4. CASE ~Creatable(next)
  <2>1. UNCHANGED <<created, remaining>>
    BY <1>4 DEF Import!Visit, Creatable
  <2>2. Shapes'
    BY <1>1, <2>1 DEF Shapes, Import!Places
  <2>3. \A i \in Import!Places : Creatable(i)' <=> Creatable(i)
    BY <1>1, <2>1 DEF Creatable, Import!Mapped
  <2>4. \A i \in Import!Places : i < next' => i < next \/ i = next
    BY <1>1 DEF Import!Places
  <2>5. Searching'
    BY <1>1, <1>4, <2>1, <2>3, <2>4 DEF Searching
  <2>6. Accounts' /\ Ordered'
    BY <1>1, <1>2, <2>1 DEF Accounts, Ordered, CreatedKeys
  <2> QED BY <1>1, <2>2, <2>5, <2>6 DEF ImportInv, Failing
<1> QED BY <1>3, <1>4

LEMMA NextPassKeeps == ASSUME Import!ImportAssumption, ImportInv, Import!NextPass PROVE ImportInv'
<1>1. /\ Shapes /\ Accounts /\ Ordered /\ Searching /\ phase = "folders" /\ folder = Root
      /\ Length \in Nat /\ next > Length /\ guard < Import!Passes
      /\ guard' = guard + 1 /\ next' = 1
      /\ UNCHANGED <<key, parent, remaining, created, folder, phase>>
  BY DEF Import!NextPass, ImportInv, Failing, Import!ImportAssumption, Import!file
<1>2. Shapes'
  BY <1>1 DEF Shapes, Import!Passes
<1>3. Accounts' /\ Ordered'
  BY <1>1, SoundStays
<1>4. \A i \in Import!Places : (Creatable(i)' <=> Creatable(i)) /\ i < next /\ ~(i < next')
  BY <1>1 DEF Creatable, Import!Mapped, Import!Places, Shapes
<1>5. Len(created) \in Nat /\ guard \in Nat
  BY <1>1 DEF Shapes, Import!Passes
<1>6. Searching'
  BY <1>1, <1>4, <1>5 DEF Searching
<1> QED BY <1>1, <1>2, <1>3, <1>6 DEF ImportInv, Failing

\* When no folder can be created any more, those that hang from the root have been.
LEMMA Exhausted ==
  ASSUME Shapes, Accounts, \A i \in Import!Places : ~Creatable(i)
  PROVE  \A i \in Import!Rooted : key[i] \notin remaining
<1> DEFINE S == {i \in Import!Places : key[i] \notin remaining}
<1>1. ASSUME NEW i \in Import!Places,
             parent[i] = Root \/ parent[i] \in {key[j] : j \in S} \cap Ids
      PROVE  i \in S
  <2>1. CASE parent[i] = Root
    BY <2>1 DEF Creatable
  <2>2. CASE parent[i] \in {key[j] : j \in S} \cap Ids
    <3>1. PICK j \in S : key[j] = parent[i]
      BY <2>2
    <3>2. key[j] \in CreatedKeys
      BY <3>1 DEF Accounts, FileKeys
    <3>3. parent[i] \in Import!Mapped
      BY <2>2, <3>1, <3>2 DEF Import!Mapped, CreatedKeys
    <3> QED BY <3>3 DEF Creatable
  <2> QED BY <1>1, <2>1, <2>2
<1>2. S \in SUBSET Import!Places
  OBVIOUS
<1>3. Import!Rooted \subseteq S
  BY <1>1, <1>2 DEF Import!Rooted
<1> QED BY <1>3

LEMMA NoneIsList == ASSUME created' = <<>> PROVE created' \in Seq(Import!Places)
<1>1. \A s : s = <<>> => s \in Seq(Import!Places)
  BY EmptySeq
<1> QED BY <1>1

LEMMA GivesUp == ASSUME Import!ImportAssumption, ImportInv, Import!InvalidParents PROVE ImportInv'
<1>1. /\ Shapes /\ Accounts /\ Searching /\ Length \in Nat
      /\ next > Length /\ remaining # {} /\ guard = Length + 5
  BY DEF Import!InvalidParents, ImportInv, Failing, Import!ImportAssumption, Import!Passes
<1>2. UNCHANGED <<key, parent, remaining, guard, next>>
  BY DEF Import!InvalidParents, Import!Abort, Import!file
<1>3. Len(created) <= Length /\ Len(created) \in Nat
  <2>1. Cardinality(remaining) \in Nat
    BY <1>1, FS_CardinalityType DEF Accounts
  <2>2. Len(created) \in Nat
    BY <1>1 DEF Shapes
  <2> QED BY <1>1, <2>1, <2>2 DEF Accounts
<1>4. \A i \in Import!Places : ~Creatable(i)
  <2>1. \A i \in Import!Places : i < next
    BY <1>1 DEF Import!Places, Shapes
  <2>2. ~(Len(created) >= guard) /\ ~(Len(created) >= guard - 1)
    BY <1>1, <1>3
  <2> QED BY <1>1, <2>1, <2>2 DEF Searching
<1>5. PICK k \in remaining : k \in FileKeys
  BY <1>1 DEF Accounts
<1>6. k \notin {key[i] : i \in Import!Rooted}
  BY <1>1, <1>4, Exhausted
<1>7. ({key[i] : i \in Import!Rooted} # FileKeys)'
  <2>1. Import!Rooted' = Import!Rooted
    BY <1>2, RootedStays DEF Import!file
  <2> QED BY <1>2, <1>5, <1>6, <2>1 DEF FileKeys, Import!Places
<1>8. created' = <<>> /\ folder' = Root /\ phase' = "invalid parents"
  BY DEF Import!InvalidParents, Import!Abort
<1>9. Shapes'
  <2>1. created' \in Seq(Import!Places)
    BY <1>8, NoneIsList
  <2> QED BY <1>1, <1>2, <1>8, <2>1 DEF Shapes, Phase, Import!Places, Import!Passes
<1> QED BY <1>7, <1>8, <1>9 DEF ImportInv, Failing

LEMMA RestKeeps ==
  ASSUME Import!ImportAssumption, ImportInv,
         \/ Import!FoldersDone
         \/ \E folderId \in Ids \cup {Root}, exists \in BOOLEAN : Import!Collection(folderId, exists)
         \/ \E known \in BOOLEAN : Import!Request(known)
  PROVE  ImportInv'
<1>1. CASE Import!FoldersDone
  <2>1. /\ phase = "folders" /\ phase' = "collection" /\ remaining = {} /\ folder = Root
        /\ UNCHANGED <<key, parent, remaining, created, guard, next, folder>>
    BY <1>1 DEF Import!FoldersDone, ImportInv, Import!file
  <2>2. Shapes'
    BY <2>1 DEF ImportInv, Shapes, Phase, Import!Passes, Import!Places
  <2>3. Accounts' /\ Ordered'
    BY <2>1, SoundStays DEF ImportInv, Failing
  <2> QED BY <2>1, <2>2, <2>3 DEF ImportInv, Failing
<1>2. ASSUME NEW folderId \in Ids \cup {Root}, NEW exists \in BOOLEAN, Import!Collection(folderId, exists)
      PROVE  ImportInv'
  <2>1. /\ phase = "collection" /\ phase' = "request" /\ remaining = {}
        /\ UNCHANGED <<key, parent, remaining, created, guard, next>>
    BY <1>2 DEF Import!Collection, ImportInv, Import!file
  <2>2. folder' = Root \/ (folder' \in Ids /\ \E j \in 1 .. Len(created) : key[created[j]] = folder')
    BY <1>2 DEF Import!Collection, Import!Mapped
  <2>3. Shapes'
    BY <2>1, <2>2 DEF ImportInv, Shapes, Phase, Import!Passes, Import!Places
  <2>4. Accounts' /\ Ordered'
    BY <2>1, SoundStays DEF ImportInv, Failing
  <2> QED BY <2>1, <2>2, <2>3, <2>4 DEF ImportInv, Failing
<1>3. ASSUME NEW known \in BOOLEAN, Import!Request(known) PROVE ImportInv'
  <2>1. phase = "request" /\ UNCHANGED <<key, parent, remaining, guard, next>>
    BY <1>3 DEF Import!Request, Import!Abort, Import!file
  <2>2. CASE phase' = "done" /\ UNCHANGED <<created, folder>>
    <3>1. Shapes'
      BY <2>1, <2>2 DEF ImportInv, Shapes, Phase, Import!Passes, Import!Places
    <3>2. Accounts' /\ Ordered'
      BY <2>1, <2>2, SoundStays DEF ImportInv, Failing
    <3> QED BY <2>1, <2>2, <3>1, <3>2 DEF ImportInv, Failing
  <2>3. CASE phase' = "unknown collection" /\ created' = <<>> /\ folder' = Root
    <3>1. created' \in Seq(Import!Places)
      BY <2>3, NoneIsList
    <3>2. Shapes'
      BY <2>1, <2>3, <3>1 DEF ImportInv, Shapes, Phase, Import!Passes, Import!Places
    <3> QED BY <2>3, <3>2 DEF ImportInv, Failing
  <2> QED BY <1>3, <2>2, <2>3 DEF Import!Request, Import!Abort
<1> QED BY <1>1, <1>2, <1>3

LEMMA ImportInvStep ==
  ASSUME Import!ImportAssumption, ImportInv, [Import!Next]_(Import!vars)
  PROVE  ImportInv'
<1>1. CASE UNCHANGED Import!vars
  <2>1. UNCHANGED <<key, parent, remaining, created, guard, next, folder, phase>>
    BY <1>1 DEF Import!vars
  <2>2. \A i \in Import!Places : Creatable(i)' <=> Creatable(i)
    BY <2>1 DEF Creatable, Import!Mapped
  <2>3. Searching => Searching'
    BY <2>1, <2>2 DEF Searching
  <2>4. Shapes => Shapes'
    BY <2>1 DEF Shapes, Import!Places, Import!Passes
  <2>5. Accounts /\ Ordered => Accounts' /\ Ordered'
    BY <2>1, SoundStays
  <2>6. Import!Rooted' = Import!Rooted /\ FileKeys' = FileKeys
    BY <2>1, RootedStays DEF Import!file, FileKeys, Import!Places
  <2> QED BY <2>1, <2>3, <2>4, <2>5, <2>6 DEF ImportInv, Failing
<1> QED BY <1>1, VisitKeeps, NextPassKeeps, GivesUp, RestKeeps DEF Import!Next

LEMMA ImportGoesOn ==
  [LibraryNext]_<<part, vars, importVars, postmanVars, openApiVars, curlVars>>
    => [Import!Next]_(Import!vars)
BY DEF LibraryNext, MovesStep, TagsStep, ImportStep, PostmanStep, OpenApiStep, CurlStep,
       importVars, Import!vars

\* However many folders a file has, whatever their order and parents: one folder for
\* every key, parents first, each hanging from the root; the passes give up exactly
\* when some key has no such folder, and then nothing is left behind
\* (import.service.ts: while (remaining.size > 0 && guard < ...)).
THEOREM ImportIsExact == LibrarySpec => []ImportExact
<1>0. Import!ImportAssumption
  BY LibraryAssumption
<1>1. LibraryInit => ImportInv
  BY <1>0, ImportInvInit DEF LibraryInit, ImportInit
<1>2. ImportInv /\ [Import!Next]_(Import!vars) => ImportInv'
  BY <1>0, ImportInvStep
<1>3. ASSUME ImportInv PROVE ImportExact
  <2>1. CASE phase \in {"collection", "request", "done"}
    <3>1. Accounts /\ Ordered /\ remaining = {}
          /\ (folder = Root \/ \E j \in 1 .. Len(created) : key[created[j]] = folder)
      BY <1>3, <2>1 DEF ImportInv, Failing
    <3>2. CreatedKeys = FileKeys
      BY <3>1 DEF Accounts
    <3> QED BY <2>1, <3>1, <3>2
               DEF ImportExact, Import!ImportExact, Ordered, CreatedKeys, FileKeys
  <2>2. CASE phase \notin {"collection", "request", "done"}
    BY <1>3, <2>2 DEF ImportInv, Failing, ImportExact, Import!ImportExact, FileKeys
  <2> QED BY <2>1, <2>2
<1>4. ImportInv => ImportExact
  BY <1>3
<1> QED BY <1>1, <1>2, <1>4, ImportGoesOn, PTL DEF LibrarySpec

(***************************************************************************)
(* Numbers.                                                                *)
(***************************************************************************)

\* Every set of numbers has a least one.
LEMMA LeastOf ==
  ASSUME NEW C \in SUBSET Nat, C # {}
  PROVE  \E n \in C : \A m \in C : n <= m
<1>1. PICK R : IsWellFoundedOn(R, Nat) /\ \A m, n \in Nat : m < n => <<m, n>> \in R
  <2> DEFINE Less == OpToRel(<, Nat)
  <2>1. IsWellFoundedOn(Less, Nat)
    BY NatLessThanWellFounded
  <2>2. \A m, n \in Nat : m < n => <<m, n>> \in Less
    BY DEF OpToRel
  <2> QED BY <2>1, <2>2, Zenon
<1>2. C \subseteq Nat
  OBVIOUS
<1>3. PICK n \in C : \A m \in C : ~(<<m, n>> \in R)
  <2>1. IsWellFoundedOn(R, Nat)
    BY <1>1
  <2> QED BY <1>2, <2>1, WFMin
<1>4. \A m \in C : ~(m < n)
  BY <1>1, <1>2, <1>3, Zenon
<1> QED BY <1>2, <1>4

\* Induction, over the set of numbers of which something holds.
LEMMA Induction ==
  ASSUME NEW S, 0 \in S, \A n \in Nat : n \in S => n + 1 \in S
  PROVE  \A n \in Nat : n \in S
<1> SUFFICES ASSUME Nat \ S # {} PROVE FALSE
  OBVIOUS
<1>1. PICK n \in Nat \ S : \A m \in Nat \ S : n <= m
  BY LeastOf
<1>2. n # 0 /\ n - 1 \in Nat /\ n - 1 \in S
  BY <1>1
<1> QED BY <1>2

Turns(N, X) == [1 .. N -> [X -> X]]

Ran(g, N, X, base, turn) ==
  g \in [0 .. N -> X] /\ g[0] = base /\ \A i \in 1 .. N : g[i] = turn[i][g[i - 1]]

\* A loop over 1 .. N, a turn of which is a function, has a result.
LEMMA LoopRuns ==
  ASSUME NEW N \in Nat, NEW X, NEW base \in X, NEW turn \in Turns(N, X)
  PROVE  \E g : Ran(g, N, X, base, turn)
<1> USE DEF Turns
<1> DEFINE Runs(g, n) == /\ g \in [0 .. n -> X] /\ g[0] = base
                         /\ \A i \in 1 .. n : g[i] = turn[i][g[i - 1]]
           S == {n \in Nat : n <= N => \E g : Runs(g, n)}
<1>1. 0 \in S
  <2>1. Runs([i \in 0 .. 0 |-> base], 0)
    OBVIOUS
  <2> QED BY <2>1
<1>2. ASSUME NEW n \in Nat, n \in S PROVE n + 1 \in S
  <2> SUFFICES ASSUME n + 1 <= N PROVE \E g : Runs(g, n + 1)
    OBVIOUS
  <2>1. PICK g : Runs(g, n)
    BY <1>2
  <2> DEFINE h == [i \in 0 .. n + 1 |-> IF i = n + 1 THEN turn[n + 1][g[n]] ELSE g[i]]
  <2>2. g[n] \in X /\ turn[n + 1][g[n]] \in X
    BY <2>1
  <2>3. h \in [0 .. n + 1 -> X] /\ h[0] = base
    BY <2>1, <2>2
  <2>4. ASSUME NEW i \in 1 .. n + 1 PROVE h[i] = turn[i][h[i - 1]]
    <3>1. CASE i = n + 1
      BY <3>1
    <3>2. CASE i # n + 1
      BY <2>1, <3>2
    <3> QED BY <3>1, <3>2
  <2>5. Runs(h, n + 1)
    BY <2>3, <2>4
  <2> QED BY <2>5
<1> HIDE DEF S
<1>3. N \in S
  BY <1>1, <1>2, Induction
<1> QED BY <1>3 DEF S, Ran

(***************************************************************************)
(* A file of Postman's.                                                    *)
(***************************************************************************)

Walk == Postman!WalkItems
Readable == file.info /\ file.schema = "v2" /\ file.listed
Saved == {Postman!SaveInput(k) : k \in 1 .. Len(Walk)}

\* The file, while nobody and while somebody looks at it.
FileIs ==
  /\ file = [x \in DOMAIN file |-> file[x]]
  /\ DOMAIN file = {"info", "schema", "listed", "auth", "items"}
  /\ \E S : file.items \in Seq(S)
  /\ job # Undefined \/ made # <<>> \/ told # <<>> => Readable

\* The import under way has been through the requests before job.at, and has put
\* those saved into the last collection.
JobIs ==
  job # Undefined =>
    /\ job \in [at : Nat, ok : Nat, failed : Nat] /\ job.at <= Len(Walk) + 1
    /\ job.at = 0 => job.ok = 0 /\ job.failed = 0
    /\ job.at > 0 => /\ job.ok + job.failed + 1 = job.at
                     /\ made # <<>> /\ job.ok <= Len(made[Len(made)])
                     /\ \A k \in DOMAIN made[Len(made)] : \E i \in 1 .. job.at - 1 :
                          made[Len(made)][k].item = Walk[i]

MadeIs ==
  /\ made \in Seq(Seq(Saved))
  /\ \A n \in DOMAIN made : \A j, k \in DOMAIN made[n] : j < k => made[n][j].item < made[n][k].item

ToldIs ==
  \A t \in DOMAIN told :
    /\ told[t].ok \in Nat
    /\ ~told[t].error => /\ told[t].of \in DOMAIN made
                         /\ told[t].ok + told[t].failed = Len(Walk)
                         /\ told[t].ok <= Len(made[told[t].of])

PostInv == FileIs /\ JobIs /\ MadeIs /\ ToldIs /\ \E S : told \in Seq(S)

\* The requests are found in the order of the text.
LEMMA WalkIs ==
  ASSUME Len(file.items) \in Nat
  PROVE  /\ Walk \in Seq(Nat)
         /\ \A j, k \in DOMAIN Walk : j < k => Walk[j] < Walk[k]
<1> DEFINE N == Len(file.items)
           Counts(i) == file.items[i].kind = "request" /\ file.items[i].method = "good"
           Loop(f) == f = [i \in 0 .. N |-> IF i = 0 THEN <<>>
                                            ELSE IF Counts(i) THEN Append(f[i - 1], i) ELSE f[i - 1]]
<1>1. Walk = (CHOOSE f : Loop(f))[N]
  BY DEF Walk, Postman!WalkItems
<1> HIDE DEF Counts
<1>2. \E f : Loop(f)
  <2> DEFINE turn == [i \in 1 .. N |-> [s \in Seq(Nat) |-> IF Counts(i) THEN Append(s, i) ELSE s]]
  <2>1. turn \in [1 .. N -> [Seq(Nat) -> Seq(Nat)]]
    OBVIOUS
  <2>2. <<>> \in Seq(Nat)
    OBVIOUS
  <2> HIDE DEF turn
  <2>3. PICK g \in [0 .. N -> Seq(Nat)] :
          g[0] = <<>> /\ \A i \in 1 .. N : g[i] = turn[i][g[i - 1]]
    <3> DEFINE X == Seq(Nat)
               base == <<>>
    <3>1. N \in Nat /\ base \in X /\ turn \in Turns(N, X)
      BY <2>1, <2>2 DEF Turns
    <3> HIDE DEF N, X, base
    <3>2. \E g : Ran(g, N, X, base, turn)
      BY <3>1, LoopRuns
    <3> QED BY <3>2 DEF Ran, X, base
  <2>4. ASSUME NEW i \in 0 .. N
        PROVE  g[i] = IF i = 0 THEN <<>> ELSE IF Counts(i) THEN Append(g[i - 1], i) ELSE g[i - 1]
    <3>1. CASE i = 0
      BY <2>3, <3>1
    <3>2. CASE i # 0
      <4>1. i \in 1 .. N /\ i - 1 \in 0 .. N
        BY <3>2
      <4>2. g[i] = turn[i][g[i - 1]] /\ g[i - 1] \in Seq(Nat)
        BY <2>3, <4>1
      <4> QED BY <3>2, <4>1, <4>2 DEF turn
    <3> QED BY <3>1, <3>2
  <2>5. g = [i \in 0 .. N |-> IF i = 0 THEN <<>> ELSE IF Counts(i) THEN Append(g[i - 1], i) ELSE g[i - 1]]
    BY <2>3, <2>4
  <2> QED BY <2>5
<1>3. PICK f : f = (CHOOSE h : Loop(h)) /\ Loop(f)
  <2> HIDE DEF Loop
  <2> QED BY <1>2
<1>4. f[0] = <<>> /\ \A i \in 1 .. N : f[i] = IF Counts(i) THEN Append(f[i - 1], i) ELSE f[i - 1]
  <2>1. ASSUME NEW i \in 0 .. N
        PROVE  f[i] = IF i = 0 THEN <<>> ELSE IF Counts(i) THEN Append(f[i - 1], i) ELSE f[i - 1]
    BY <1>3
  <2> HIDE DEF Loop
  <2>2. 0 \in 0 .. N /\ \A i \in 1 .. N : i \in 0 .. N /\ i # 0
    OBVIOUS
  <2> QED BY <2>1, <2>2
<1> HIDE DEF Loop
<1> DEFINE Good(q, i) == /\ q \in Seq(1 .. i)
                         /\ \A j, k \in DOMAIN q : j < k => q[j] < q[k]
           S == {i \in Nat : i <= N => Good(f[i], i)}
<1>5. 0 \in S
  <2>1. Good(<<>>, 0)
    OBVIOUS
  <2>2. f[0] = <<>>
    BY <1>4
  <2> HIDE DEF Good
  <2> QED BY <2>1, <2>2
<1>6. ASSUME NEW i \in Nat, i \in S PROVE i + 1 \in S
  <2> SUFFICES ASSUME i + 1 <= N PROVE Good(f[i + 1], i + 1)
    OBVIOUS
  <2>1. i + 1 \in 1 .. N /\ (i + 1) - 1 = i /\ i <= N
    OBVIOUS
  <2>2. f[i + 1] = IF Counts(i + 1) THEN Append(f[i], i + 1) ELSE f[i]
    BY <1>4, <2>1
  <2>3. Good(f[i], i)
    BY <1>6, <2>1
  <2> HIDE DEF S
  <2>4. f[i] \in Seq(1 .. i + 1) /\ \A j \in DOMAIN f[i] : f[i][j] < i + 1
    BY <2>3
  <2>5. CASE f[i + 1] = f[i]
    BY <2>3, <2>4, <2>5
  <2>6. CASE f[i + 1] = Append(f[i], i + 1)
    BY <2>3, <2>4, <2>6
  <2> QED BY <2>2, <2>5, <2>6
<1> HIDE DEF S
<1>7. \A i \in Nat : i \in S
  BY <1>5, <1>6, Induction
<1>8. Good(f[N], N)
  BY <1>7 DEF S
<1>9. Seq(1 .. N) \subseteq Seq(Nat)
  OBVIOUS
<1> QED BY <1>1, <1>3, <1>8, <1>9

\* What is read of a readable file, by the two programs.
LEMMA SavedIs ==
  ASSUME Readable, Walk \in Seq(Nat)
  PROVE  /\ Len(Postman!ParsePostman) = Len(Walk)
         /\ DOMAIN Postman!ParsePostman = 1 .. Len(Walk)
         /\ Len(Postman!LoadCollectionFromFile) = Len(Walk)
         /\ DOMAIN Postman!LoadCollectionFromFile = 1 .. Len(Walk)
         /\ \A k \in 1 .. Len(Walk) :
              /\ Postman!SaveInput(k).item = Walk[k]
              /\ Postman!Alike(Postman!SaveInput(k), Postman!LoadCollectionFromFile[k])
<1> DEFINE web == Postman!ParsePostman
           cli == Postman!LoadCollectionFromFile
<1>1. DOMAIN Walk = 1 .. Len(Walk) /\ Len(Walk) \in Nat
  OBVIOUS
<1>2. /\ web = [k \in 1 .. Len(Walk) |-> Postman!ParseRequestItem(Walk[k])]
      /\ cli = [k \in 1 .. Len(Walk) |-> Postman!ParseRequest(Walk[k])]
  BY <1>1, Zenon DEF Readable, Walk, Postman!ParsePostman, Postman!LoadCollectionFromFile
<1>3. ASSUME NEW k \in 1 .. Len(Walk)
      PROVE  /\ Postman!SaveInput(k).item = Walk[k]
             /\ Postman!Alike(Postman!SaveInput(k), cli[k])
  <2> DEFINE i == Walk[k]
             item == file.items[i]
             q == Postman!SaveInput(k)
  <2>1. q = [x \in DOMAIN web[k] \ {"path"} |-> web[k][x]]
    BY DEF Postman!SaveInput
  <2>2. /\ web[k] = Postman!Request(i, "methodAndAddress", Postman!ParseBody(item.body), Postman!WebAuth(item))
        /\ cli[k] = Postman!Request(i, "methodAndRequest", Postman!CliBody(item.body), Postman!CliAuth(item))
    BY <1>2 DEF Postman!ParseRequestItem, Postman!ParseRequest
  <2> HIDE DEF web, cli
  <2>3. Postman!WebAuth(item) = Postman!CliAuth(item)
    BY DEF Postman!WebAuth, Postman!CliAuth
  <2>4. Postman!ParseBody(item.body) # Postman!CliBody(item.body) => Postman!ParseBody(item.body) = "formdata"
    BY DEF Postman!ParseBody, Postman!CliBody
  <2> DEFINE body == Postman!ParseBody(item.body)
             other == Postman!CliBody(item.body)
             auth == Postman!CliAuth(item)
             url == Postman!ParseUrl(item.url)
             pre == Postman!ParseEvents(item.events, "prerequest")
             test == Postman!ParseEvents(item.events, "test")
             way == Postman!FolderPath(i)
  <2>5. /\ web[k] = [item |-> i, name |-> IF item.named THEN "given" ELSE "methodAndAddress", path |-> way,
                     url |-> url, body |-> body, auth |-> auth, pre |-> pre, test |-> test]
        /\ cli[k] = [item |-> i, name |-> IF item.named THEN "given" ELSE "methodAndRequest", path |-> way,
                     url |-> url, body |-> other, auth |-> auth, pre |-> pre, test |-> test]
    BY <2>2, <2>3, Zenon DEF Postman!Request
  <2> HIDE DEF body, other, auth, url, pre, test, way, i
  <2>6. /\ DOMAIN web[k] \ {"path"} = {"item", "name", "url", "body", "auth", "pre", "test"}
        /\ DOMAIN cli[k] = {"item", "name", "path", "url", "body", "auth", "pre", "test"}
    BY <2>5
  <2>7. /\ q.item = i /\ q.url = url /\ q.auth = auth /\ q.pre = pre /\ q.test = test /\ q.body = body
        /\ q.name = IF item.named THEN "given" ELSE "methodAndAddress"
    BY <2>1, <2>5, <2>6
  <2>8. /\ cli[k].item = i /\ cli[k].url = url /\ cli[k].auth = auth /\ cli[k].pre = pre
        /\ cli[k].test = test /\ cli[k].body = other
        /\ cli[k].name = IF item.named THEN "given" ELSE "methodAndRequest"
    BY <2>5
  <2>9. body = other \/ body = "formdata"
    BY <2>4 DEF body, other
  <2> HIDE DEF q
  <2>10. Postman!Alike(q, cli[k])
    BY <2>7, <2>8, <2>9, Zenon DEF Postman!Alike
  <2> QED BY <2>7, <2>10 DEF q, i, cli
<1>4. Len(web) = Len(Walk) /\ DOMAIN web = 1 .. Len(Walk) /\ Len(cli) = Len(Walk) /\ DOMAIN cli = 1 .. Len(Walk)
  BY <1>1, <1>2
<1> QED BY <1>3, <1>4

LEMMA FileKept ==
  ASSUME file' = file
  PROVE  Walk' = Walk /\ Saved' = Saved /\ Readable' = Readable
<1>1. Walk' = Walk
  BY DEF Walk, Postman!WalkItems
<1>2. Readable' = Readable
  BY DEF Readable
<1>3. \A i : Postman!ParseRequestItem(i)' = Postman!ParseRequestItem(i)
  BY DEF Postman!ParseRequestItem, Postman!Request, Postman!WebAuth, Postman!ParseAuth, Postman!FolderPath
<1>4. Postman!ParsePostman' = Postman!ParsePostman
  BY <1>1, <1>2, <1>3 DEF Postman!ParsePostman, Walk, Readable
<1>5. Saved' = Saved
  BY <1>1, <1>4 DEF Saved, Postman!SaveInput
<1> QED BY <1>1, <1>2, <1>5

LEMMA LengthIs == ASSUME FileIs PROVE Len(file.items) \in Nat
BY DEF FileIs

\* While the file is written nothing has been imported.
LEMMA WritingKeeps ==
  ASSUME PostInv, Postman!Writing,
         \/ \E kind \in {"folder", "request", "neither"}, d \in Postman!Depths : Postman!AddItem(kind, d)
         \/ Postman!EditHead \/ Postman!EditLast
  PROVE  PostInv'
<1>1. made = <<>> /\ told = <<>> /\ job = Undefined /\ UNCHANGED <<made, told, job>>
  BY DEF Postman!Writing, Postman!AddItem, Postman!EditHead, Postman!EditLast, Postman!EditFile,
         Postman!Edit
<1>2. PICK S : file.items \in Seq(S)
  BY DEF PostInv, FileIs
<1>3. file = [x \in DOMAIN file |-> file[x]] /\ DOMAIN file = {"info", "schema", "listed", "auth", "items"}
  BY DEF PostInv, FileIs
<1>4. /\ file' = [x \in DOMAIN file' |-> file'[x]]
      /\ DOMAIN file' = {"info", "schema", "listed", "auth", "items"}
      /\ \E T : file'.items \in Seq(T)
  <2>1. ASSUME NEW x, file' = [file EXCEPT !.items = Append(@, x)] PROVE <1>4
    <3>1. Append(file.items, x) \in Seq(S \cup {x})
      BY <1>2
    <3> DEFINE q == Append(file.items, x)
    <3> HIDE DEF q
    <3>2. file'.items = q /\ DOMAIN file' = DOMAIN file /\ file' = [y \in DOMAIN file |-> file'[y]]
      BY <1>3, <2>1 DEF q
    <3> QED BY <1>3, <3>1, <3>2 DEF q
  <2>2. ASSUME NEW f \in {"info", "schema", "listed", "auth"}, NEW v, file' = [file EXCEPT ![f] = v] PROVE <1>4
    <3>1. file'.items = file.items /\ DOMAIN file' = DOMAIN file /\ file' = [y \in DOMAIN file |-> file'[y]]
      BY <1>3, <2>2
    <3> QED BY <1>2, <1>3, <3>1
  <2>3. ASSUME NEW f, NEW v, Postman!Edit(f, v) PROVE <1>4
    <3> DEFINE n == Len(file.items)
               x == [file.items[n] EXCEPT ![f] = v]
               q == [file.items EXCEPT ![n] = x]
    <3>1. file' = [file EXCEPT !.items = q]
      BY <2>3 DEF Postman!Edit
    <3> HIDE DEF x
    <3>2. q \in Seq(S \cup {x})
      <4> DEFINE T == S \cup {x}
      <4>1. file.items \in Seq(T) /\ x \in T /\ n \in DOMAIN file.items
        BY <1>2, <2>3 DEF Postman!Edit
      <4>2. n \in 1 .. Len(file.items)
        BY <4>1
      <4> HIDE DEF T, n
      <4>3. q \in Seq(T)
        BY <4>1, <4>2, ExceptSeq
      <4> QED BY <4>3 DEF T
    <3> HIDE DEF q
    <3>3. file'.items = q /\ DOMAIN file' = DOMAIN file /\ file' = [y \in DOMAIN file |-> file'[y]]
      BY <1>3, <3>1
    <3> QED BY <1>3, <3>2, <3>3
  <2>4. CASE \E kind \in {"folder", "request", "neither"}, d \in Postman!Depths : Postman!AddItem(kind, d)
    BY <2>1, <2>4 DEF Postman!AddItem
  <2>5. CASE Postman!EditHead
    BY <2>2, <2>5 DEF Postman!EditHead, Postman!EditFile
  <2>6. CASE Postman!EditLast
    BY <2>3, <2>6, Zenon DEF Postman!EditLast
  <2> QED BY <2>4, <2>5, <2>6
<1>5. <<>> \in Seq(Seq(Saved')) /\ <<>> \in Seq({}) /\ DOMAIN <<>> = {}
  OBVIOUS
<1>6. FileIs' /\ JobIs' /\ ToldIs' /\ MadeIs'
  BY <1>1, <1>4, <1>5 DEF FileIs, JobIs, ToldIs, MadeIs
<1> QED BY <1>1, <1>5, <1>6 DEF PostInv

LEMMA ImportBegins == ASSUME PostInv, Postman!HandleImport PROVE PostInv'
<1>1. UNCHANGED <<file, made, told>> /\ job' = [at |-> 0, ok |-> 0, failed |-> 0]
  BY DEF Postman!HandleImport
<1>2. Walk' = Walk /\ Saved' = Saved /\ Readable' = Readable /\ Len(Walk) \in Nat
  BY <1>1, FileKept, LengthIs, WalkIs DEF PostInv
<1>3. Readable
  BY DEF Postman!HandleImport, Postman!ParsePostman, Readable
<1>4. FileIs'
  BY <1>1, <1>2, <1>3 DEF PostInv, FileIs
<1>5. JobIs'
  BY <1>1, <1>2 DEF JobIs
<1>6. MadeIs' /\ ToldIs'
  BY <1>1, <1>2 DEF PostInv, MadeIs, ToldIs
<1> QED BY <1>1, <1>4, <1>5, <1>6 DEF PostInv

\* What is appended is at the end, and what was there is where it was.
LEMMA AppendIs ==
  ASSUME NEW T, NEW q \in Seq(T), NEW x
  PROVE  /\ Append(q, x) \in Seq(T \cup {x}) /\ DOMAIN q = 1 .. Len(q) /\ Len(q) \in Nat
         /\ DOMAIN Append(q, x) = 1 .. Len(q) + 1 /\ Len(Append(q, x)) = Len(q) + 1
         /\ Append(q, x)[Len(q) + 1] = x /\ \A t \in 1 .. Len(q) : Append(q, x)[t] = q[t]
<1>1. q \in Seq(T \cup {x})
  OBVIOUS
<1> QED BY <1>1

\* What an import adds is told of no import before it.
LEMMA ToldKept ==
  ASSUME ToldIs, UNCHANGED told, Walk' = Walk, DOMAIN made \subseteq DOMAIN made',
         \A n \in DOMAIN made : Len(made[n]) <= Len(made'[n]) /\ Len(made[n]) \in Nat /\ Len(made'[n]) \in Nat
  PROVE  ToldIs'
<1> SUFFICES ASSUME NEW t \in DOMAIN told, ~told[t].error
             PROVE  /\ told[t].of \in DOMAIN made'
                    /\ told[t].ok + told[t].failed = Len(Walk)
                    /\ told[t].ok <= Len(made'[told[t].of])
  BY DEF ToldIs
<1> DEFINE n == told[t].of
<1>1. n \in DOMAIN made /\ told[t].ok + told[t].failed = Len(Walk) /\ told[t].ok <= Len(made[n])
  BY DEF ToldIs
<1>2. told[t].ok \in Nat
  BY DEF ToldIs
<1>3. Len(made[n]) <= Len(made'[n]) /\ Len(made[n]) \in Nat /\ Len(made'[n]) \in Nat
  BY <1>1
<1> HIDE DEF n
<1>4. told[t].ok <= Len(made'[n])
  BY <1>1, <1>2, <1>3
<1> QED BY <1>1, <1>4 DEF n

LEMMA CollectionComes == ASSUME PostInv, Postman!CollectionCreated PROVE PostInv'
<1>1. /\ UNCHANGED <<file, told>> /\ job # Undefined /\ job.at = 0
      /\ made' = Append(made, <<>>) /\ job' = [job EXCEPT !.at = 1]
  BY DEF Postman!CollectionCreated, Postman!Importing
<1>2. /\ Walk' = Walk /\ Saved' = Saved /\ Readable' = Readable /\ Len(Walk) \in Nat
      /\ job \in [at : Nat, ok : Nat, failed : Nat] /\ job.ok = 0 /\ job.failed = 0
      /\ made \in Seq(Seq(Saved))
  BY <1>1, FileKept, LengthIs, WalkIs DEF PostInv, JobIs, MadeIs
<1>3. job' = [at |-> 1, ok |-> 0, failed |-> 0]
  BY <1>1, <1>2
<1>4. FileIs'
  BY <1>1, <1>2 DEF PostInv, FileIs
<1>5. /\ DOMAIN made = 1 .. Len(made) /\ Len(made) \in Nat
      /\ DOMAIN made' = 1 .. Len(made) + 1 /\ Len(made') = Len(made) + 1
      /\ made'[Len(made) + 1] = <<>> /\ \A n \in 1 .. Len(made) : made'[n] = made[n]
  BY <1>1, <1>2, AppendIs
<1>6. made' \in Seq(Seq(Saved'))
  BY <1>1, <1>2
<1>7. MadeIs'
  <2>1. ASSUME NEW n \in DOMAIN made', NEW j \in DOMAIN made'[n], NEW k \in DOMAIN made'[n], j < k
        PROVE  made'[n][j].item < made'[n][k].item
    <3>1. n \in DOMAIN made /\ made'[n] = made[n]
      BY <1>5, <2>1
    <3> QED BY <2>1, <3>1 DEF PostInv, MadeIs
  <2> QED BY <1>6, <2>1 DEF MadeIs
<1>8. JobIs'
  BY <1>2, <1>3, <1>5 DEF JobIs
<1>9. \A n \in DOMAIN made : Len(made[n]) <= Len(made'[n]) /\ Len(made[n]) \in Nat /\ Len(made'[n]) \in Nat
  BY <1>2, <1>5
<1>10. ToldIs'
  BY <1>1, <1>2, <1>5, <1>9, ToldKept DEF PostInv
<1> QED BY <1>1, <1>4, <1>7, <1>8, <1>10 DEF PostInv

LEMMA CreationFailing == ASSUME PostInv, Postman!CreationFails PROVE PostInv'
<1> DEFINE last == [ok |-> 0, failed |-> 0, error |-> TRUE, of |-> 0]
<1>1. UNCHANGED <<file, made>> /\ job # Undefined /\ job' = Undefined /\ told' = Append(told, last)
  BY DEF Postman!CreationFails, Postman!Importing
<1>2. Walk' = Walk /\ Saved' = Saved /\ Readable' = Readable
  BY <1>1, FileKept
<1>3. last.error /\ last.ok \in Nat
  OBVIOUS
<1> HIDE DEF last
<1>4. FileIs' /\ JobIs' /\ MadeIs'
  BY <1>1, <1>2 DEF PostInv, FileIs, JobIs, MadeIs
<1>5. PICK T : told \in Seq(T)
  BY DEF PostInv
<1>6. told' \in Seq(T \cup {last}) /\ \A t \in DOMAIN told' : \/ t \in DOMAIN told /\ told'[t] = told[t]
                                                             \/ told'[t] = last
  BY <1>1, <1>5, AppendIs
<1>7. ToldIs'
  BY <1>1, <1>2, <1>3, <1>6 DEF PostInv, ToldIs
<1> QED BY <1>3, <1>4, <1>6, <1>7 DEF PostInv

LEMMA ImportEnding == ASSUME PostInv, Postman!ImportEnds PROVE PostInv'
<1> DEFINE last == [ok |-> job.ok, failed |-> job.failed, error |-> FALSE, of |-> Len(made)]
<1>1. /\ UNCHANGED <<file, made>> /\ job # Undefined /\ job' = Undefined /\ told' = Append(told, last)
      /\ job.at > Len(Postman!ParsePostman)
  BY DEF Postman!ImportEnds, Postman!Importing
<1>2. Walk' = Walk /\ Saved' = Saved /\ Readable' = Readable
  BY <1>1, FileKept
<1>3. /\ Walk \in Seq(Nat) /\ Readable /\ made \in Seq(Seq(Saved))
      /\ job \in [at : Nat, ok : Nat, failed : Nat] /\ job.at <= Len(Walk) + 1
  BY <1>1, LengthIs, WalkIs DEF PostInv, FileIs, JobIs, MadeIs
<1>4. Len(Postman!ParsePostman) = Len(Walk) /\ Len(Walk) \in Nat
  BY <1>3, SavedIs
<1>5. job.at = Len(Walk) + 1 /\ job.at > 0
  BY <1>1, <1>3, <1>4
<1>6. job.ok + job.failed + 1 = Len(Walk) + 1 /\ made # <<>> /\ job.ok <= Len(made[Len(made)])
  BY <1>1, <1>5 DEF PostInv, JobIs
<1>7. job.ok + job.failed = Len(Walk) /\ Len(made) \in DOMAIN made
  BY <1>3, <1>4, <1>6
<1>8. /\ last.of \in DOMAIN made /\ last.ok + last.failed = Len(Walk) /\ last.ok <= Len(made[last.of])
      /\ last.ok \in Nat
  BY <1>3, <1>6, <1>7
<1> HIDE DEF last
<1>9. FileIs' /\ JobIs' /\ MadeIs'
  BY <1>1, <1>2 DEF PostInv, FileIs, JobIs, MadeIs
<1>10. PICK T : told \in Seq(T)
  BY DEF PostInv
<1>11. told' \in Seq(T \cup {last}) /\ \A t \in DOMAIN told' : \/ t \in DOMAIN told /\ told'[t] = told[t]
                                                              \/ told'[t] = last
  BY <1>1, <1>10, AppendIs
<1>12. ToldIs'
  BY <1>1, <1>2, <1>8, <1>11 DEF PostInv, ToldIs
<1> QED BY <1>8, <1>9, <1>11, <1>12 DEF PostInv

LEMMA SavingKeeps ==
  ASSUME PostInv, NEW saved \in BOOLEAN, NEW answered \in BOOLEAN, answered => saved,
         Postman!SaveNext(saved, answered)
  PROVE  PostInv'
<1> DEFINE z == Len(made)
           x == Postman!SaveInput(job.at)
           a == job.at
<1>1. /\ UNCHANGED <<file, told>> /\ job # Undefined /\ a \in DOMAIN Postman!ParsePostman
      /\ made' = IF saved THEN [made EXCEPT ![z] = Append(@, x)] ELSE made
      /\ job' = [job EXCEPT !.at = @ + 1, !.ok = @ + (IF answered THEN 1 ELSE 0),
                            !.failed = @ + (IF answered THEN 0 ELSE 1)]
  BY DEF Postman!SaveNext, Postman!Importing
<1>2. /\ Walk' = Walk /\ Saved' = Saved /\ Readable' = Readable /\ Walk \in Seq(Nat) /\ Readable
      /\ \A j, k \in DOMAIN Walk : j < k => Walk[j] < Walk[k]
      /\ job \in [at : Nat, ok : Nat, failed : Nat] /\ made \in Seq(Seq(Saved))
  BY <1>1, FileKept, LengthIs, WalkIs DEF PostInv, FileIs, JobIs, MadeIs
<1>3. a \in 1 .. Len(Walk) /\ Len(Walk) \in Nat /\ DOMAIN Walk = 1 .. Len(Walk) /\ a > 0 /\ a \in Nat
      /\ x \in Saved /\ x.item = Walk[a]
  BY <1>1, <1>2, SavedIs DEF Saved
<1>4. /\ job.ok + job.failed + 1 = a /\ made # <<>> /\ job.ok <= Len(made[z])
      /\ \A k \in DOMAIN made[z] : \E i \in 1 .. a - 1 : made[z][k].item = Walk[i]
  BY <1>1, <1>3 DEF PostInv, JobIs
<1>5. z \in DOMAIN made /\ z \in Nat /\ made[z] \in Seq(Saved) /\ Len(made[z]) \in Nat
  BY <1>2, <1>4
<1>6. /\ job' \in [at : Nat, ok : Nat, failed : Nat] /\ job'.at = a + 1
      /\ \/ answered /\ job'.ok = job.ok + 1 /\ job'.failed = job.failed
         \/ ~answered /\ job'.ok = job.ok /\ job'.failed = job.failed + 1
  <2>1. CASE answered
    <3>1. job' = [job EXCEPT !.at = @ + 1, !.ok = @ + 1, !.failed = @ + 0]
      BY <1>1, <2>1
    <3>2. job' = [at |-> job.at + 1, ok |-> job.ok + 1, failed |-> job.failed + 0]
      BY <1>2, <3>1
    <3> QED BY <1>2, <2>1, <3>2
  <2>2. CASE ~answered
    <3>1. job' = [job EXCEPT !.at = @ + 1, !.ok = @ + 0, !.failed = @ + 1]
      BY <1>1, <2>2
    <3>2. job' = [at |-> job.at + 1, ok |-> job.ok + 0, failed |-> job.failed + 1]
      BY <1>2, <3>1
    <3> QED BY <1>2, <2>2, <3>2
  <2> QED BY <2>1, <2>2
<1> DEFINE q == Append(made[z], x)
<1>7. /\ q \in Seq(Saved) /\ DOMAIN made[z] = 1 .. Len(made[z]) /\ DOMAIN q = 1 .. Len(made[z]) + 1
      /\ Len(q) = Len(made[z]) + 1
      /\ q[Len(made[z]) + 1] = x /\ \A t \in 1 .. Len(made[z]) : q[t] = made[z][t]
  <2> HIDE DEF x, z
  <2>1. q \in Seq(Saved)
    BY <1>3, <1>5
  <2> QED BY <1>5, <2>1, AppendIs
<1>8. CASE saved
  <2>1. /\ made' = [made EXCEPT ![z] = q] /\ DOMAIN made' = DOMAIN made /\ Len(made') = z
        /\ made'[z] = q /\ \A n \in DOMAIN made : n # z => made'[n] = made[n]
        /\ made' \in Seq(Seq(Saved))
    <3> HIDE DEF q, x
    <3>1. made' = [made EXCEPT ![z] = q]
      BY <1>1, <1>8 DEF q
    <3> QED BY <1>2, <1>5, <1>7, <3>1
  <2> HIDE DEF q, x, z, a
  <2>2. ASSUME NEW i \in 1 .. a - 1 PROVE i \in 1 .. a /\ Walk[i] < Walk[a]
    <3>1. i \in DOMAIN Walk /\ i < a /\ i \in 1 .. a /\ a \in DOMAIN Walk
      BY <1>3
    <3> QED BY <1>2, <3>1
  <2>3. \A k \in DOMAIN q : \E i \in 1 .. a : q[k].item = Walk[i]
    <3>1. a \in 1 .. a
      BY <1>3
    <3>2. ASSUME NEW k \in DOMAIN q PROVE (k \in DOMAIN made[z] /\ q[k] = made[z][k]) \/ q[k] = x
      BY <1>5, <1>7
    <3> QED BY <1>3, <1>4, <2>2, <3>1, <3>2
  <2>4. ASSUME NEW j \in DOMAIN q, NEW k \in DOMAIN q, j < k PROVE q[j].item < q[k].item
    <3>1. j \in DOMAIN made[z] /\ q[j] = made[z][j]
      BY <1>5, <1>7, <2>4
    <3>2. CASE k = Len(made[z]) + 1
      <4>1. PICK i \in 1 .. a - 1 : made[z][j].item = Walk[i]
        BY <1>4, <3>1
      <4> QED BY <1>3, <1>7, <2>2, <3>1, <3>2, <4>1
    <3>3. CASE k # Len(made[z]) + 1
      <4>1. k \in DOMAIN made[z] /\ q[k] = made[z][k]
        BY <1>5, <1>7, <3>3
      <4> QED BY <1>5, <2>4, <3>1, <4>1 DEF PostInv, MadeIs
    <3> QED BY <3>2, <3>3
  <2>5. MadeIs'
    BY <1>2, <1>5, <2>1, <2>4 DEF PostInv, MadeIs
  <2>6. JobIs'
    <3>1. made' # <<>> /\ Len(made') = z /\ made'[z] = q
      BY <1>5, <2>1
    <3>2. job'.ok + job'.failed + 1 = job'.at /\ job'.ok <= Len(q) /\ job'.at > 0 /\ job'.at <= Len(Walk) + 1
          /\ job'.at - 1 = a
      <4>1. job.ok \in Nat /\ job.failed \in Nat /\ Len(q) = Len(made[z]) + 1
        BY <1>2, <1>7
      <4>2. job'.at = a + 1 /\ job'.ok + job'.failed = job.ok + job.failed + 1 /\ job'.ok <= job.ok + 1
        BY <1>6, <4>1
      <4>3. job'.ok \in Nat /\ job'.failed \in Nat /\ Len(made[z]) \in Nat
        BY <1>5, <1>6
      <4>4. job'.ok <= Len(q)
        BY <1>4, <4>1, <4>2, <4>3
      <4> QED BY <1>3, <1>4, <4>1, <4>2, <4>3, <4>4
    <3> QED BY <1>2, <1>6, <2>3, <3>1, <3>2 DEF JobIs
  <2>7. \A n \in DOMAIN made : Len(made[n]) <= Len(made'[n]) /\ Len(made[n]) \in Nat /\ Len(made'[n]) \in Nat
    BY <1>2, <1>5, <1>7, <2>1
  <2>8. ToldIs'
    BY <1>1, <1>2, <2>1, <2>7, ToldKept DEF PostInv
  <2>9. FileIs'
    BY <1>1, <1>2 DEF PostInv, FileIs
  <2> QED BY <1>1, <2>5, <2>6, <2>8, <2>9 DEF PostInv
<1>9. CASE ~saved
  <2>1. made' = made /\ ~answered
    BY <1>1, <1>9
  <2> HIDE DEF q, x, z, a
  <2>2. MadeIs' /\ ToldIs' /\ FileIs'
    BY <1>1, <1>2, <2>1 DEF PostInv, MadeIs, ToldIs, FileIs
  <2>3. JobIs'
    <3>1. job'.ok + job'.failed + 1 = job'.at /\ job'.ok = job.ok /\ job'.at > 0 /\ job'.at <= Len(Walk) + 1
          /\ job'.at - 1 = a
      <4>1. job.ok \in Nat /\ job.failed \in Nat
        BY <1>2
      <4> QED BY <1>3, <1>4, <1>6, <2>1, <4>1
    <3>2. \A i \in 1 .. a - 1 : i \in 1 .. a
      BY <1>3
    <3> QED BY <1>2, <1>4, <1>6, <2>1, <3>1, <3>2 DEF JobIs, z
  <2> QED BY <1>1, <2>2, <2>3 DEF PostInv
<1> QED BY <1>8, <1>9

LEMMA PostStep == PostInv /\ [Postman!Next]_(Postman!postmanVars) => PostInv'
<1> SUFFICES ASSUME PostInv, [Postman!Next]_(Postman!postmanVars) PROVE PostInv'
  OBVIOUS
<1>1. CASE \/ \E kind \in {"folder", "request", "neither"}, d \in Postman!Depths : Postman!AddItem(kind, d)
           \/ Postman!EditHead \/ Postman!EditLast
  <2>1. Postman!Writing
    BY <1>1 DEF Postman!AddItem, Postman!EditHead, Postman!EditLast, Postman!EditFile, Postman!Edit
  <2> QED BY <1>1, <2>1, WritingKeeps, Zenon
<1>2. CASE \/ Postman!OpenDialog \/ Postman!GiveText \/ Postman!CloseDialog
           \/ UNCHANGED Postman!postmanVars
  <2>1. UNCHANGED <<file, job, made, told>>
    BY <1>2 DEF Postman!OpenDialog, Postman!GiveText, Postman!CloseDialog, Postman!postmanVars
  <2>2. Walk' = Walk /\ Saved' = Saved /\ Readable' = Readable
    BY <2>1, FileKept
  <2> QED BY <2>1, <2>2 DEF PostInv, FileIs, JobIs, MadeIs, ToldIs
<1>3. CASE Postman!HandleImport
  BY <1>3, ImportBegins
<1>4. CASE Postman!CollectionCreated
  BY <1>4, CollectionComes
<1>5. CASE Postman!CreationFails
  BY <1>5, CreationFailing
<1>6. ASSUME NEW saved \in BOOLEAN, NEW answered \in BOOLEAN, answered => saved,
             Postman!SaveNext(saved, answered)
      PROVE  PostInv'
  BY <1>6, SavingKeeps
<1>7. CASE Postman!ImportEnds
  BY <1>7, ImportEnding
<1> QED BY <1>1, <1>2, <1>3, <1>4, <1>5, <1>6, <1>7 DEF Postman!Next

LEMMA PostStarts == Postman!Init => PostInv
<1> SUFFICES ASSUME Postman!Init PROVE PostInv
  OBVIOUS
<1>1. /\ file = [info |-> TRUE, schema |-> "v2", listed |-> TRUE, auth |-> Undefined, items |-> <<>>]
      /\ made = <<>> /\ told = <<>> /\ job = Undefined
  BY DEF Postman!Init
<1>2. <<>> \in Seq({}) /\ <<>> \in Seq(Seq(Saved)) /\ DOMAIN <<>> = {}
  OBVIOUS
<1>3. FileIs
  BY <1>1, <1>2 DEF FileIs
<1> QED BY <1>1, <1>2, <1>3 DEF PostInv, JobIs, MadeIs, ToldIs

LEMMA SavedAsRunHolds == PostInv => SavedAsRun
<1> SUFFICES ASSUME PostInv PROVE SavedAsRun
  OBVIOUS
<1> DEFINE run == Postman!LoadCollectionFromFile
<1>1. Walk \in Seq(Nat) /\ made \in Seq(Seq(Saved))
  BY LengthIs, WalkIs DEF PostInv, MadeIs
<1>2. CASE made = <<>> /\ told = <<>>
  BY <1>2 DEF SavedAsRun, Postman!SavedAsRun
<1>3. CASE made # <<>> \/ told # <<>>
  <2>1. Readable
    BY <1>3 DEF PostInv, FileIs
  <2>2. /\ Len(run) = Len(Walk) /\ DOMAIN run = 1 .. Len(Walk)
        /\ \A k \in 1 .. Len(Walk) : Postman!Alike(Postman!SaveInput(k), run[k])
    BY <1>1, <2>1, SavedIs
  <2> HIDE DEF run
  <2>3. ASSUME NEW n \in DOMAIN made, NEW k \in DOMAIN made[n]
        PROVE  \E i \in DOMAIN run : Postman!Alike(made[n][k], run[i])
    <3>1. made[n] \in Seq(Saved)
      BY <1>1
    <3>2. made[n][k] \in Saved
      BY <3>1
    <3> QED BY <2>2, <3>2 DEF Saved
  <2>4. ASSUME NEW t \in DOMAIN told, ~told[t].error
        PROVE  told[t].ok + told[t].failed = Len(run) /\ told[t].ok <= Len(made[told[t].of])
    BY <2>2, <2>4 DEF PostInv, ToldIs
  <2> QED BY <2>3, <2>4, Zenon DEF PostInv, MadeIs, SavedAsRun, Postman!SavedAsRun, run
<1> QED BY <1>2, <1>3

LEMMA PostStays ==
  [LibraryNext]_<<part, vars, importVars, postmanVars, openApiVars, curlVars>>
    => [Postman!Next]_(Postman!postmanVars)
BY DEF LibraryNext, MovesStep, TagsStep, ImportStep, PostmanStep, OpenApiStep, CurlStep,
       postmanVars, Postman!postmanVars

\* What an import of the web application leaves in a collection (utils/postman.parser.ts
\* and the loop of CollectionsSidebar.tsx) is what the command line runs from the same
\* file (cli/loadCollection.ts), in order and once, for files of any length, any number
\* of imports, and requests that fail or are answered with an error.
THEOREM SavesWhatRuns == LibrarySpec => []SavedAsRun
<1>1. LibraryInit => PostInv
  BY PostStarts DEF LibraryInit
<1>2. PostInv /\ [LibraryNext]_<<part, vars, importVars, postmanVars, openApiVars, curlVars>> => PostInv'
  BY PostStays, PostStep
<1> QED BY <1>1, <1>2, SavedAsRunHolds, PTL DEF LibrarySpec


(***************************************************************************)
(* A file of OpenAPI.                                                      *)
(***************************************************************************)

Names1 == Cardinality(SchemaNames) + 1

\* The schemas an example has been through by allOf alone, up to where it is: from
\* each of them it went on to another one of them or to where it is.
ChainIs(C) ==
  /\ C \subseteq SchemaNames
  /\ \A c \in C : /\ schemas[c].kind = "object"
                  /\ schemaLink \in schemas[c].links
                     \/ \E d \in C : [via |-> "allOf", to |-> d] \in schemas[c].links

\* By each name it remembers it took at most as many calls as there are names.
ExampleInv ==
  /\ \A n \in SchemaNames : schemas[n].links \subseteq OpenApi!Link
  /\ schemaLink \in OpenApi!Link \cup {None}
  /\ seen \subseteq SchemaNames /\ depth \in Nat
  /\ outcome = "refused" => OpenApi!AllOfLoop
  /\ ~OpenApi!AllOfLoop =>
       /\ depth <= Cardinality(seen) * Names1 + Names1 + 1
       /\ schemaLink # None =>
            \E C : ChainIs(C) /\ depth <= Cardinality(seen) * Names1 + Cardinality(C) + 1

\* The pairs of braces count the declarations that were read.
BracesInv ==
  /\ params \in Seq(OpenApi!Param) /\ nextParam \in 1 .. Len(params) + 1
  /\ braces \in [Params -> Nat]
  /\ \A p \in Params : braces[p] = 1 +
       Cardinality({i \in 1 .. nextParam - 1 : params[i].in = "path" /\ params[i].name = p})
  /\ outcome = "read" => nextParam > Len(params)

LEMMA SizesAre ==
  \A S : (OpenApi!IsFiniteSet(S) <=> IsFiniteSet(S)) /\ OpenApi!Cardinality(S) = Cardinality(S)
BY Zenon DEF OpenApi!IsFiniteSet, IsFiniteSet, OpenApi!Cardinality, Cardinality

LEMMA NamesAre ==
  /\ IsFiniteSet(SchemaNames) /\ Names1 \in Nat /\ Limit \in Nat /\ Limit >= Names1 * Names1 + 1
  /\ \A S \in SUBSET SchemaNames :
       IsFiniteSet(S) /\ Cardinality(S) \in Nat /\ Cardinality(S) + 1 <= Names1
<1>1. IsFiniteSet(SchemaNames) /\ Limit \in Nat /\ Limit > Names1 * Names1
  BY LibraryAssumption, SizesAre, Zenon DEF OpenApi!OpenApiAssumption, Names1
<1>2. Cardinality(SchemaNames) \in Nat
  BY <1>1, FS_CardinalityType
<1>3. ASSUME NEW S \in SUBSET SchemaNames
      PROVE  IsFiniteSet(S) /\ Cardinality(S) \in Nat /\ Cardinality(S) <= Cardinality(SchemaNames)
  BY <1>1, FS_Subset, FS_CardinalityType
<1>4. Names1 \in Nat /\ Names1 = Cardinality(SchemaNames) + 1 /\ Names1 * Names1 \in Nat
  BY <1>2 DEF Names1
<1>5. Limit >= Names1 * Names1 + 1
  <2> DEFINE q == Names1 * Names1
  <2>1. q \in Nat /\ Limit > q
    BY <1>1, <1>4
  <2> HIDE DEF q
  <2>2. Limit >= q + 1
    BY <1>1, <2>1
  <2> QED BY <2>2 DEF q
<1>6. ASSUME NEW S \in SUBSET SchemaNames PROVE Cardinality(S) + 1 <= Names1
  BY <1>2, <1>3, <1>4
<1> QED BY <1>1, <1>3, <1>4, <1>5, <1>6

\* What a name more is worth, and how much all of them are.
LEMMA Worth ==
  ASSUME NEW m \in Nat, NEW K \in Nat, m + 1 <= K
  PROVE  /\ (m + 1) * K = m * K + K /\ m * K \in Nat
         /\ m * K + K <= K * K
OBVIOUS

LEMMA ExampleStep == ASSUME ExampleInv, OpenApi!ExampleFromSchema PROVE ExampleInv'
<1> DEFINE K == Names1
           m == Cardinality(seen)
           below == OpenApi!Below(schemaLink)
<1>1. /\ outcome = "reading" /\ schemaLink # None /\ schemas' = schemas
      /\ schemaLink' \in IF below.links = {} THEN {None} ELSE below.links
      /\ seen' = below.seen /\ depth' = depth + 1
      /\ outcome' = IF depth' > Limit THEN "refused" ELSE outcome
  BY DEF OpenApi!ExampleFromSchema
<1>2. /\ \A n \in SchemaNames : schemas[n].links \subseteq OpenApi!Link
      /\ schemaLink \in OpenApi!Link /\ schemaLink.via \in {"ref", "allOf"}
      /\ seen \subseteq SchemaNames /\ depth \in Nat
  BY <1>1 DEF ExampleInv, OpenApi!Link
<1> PICK to \in SchemaNames : schemaLink = [via |-> schemaLink.via, to |-> to] /\ to = schemaLink.to
  BY <1>2 DEF OpenApi!Link
<1>3. OpenApi!AllOfLoop' <=> OpenApi!AllOfLoop
  BY <1>1 DEF OpenApi!AllOfLoop
<1>4. \A L \in SUBSET OpenApi!Link : OpenApi!MergeAllOf(L) \subseteq OpenApi!Link
  BY <1>2 DEF OpenApi!MergeAllOf, OpenApi!Link
<1>5. below.links \subseteq OpenApi!Link /\ seen' \subseteq SchemaNames
  <2>1. OpenApi!MergeAllOf({schemaLink}) \subseteq OpenApi!Link
    BY <1>2, <1>4
  <2>2. OpenApi!Inside(to) \subseteq OpenApi!Link
    BY <1>2 DEF OpenApi!Inside, OpenApi!MergeAllOf, OpenApi!Link
  <2> QED BY <1>1, <1>2, <2>1, <2>2 DEF OpenApi!Below
<1>6. schemaLink' \in OpenApi!Link \cup {None} /\ depth' \in Nat
  BY <1>1, <1>2, <1>5
<1>7. /\ K \in Nat /\ m \in Nat /\ m + 1 <= K /\ IsFiniteSet(seen) /\ Cardinality(seen') \in Nat
      /\ Cardinality(seen') + 1 <= K
  BY <1>2, <1>5, NamesAre
<1>8. ASSUME ~OpenApi!AllOfLoop
      PROVE  /\ depth' <= Cardinality(seen') * K + K + 1
             /\ schemaLink' # None =>
                  \E C : ChainIs(C)' /\ depth' <= Cardinality(seen') * K + Cardinality(C) + 1
  <2>1. PICK C : ChainIs(C) /\ depth <= m * K + Cardinality(C) + 1
    BY <1>1, <1>8 DEF ExampleInv
  <2>2. C \subseteq SchemaNames /\ IsFiniteSet(C) /\ Cardinality(C) \in Nat /\ Cardinality(C) + 1 <= K
    BY <2>1, NamesAre DEF ChainIs
  <2>3. m * K \in Nat /\ (m + 1) * K = m * K + K
    BY <1>7, Worth
  <2> HIDE DEF m, K
  <2>4. CASE schemaLink.via = "allOf"
    <3>1. below.links = OpenApi!MergeAllOf({schemaLink}) /\ seen' = seen
      BY <1>1, <2>4 DEF OpenApi!Below
    <3>2. CASE schemaLink' = None
      BY <1>1, <1>2, <1>7, <2>1, <2>2, <2>3, <3>1, <3>2 DEF m
    <3>3. CASE schemaLink' # None
      <4>1. schemas[to].kind = "object" /\ schemaLink' \in schemas[to].links
        BY <1>1, <3>1, <3>3 DEF OpenApi!MergeAllOf
      <4>2. schemaLink = [via |-> "allOf", to |-> to]
        BY <1>2, <2>4
      <4>3. to \notin C
        <5> SUFFICES ASSUME to \in C PROVE FALSE
          OBVIOUS
        <5>1. \A a \in C : \E b \in C : /\ schemas[a].kind = "object" /\ schemas[b].kind = "object"
                                        /\ [via |-> "allOf", to |-> b] \in schemas[a].links
          BY <2>1, <4>2 DEF ChainIs
        <5>2. C # {} /\ C \subseteq SchemaNames
          BY <2>2
        <5> QED BY <1>8, <5>1, <5>2 DEF OpenApi!AllOfLoop
      <4> DEFINE D == C \cup {to}
      <4>4. Cardinality(D) = Cardinality(C) + 1
        BY <2>2, <4>3, FS_AddElement
      <4>5. ChainIs(D)'
        <5> SUFFICES ASSUME NEW c \in D
                     PROVE  /\ schemas[c].kind = "object"
                            /\ schemaLink' \in schemas[c].links
                               \/ \E d \in D : [via |-> "allOf", to |-> d] \in schemas[c].links
          BY <1>1, <1>2, <2>2 DEF ChainIs
        <5>1. CASE c = to
          BY <4>1, <5>1
        <5>2. CASE c \in C
          BY <2>1, <4>2, <5>2 DEF ChainIs
        <5> QED BY <5>1, <5>2
      <4>6. depth' <= m * K + Cardinality(D) + 1 /\ depth' <= m * K + K + 1
        <5> HIDE DEF D
        <5> QED BY <1>1, <1>2, <1>7, <2>1, <2>2, <2>3, <4>4
      <4> QED BY <3>1, <4>5, <4>6 DEF m
    <3> QED BY <3>2, <3>3
  <2>5. CASE schemaLink.via = "ref" /\ to \in seen
    <3>1. below.links = {} /\ seen' = seen
      BY <1>1, <2>5 DEF OpenApi!Below
    <3>2. schemaLink' = None
      BY <1>1, <3>1
    <3>3. depth' <= m * K + K + 1
      BY <1>1, <1>2, <1>7, <2>1, <2>2, <2>3
    <3> QED BY <3>1, <3>2, <3>3 DEF m
  <2>6. CASE schemaLink.via = "ref" /\ to \notin seen
    <3>1. seen' = seen \cup {to}
      BY <1>1, <2>6 DEF OpenApi!Below
    <3>2. Cardinality(seen') = m + 1
      BY <1>7, <2>6, <3>1, FS_AddElement DEF m
    <3>3. depth' <= (m + 1) * K + 0 + 1 /\ depth' <= (m + 1) * K + K + 1
      BY <1>1, <1>2, <1>7, <2>1, <2>2, <2>3
    <3>4. ChainIs({})' /\ Cardinality({}) = 0
      BY FS_EmptySet DEF ChainIs
    <3> QED BY <3>2, <3>3, <3>4
  <2> QED BY <1>2, <2>4, <2>5, <2>6
<1>9. outcome' = "refused" => OpenApi!AllOfLoop
  <2> SUFFICES ASSUME ~OpenApi!AllOfLoop PROVE ~(depth' > Limit)
    BY <1>1
  <2> DEFINE t == Cardinality(seen')
  <2>1. depth' <= t * K + K + 1
    BY <1>8
  <2>2. t * K \in Nat /\ t * K + K <= K * K
    BY <1>7, Worth
  <2>3. K \in Nat /\ Limit \in Nat /\ Limit >= K * K + 1 /\ K * K \in Nat
    BY NamesAre
  <2> HIDE DEF t, K
  <2> QED BY <1>6, <2>1, <2>2, <2>3
<1> QED BY <1>1, <1>2, <1>3, <1>5, <1>6, <1>8, <1>9 DEF ExampleInv

LEMMA ExampleKeeps == ExampleInv /\ [OpenApi!Next]_(OpenApi!openApiVars) => ExampleInv'
<1> SUFFICES ASSUME ExampleInv, [OpenApi!Next]_(OpenApi!openApiVars) PROVE ExampleInv'
  OBVIOUS
<1>1. CASE OpenApi!ExampleFromSchema
  BY <1>1, ExampleStep
<1>2. CASE OpenApi!ReadParam \/ OpenApi!EndpointRead \/ UNCHANGED OpenApi!openApiVars
  <2>1. UNCHANGED <<schemas, schemaLink, seen, depth>> /\ (outcome' = "refused" => outcome = "refused")
    BY <1>2 DEF OpenApi!ReadParam, OpenApi!EndpointRead, OpenApi!openApiVars
  <2>2. (OpenApi!AllOfLoop' <=> OpenApi!AllOfLoop) /\ \A C : ChainIs(C)' <=> ChainIs(C)
    BY <2>1 DEF OpenApi!AllOfLoop, ChainIs
  <2> QED BY <2>1, <2>2 DEF ExampleInv
<1> QED BY <1>1, <1>2 DEF OpenApi!Next

LEMMA BracesStep == ASSUME BracesInv, OpenApi!ReadParam PROVE BracesInv'
<1> DEFINE Read(n, p) == {i \in 1 .. n : params[i].in = "path" /\ params[i].name = p}
           n == nextParam
           at1 == params[nextParam]
<1>1. /\ outcome = "reading" /\ n \in 1 .. Len(params) /\ nextParam' = n + 1 /\ UNCHANGED <<params, outcome>>
      /\ params \in Seq(OpenApi!Param) /\ braces \in [Params -> Nat] /\ Len(params) \in Nat
      /\ \A p \in Params : braces[p] = 1 + Cardinality(Read(n - 1, p))
  BY DEF BracesInv, OpenApi!ReadParam
<1>2. /\ at1 \in OpenApi!Param /\ at1.name \in Params
      /\ braces' = IF at1.in = "path" THEN [braces EXCEPT ![at1.name] = @ + 1] ELSE braces
  <2>1. at1 \in OpenApi!Param
    BY <1>1
  <2>2. braces' = IF at1.in = "path" THEN [braces EXCEPT ![at1.name] = @ + 1] ELSE braces
    BY DEF OpenApi!ReadParam
  <2> HIDE DEF at1
  <2> QED BY <2>1, <2>2 DEF OpenApi!Param
<1>3. ASSUME NEW p \in Params PROVE braces'[p] = 1 + Cardinality(Read(n, p))
  <2>1. IsFiniteSet(Read(n - 1, p)) /\ Cardinality(Read(n - 1, p)) \in Nat
    <3>1. IsFiniteSet(1 .. n - 1)
      BY <1>1, FS_Interval
    <3> QED BY <3>1, FS_Subset, FS_CardinalityType
  <2>2. 1 .. n = (1 .. n - 1) \cup {n} /\ n \notin 1 .. n - 1
    BY <1>1
  <2>3. CASE at1.in = "path" /\ at1.name = p
    <3>1. Read(n, p) = Read(n - 1, p) \cup {n} /\ n \notin Read(n - 1, p)
      BY <2>2, <2>3
    <3> HIDE DEF Read, n
    <3>2. Cardinality(Read(n, p)) = Cardinality(Read(n - 1, p)) + 1
      BY <2>1, <3>1, FS_AddElement
    <3>3. braces'[p] = braces[p] + 1
      BY <1>1, <1>2, <2>3
    <3> QED BY <1>1, <2>1, <3>2, <3>3
  <2>4. CASE ~(at1.in = "path" /\ at1.name = p)
    <3>1. Read(n, p) = Read(n - 1, p)
      BY <2>2, <2>4
    <3>2. braces'[p] = braces[p]
      BY <1>1, <1>2, <2>4
    <3> QED BY <1>1, <3>1, <3>2
  <2> QED BY <2>3, <2>4
<1>4. nextParam' - 1 = n /\ nextParam' \in 1 .. Len(params) + 1 /\ outcome' # "read"
  BY <1>1
<1>5. braces' \in [Params -> Nat]
  BY <1>1, <1>2
<1> QED BY <1>1, <1>3, <1>4, <1>5 DEF BracesInv

LEMMA BracesKeep == BracesInv /\ [OpenApi!Next]_(OpenApi!openApiVars) => BracesInv'
<1> SUFFICES ASSUME BracesInv, [OpenApi!Next]_(OpenApi!openApiVars) PROVE BracesInv'
  OBVIOUS
<1>1. CASE OpenApi!ReadParam
  BY <1>1, BracesStep
<1>2. CASE OpenApi!ExampleFromSchema \/ OpenApi!EndpointRead \/ UNCHANGED OpenApi!openApiVars
  <2>1. /\ UNCHANGED <<params, nextParam, braces>>
        /\ outcome' = "read" => outcome = "read" \/ nextParam > Len(params)
    BY <1>2 DEF OpenApi!ExampleFromSchema, OpenApi!EndpointRead, OpenApi!openApiVars
  <2> QED BY <2>1 DEF BracesInv
<1> QED BY <1>1, <1>2 DEF OpenApi!Next

LEMMA OpenApiStarts == OpenApi!Init => ExampleInv /\ BracesInv
<1> SUFFICES ASSUME OpenApi!Init PROVE ExampleInv /\ BracesInv
  OBVIOUS
<1>1. /\ schemas \in [SchemaNames -> OpenApi!Schema] /\ schemaLink \in OpenApi!Link \cup {None}
      /\ nextParam = 1 /\ braces = [p \in Params |-> 1] /\ seen = {} /\ depth = 1 /\ outcome = "reading"
  BY DEF OpenApi!Init
<1>2. \A s \in OpenApi!Schema : s.links \subseteq OpenApi!Link
  BY DEF OpenApi!Schema, OpenApi!Link, OpenApi!kSubset
<1>3. ChainIs({}) /\ Cardinality(seen) = 0
  BY <1>1, FS_EmptySet DEF ChainIs
<1>4. 0 * Names1 = 0 /\ Names1 \in Nat
  BY NamesAre
<1>5. \A n \in SchemaNames : schemas[n].links \subseteq OpenApi!Link
  BY <1>1, <1>2
<1>6. depth <= Cardinality(seen) * Names1 + Cardinality({}) + 1
      /\ depth <= Cardinality(seen) * Names1 + Names1 + 1
  BY <1>1, <1>3, <1>4, FS_EmptySet
<1>7. ExampleInv
  BY <1>1, <1>3, <1>5, <1>6 DEF ExampleInv
<1>8. params \in Seq(OpenApi!Param)
  <2>1. PICK n \in 0 .. MaxParams : params \in [1 .. n -> OpenApi!Param]
    BY DEF OpenApi!Init
  <2> QED BY <2>1
<1>9. \A p \in Params : {i \in 1 .. nextParam - 1 : params[i].in = "path" /\ params[i].name = p} = {}
  BY <1>1
<1>10. BracesInv
  BY <1>1, <1>8, <1>9, FS_EmptySet DEF BracesInv
<1> QED BY <1>7, <1>10

LEMMA ReadHolds == ExampleInv /\ BracesInv => ReadUnlessLoop
<1> SUFFICES ASSUME ExampleInv, BracesInv PROVE ReadUnlessLoop
  OBVIOUS
<1>1. outcome = "refused" => OpenApi!AllOfLoop
  BY DEF ExampleInv
<1>2. ASSUME outcome = "read", NEW p \in Params, OpenApi!Declared(p) = 1 PROVE braces[p] = 2
  <2>1. nextParam - 1 = Len(params) /\ DOMAIN params = 1 .. Len(params)
    BY <1>2 DEF BracesInv
  <2>2. Cardinality({i \in DOMAIN params : params[i].in = "path" /\ params[i].name = p}) = 1
    BY <1>2, SizesAre DEF OpenApi!Declared
  <2> QED BY <2>1, <2>2 DEF BracesInv
<1> QED BY <1>1, <1>2 DEF ReadUnlessLoop, OpenApi!ReadUnlessLoop

LEMMA OpenApiStays ==
  [LibraryNext]_<<part, vars, importVars, postmanVars, openApiVars, curlVars>>
    => [OpenApi!Next]_(OpenApi!openApiVars)
BY DEF LibraryNext, MovesStep, TagsStep, ImportStep, PostmanStep, OpenApiStep, CurlStep,
       openApiVars, OpenApi!openApiVars

\* An endpoint is read to the end by utils/openapi.parser.ts, for any number of schemas
\* that refer to each other in any way and any list of parameters, unless schemas contain
\* each other by allOf alone; and a placeholder declared once becomes a variable.  The
\* stack that suffices is the square of the number of names, and one of them.
THEOREM ReadsUnlessLoop == LibrarySpec => []ReadUnlessLoop
<1>1. LibraryInit => ExampleInv /\ BracesInv
  BY OpenApiStarts DEF LibraryInit, OpenApiInit
<1>2. ExampleInv /\ BracesInv /\ [LibraryNext]_<<part, vars, importVars, postmanVars, openApiVars, curlVars>>
        => (ExampleInv /\ BracesInv)'
  BY OpenApiStays, ExampleKeeps, BracesKeep
<1> QED BY <1>1, <1>2, ReadHolds, PTL DEF LibrarySpec


(***************************************************************************)
(* A command pasted.                                                       *)
(***************************************************************************)

\* f goes through q and keeps the items of which keep holds.
Keeps(f, q, keep) ==
  /\ f[0] = <<>>
  /\ \A i \in 1 .. Len(q) : f[i] = IF keep[i] THEN Append(f[i - 1], q[i]) ELSE f[i - 1]

\* Of two such functions one is the other.
LEMMA KeepsOne ==
  ASSUME NEW q, Len(q) \in Nat, NEW keep, NEW f, Keeps(f, q, keep), NEW g, Keeps(g, q, keep)
  PROVE  f[Len(q)] = g[Len(q)]
<1> DEFINE S == {i \in Nat : i <= Len(q) => f[i] = g[i]}
<1>1. 0 \in S
  BY DEF Keeps
<1>2. ASSUME NEW i \in Nat, i \in S PROVE i + 1 \in S
  <2> SUFFICES ASSUME i + 1 <= Len(q) PROVE f[i + 1] = g[i + 1]
    OBVIOUS
  <2>1. i + 1 \in 1 .. Len(q) /\ (i + 1) - 1 = i /\ f[i] = g[i]
    BY <1>2
  <2> HIDE DEF S
  <2> QED BY <2>1 DEF Keeps
<1> HIDE DEF S
<1>3. \A i \in Nat : i \in S
  BY <1>1, <1>2, Induction
<1> QED BY <1>3 DEF S

\* There is one, and what it keeps is of the list.
ChosenOf(s, q, keep, T) ==
  s \in Seq(T) /\ \A k \in DOMAIN s : \E i \in DOMAIN q : keep[i] /\ s[k] = q[i]

LEMMA KeepsSome ==
  ASSUME NEW T, NEW q \in Seq(T), NEW keep
  PROVE  \E f : f = [i \in 0 .. Len(q) |-> f[i]] /\ Keeps(f, q, keep) /\ ChosenOf(f[Len(q)], q, keep, T)
<1> DEFINE N == Len(q)
           K == {i \in 1 .. N : keep[i]}
           X == Seq(K)
           base == <<>>
           turn == [i \in 1 .. N |-> [w \in X |-> IF keep[i] THEN Append(w, i) ELSE w]]
<1>1. N \in Nat /\ DOMAIN q = 1 .. N /\ \A i \in 1 .. N : q[i] \in T
  OBVIOUS
<1>2. base \in X /\ turn \in Turns(N, X)
  BY DEF Turns
<1>3. \E h : Ran(h, N, X, base, turn)
  <2> HIDE DEF N, X, base, turn
  <2> QED BY <1>1, <1>2, LoopRuns
<1>4. PICK h : /\ h \in [0 .. N -> X] /\ h[0] = <<>>
               /\ \A i \in 1 .. N : h[i] = turn[i][h[i - 1]]
  BY <1>3 DEF Ran
<1> DEFINE Items(w) == [k \in DOMAIN w |-> q[w[k]]]
           f == [i \in 0 .. N |-> Items(h[i])]
<1>5. f[0] = <<>>
  BY <1>1, <1>4
<1>6. ASSUME NEW i \in 1 .. N PROVE f[i] = IF keep[i] THEN Append(f[i - 1], q[i]) ELSE f[i - 1]
  <2>1. i \in 0 .. N /\ i - 1 \in 0 .. N
    BY <1>1
  <2>2. h[i - 1] \in X /\ h[i] = turn[i][h[i - 1]]
    BY <1>4, <2>1
  <2> DEFINE w == h[i - 1]
  <2>3. h[i] = IF keep[i] THEN Append(w, i) ELSE w
    BY <2>2
  <2>4. f[i] = Items(h[i]) /\ f[i - 1] = Items(w)
    BY <2>1
  <2>5. DOMAIN w = 1 .. Len(w) /\ Len(w) \in Nat
    BY <2>2
  <2> HIDE DEF f, w
  <2>6. CASE keep[i]
    <3>1. h[i] = Append(w, i)
      BY <2>3, <2>6
    <3>2. Items(Append(w, i)) = Append(Items(w), q[i])
      <4>1. w \in Seq(Nat) /\ i \in Nat
        BY <1>1, <2>2 DEF w
      <4>2. /\ DOMAIN Append(w, i) = 1 .. Len(w) + 1 /\ Append(w, i)[Len(w) + 1] = i
            /\ \A k \in 1 .. Len(w) : Append(w, i)[k] = w[k]
        BY <4>1
      <4>3. Items(w) \in Seq({q[j] : j \in Nat}) /\ Len(Items(w)) = Len(w)
        BY <2>5, <4>1
      <4>4. /\ DOMAIN Append(Items(w), q[i]) = 1 .. Len(w) + 1 /\ Append(Items(w), q[i])[Len(w) + 1] = q[i]
            /\ \A k \in 1 .. Len(w) : Append(Items(w), q[i])[k] = q[w[k]]
            /\ Append(Items(w), q[i]) = [k \in 1 .. Len(w) + 1 |-> Append(Items(w), q[i])[k]]
        BY <2>5, <4>3
      <4>5. \A k \in 1 .. Len(w) + 1 : k = Len(w) + 1 \/ k \in 1 .. Len(w)
        BY <2>5
      <4> QED BY <4>2, <4>4, <4>5
    <3> QED BY <2>4, <2>6, <3>1, <3>2
  <2>7. CASE ~keep[i]
    BY <2>3, <2>4, <2>7
  <2> QED BY <2>6, <2>7
<1>7. f = [i \in 0 .. N |-> f[i]]
  OBVIOUS
<1>8. /\ f[N] \in Seq(T)
      /\ \A k \in DOMAIN f[N] : \E i \in DOMAIN q : keep[i] /\ f[N][k] = q[i]
  <2>1. h[N] \in Seq(K) /\ f[N] = Items(h[N])
    BY <1>1, <1>4
  <2>2. \A k \in DOMAIN h[N] : h[N][k] \in K
    BY <2>1
  <2> QED BY <1>1, <2>1, <2>2
<1> HIDE DEF f
<1>9. Keeps(f, q, keep) /\ ChosenOf(f[Len(q)], q, keep, T)
  BY <1>1, <1>5, <1>6, <1>8 DEF Keeps, ChosenOf
<1> QED BY <1>7, <1>9

LEMMA KeepsAll ==
  ASSUME NEW T, NEW q \in Seq(T), NEW keep, \A i \in 1 .. Len(q) : keep[i], NEW f, Keeps(f, q, keep)
  PROVE  f[Len(q)] = q
<1> DEFINE g == [i \in 0 .. Len(q) |-> [j \in 1 .. i |-> q[j]]]
<1>1. ASSUME NEW i \in 1 .. Len(q) PROVE g[i] = Append(g[i - 1], q[i])
  <2>1. g[i - 1] = [j \in 1 .. i - 1 |-> q[j]] /\ g[i] = [j \in 1 .. i |-> q[j]] /\ i - 1 \in Nat
    OBVIOUS
  <2>2. [j \in 1 .. i - 1 |-> q[j]] \in Seq(T) /\ Len([j \in 1 .. i - 1 |-> q[j]]) = i - 1
    <3>1. \A j \in 1 .. i - 1 : q[j] \in T
      OBVIOUS
    <3> QED BY <2>1, <3>1
  <2> QED BY <2>1, <2>2
<1>2. g[0] = <<>> /\ g[Len(q)] = q
  OBVIOUS
<1>3. Keeps(g, q, keep)
  <2> HIDE DEF g
  <2> QED BY <1>1, <1>2 DEF Keeps
<1> HIDE DEF g
<1> QED BY <1>2, <1>3, KeepsOne

LEMMA KeepsNone ==
  ASSUME NEW T, NEW q \in Seq(T), NEW keep, \A i \in 1 .. Len(q) : ~keep[i], NEW f, Keeps(f, q, keep)
  PROVE  f[Len(q)] = <<>>
<1> DEFINE g == [i \in 0 .. Len(q) |-> <<>>]
<1>1. Keeps(g, q, keep) /\ g[Len(q)] = <<>>
  BY DEF Keeps
<1> HIDE DEF g
<1> QED BY <1>1, KeepsOne

LEMMA KeepsHead ==
  ASSUME NEW T, NEW q \in Seq(T), Len(q) > 0, NEW keep, keep[1], \A i \in 2 .. Len(q) : ~keep[i],
         NEW f, Keeps(f, q, keep)
  PROVE  f[Len(q)] = <<q[1]>>
<1> DEFINE g == [i \in 0 .. Len(q) |-> IF i = 0 THEN <<>> ELSE <<q[1]>>]
<1>1. ASSUME NEW i \in 1 .. Len(q) PROVE g[i] = IF keep[i] THEN Append(g[i - 1], q[i]) ELSE g[i - 1]
  <2>1. CASE i = 1
    <3>1. Append(<<>>, q[1]) = <<q[1]>>
      OBVIOUS
    <3> QED BY <2>1, <3>1
  <2>2. CASE i # 1
    <3>1. i - 1 \in 0 .. Len(q) /\ i - 1 # 0 /\ i \in 2 .. Len(q) /\ i \in 0 .. Len(q)
      BY <2>2
    <3> QED BY <3>1
  <2> QED BY <2>1, <2>2
<1>2. g[0] = <<>> /\ g[Len(q)] = <<q[1]>>
  OBVIOUS
<1>3. Keeps(g, q, keep)
  <2> HIDE DEF g
  <2> QED BY <1>1, <1>2 DEF Keeps
<1> HIDE DEF g
<1> QED BY <1>2, <1>3, KeepsOne

LEMMA KeepsRest ==
  ASSUME NEW T, NEW t \in Seq(T), NEW h \in T, NEW keep, ~keep[1], \A i \in 2 .. Len(t) + 1 : keep[i],
         NEW f, Keeps(f, <<h>> \o t, keep)
  PROVE  f[Len(<<h>> \o t)] = t
<1> DEFINE q == <<h>> \o t
           g == [i \in 0 .. Len(t) + 1 |-> [j \in 1 .. i - 1 |-> t[j]]]
<1>1. Len(q) = Len(t) + 1 /\ Len(t) \in Nat /\ \A j \in 1 .. Len(t) : q[j + 1] = t[j]
  OBVIOUS
<1> HIDE DEF q
<1>2. ASSUME NEW i \in 1 .. Len(q) PROVE g[i] = IF keep[i] THEN Append(g[i - 1], q[i]) ELSE g[i - 1]
  <2>0. i \in 0 .. Len(t) + 1 /\ i - 1 \in 0 .. Len(t) + 1 /\ i - 1 \in Nat
    BY <1>1
  <2>1. g[i - 1] = [j \in 1 .. (i - 1) - 1 |-> t[j]] /\ g[i] = [j \in 1 .. i - 1 |-> t[j]]
    BY <2>0
  <2>2. CASE i = 1
    <3>1. 1 .. (i - 1) - 1 = {} /\ 1 .. i - 1 = {}
      BY <2>2
    <3> QED BY <2>1, <2>2, <3>1
  <2>3. CASE i # 1
    <3>1. keep[i] /\ i - 1 \in 1 .. Len(t) /\ q[i] = t[i - 1]
      <4>1. i - 1 \in 1 .. Len(t) /\ (i - 1) + 1 = i
        BY <1>1, <2>3
      <4> QED BY <1>1, <4>1
    <3> DEFINE w == [j \in 1 .. (i - 1) - 1 |-> t[j]]
    <3>2. w \in Seq(T) /\ Len(w) = (i - 1) - 1
      <4>1. \A j \in 1 .. (i - 1) - 1 : t[j] \in T
        BY <1>1, <3>1
      <4>2. (i - 1) - 1 \in Nat
        BY <3>1
      <4> QED BY <4>1, <4>2
    <3>3. Append(w, t[i - 1]) = [j \in 1 .. i - 1 |-> t[j]]
      BY <2>0, <3>1, <3>2
    <3> HIDE DEF g
    <3> QED BY <2>1, <3>1, <3>3
  <2> QED BY <2>2, <2>3
<1>3. g[0] = <<>>
  <2>1. g[0] = [j \in 1 .. 0 - 1 |-> t[j]] /\ 1 .. 0 - 1 = {}
    BY <1>1
  <2> QED BY <2>1
<1>4. g[Len(q)] = t
  <2>1. (Len(t) + 1) - 1 = Len(t) /\ Len(t) + 1 \in 0 .. Len(t) + 1
    BY <1>1
  <2>2. g[Len(q)] = [j \in 1 .. Len(t) |-> t[j]]
    BY <1>1, <2>1
  <2> HIDE DEF g
  <2> QED BY <2>2
<1>5. Keeps(g, q, keep)
  <2> HIDE DEF g
  <2> QED BY <1>2, <1>3 DEF Keeps
<1>6. f[Len(q)] = g[Len(q)]
  <2> HIDE DEF g
  <2>1. Keeps(f, q, keep) /\ Len(q) \in Nat
    BY <1>1 DEF q
  <2> QED BY <1>5, <2>1, KeepsOne
<1> HIDE DEF g
<1> QED BY <1>4, <1>6 DEF q

(* The filter of CurlCommand keeps so. *)

LEMMA KeptIs ==
  ASSUME NEW T, NEW q \in Seq(T), NEW keep
  PROVE  \E f : Keeps(f, q, keep) /\ Curl!Kept(q, keep) = f[Len(q)]
<1> DEFINE N == Len(q)
           Loop(f) == f = [i \in 0 .. N |-> IF i = 0 THEN <<>>
                                            ELSE IF keep[i] THEN Append(f[i - 1], q[i]) ELSE f[i - 1]]
<1>0. N \in Nat
  OBVIOUS
<1>1. Curl!Kept(q, keep) = (CHOOSE f : Loop(f))[N]
  BY Zenon DEF Curl!Kept
<1>2. \E f : Loop(f)
  <2>1. PICK f : f = [i \in 0 .. N |-> f[i]] /\ Keeps(f, q, keep)
    BY KeepsSome
  <2>2. ASSUME NEW i \in 0 .. N
        PROVE  f[i] = IF i = 0 THEN <<>> ELSE IF keep[i] THEN Append(f[i - 1], q[i]) ELSE f[i - 1]
    <3>1. CASE i = 0
      BY <2>1, <3>1 DEF Keeps
    <3>2. CASE i # 0
      <4>1. i \in 1 .. N
        BY <1>0, <3>2
      <4>2. f[i] = IF keep[i] THEN Append(f[i - 1], q[i]) ELSE f[i - 1]
        BY <2>1, <4>1 DEF Keeps
      <4> QED BY <3>2, <4>2, Zenon
    <3> QED BY <3>1, <3>2
  <2> QED BY <2>1, <2>2, Zenon
<1>3. PICK f : f = (CHOOSE h : Loop(h)) /\ Loop(f)
  <2> HIDE DEF Loop
  <2> QED BY <1>2
<1>4. ASSUME NEW i \in 0 .. N
      PROVE  f[i] = IF i = 0 THEN <<>> ELSE IF keep[i] THEN Append(f[i - 1], q[i]) ELSE f[i - 1]
  BY <1>3
<1>5. Keeps(f, q, keep)
  <2> HIDE DEF Loop
  <2>1. 0 \in 0 .. N
    BY <1>0
  <2>2. f[0] = <<>>
    BY <1>4, <2>1
  <2>3. ASSUME NEW i \in 1 .. N PROVE f[i] = IF keep[i] THEN Append(f[i - 1], q[i]) ELSE f[i - 1]
    <3>1. i \in 0 .. N /\ i # 0
      BY <1>0
    <3>2. f[i] = IF i = 0 THEN <<>> ELSE IF keep[i] THEN Append(f[i - 1], q[i]) ELSE f[i - 1]
      BY <1>4, <3>1
    <3> QED BY <3>1, <3>2, Zenon
  <2> QED BY <2>2, <2>3 DEF Keeps
<1> HIDE DEF Loop
<1> QED BY <1>1, <1>3, <1>5

(* A filter whose test every item, no item, or only the first meets. *)

LEMMA KeptHolds ==
  ASSUME NEW T, NEW q \in Seq(T), NEW keep
  PROVE  /\ Curl!Kept(q, keep) \in Seq(T)
         /\ \A k \in DOMAIN Curl!Kept(q, keep) : \E i \in DOMAIN q : keep[i] /\ Curl!Kept(q, keep)[k] = q[i]
         /\ (\A i \in 1 .. Len(q) : keep[i]) => Curl!Kept(q, keep) = q
         /\ (\A i \in 1 .. Len(q) : ~keep[i]) => Curl!Kept(q, keep) = <<>>
<1>1. PICK f : Keeps(f, q, keep) /\ Curl!Kept(q, keep) = f[Len(q)]
  BY KeptIs
<1>2. PICK g : g = [i \in 0 .. Len(q) |-> g[i]] /\ Keeps(g, q, keep) /\ ChosenOf(g[Len(q)], q, keep, T)
  BY KeepsSome
<1>3. f[Len(q)] = g[Len(q)]
  BY <1>1, <1>2, KeepsOne
<1>4. ASSUME \A i \in 1 .. Len(q) : keep[i] PROVE f[Len(q)] = q
  BY <1>1, <1>4, KeepsAll
<1>5. ASSUME \A i \in 1 .. Len(q) : ~keep[i] PROVE f[Len(q)] = <<>>
  BY <1>1, <1>5, KeepsNone
<1> QED BY <1>1, <1>2, <1>3, <1>4, <1>5 DEF ChosenOf

LEMMA EnabledKept ==
  ASSUME NEW T, NEW q \in Seq(T)
  PROVE  /\ Curl!Filter(q, Curl!IsEnabled) \in Seq(T)
         /\ \A k \in DOMAIN Curl!Filter(q, Curl!IsEnabled) :
              \E i \in DOMAIN q : q[i].enabled /\ Curl!Filter(q, Curl!IsEnabled)[k] = q[i]
         /\ (\A i \in DOMAIN q : q[i].enabled) => Curl!Filter(q, Curl!IsEnabled) = q
<1> DEFINE keep == [i \in DOMAIN q |-> q[i].enabled]
<1>1. Curl!Filter(q, Curl!IsEnabled) = Curl!Kept(q, keep)
  BY Zenon DEF Curl!Filter, Curl!IsEnabled
<1>2. DOMAIN q = 1 .. Len(q)
  OBVIOUS
<1>3. \A i \in DOMAIN q : keep[i] <=> q[i].enabled
  BY Zenon
<1> HIDE DEF keep
<1> DEFINE e == Curl!Kept(q, keep)
<1>4. /\ e \in Seq(T) /\ \A k \in DOMAIN e : \E i \in DOMAIN q : keep[i] /\ e[k] = q[i]
      /\ (\A i \in 1 .. Len(q) : keep[i]) => e = q
  BY KeptHolds
<1> HIDE DEF e
<1>5. /\ e \in Seq(T) /\ \A k \in DOMAIN e : \E i \in DOMAIN q : q[i].enabled /\ e[k] = q[i]
      /\ (\A i \in DOMAIN q : q[i].enabled) => e = q
  BY <1>2, <1>3, <1>4, Zenon
<1> QED BY <1>1, <1>5 DEF e

(* What is enabled already is all kept. *)
LEMMA EnabledOnce ==
  ASSUME NEW T, NEW q \in Seq(T)
  PROVE  Curl!Filter(Curl!Filter(q, Curl!IsEnabled), Curl!IsEnabled) = Curl!Filter(q, Curl!IsEnabled)
<1> DEFINE e == Curl!Filter(q, Curl!IsEnabled)
<1>1. e \in Seq(T) /\ \A k \in DOMAIN e : \E i \in DOMAIN q : q[i].enabled /\ e[k] = q[i]
  BY EnabledKept
<1> HIDE DEF e
<1>2. \A k \in DOMAIN e : e[k].enabled
  BY <1>1
<1>3. Curl!Filter(e, Curl!IsEnabled) = e
  BY <1>1, <1>2, EnabledKept
<1> QED BY <1>3 DEF e

LEMMA ReadableKept ==
  ASSUME NEW T, NEW q \in Seq(T), \A i \in DOMAIN q : q[i].text # "double"
  PROVE  Curl!Filter(q, LAMBDA h : h.text # "double") = q
<1> DEFINE keep == [i \in DOMAIN q |-> q[i].text # "double"]
<1>1. Curl!Filter(q, LAMBDA h : h.text # "double") = Curl!Kept(q, keep)
  BY Zenon DEF Curl!Filter
<1>2. DOMAIN q = 1 .. Len(q)
  OBVIOUS
<1>3. \A i \in DOMAIN q : keep[i]
  BY Zenon
<1> HIDE DEF keep
<1> QED BY <1>1, <1>2, <1>3, KeptHolds

(* No authorization header beyond the first, and there or not. *)
LEMMA NoneAuthorized ==
  ASSUME NEW T, NEW q \in Seq(T), \A i \in DOMAIN q : q[i].key # "authorization"
  PROVE  Curl!AuthorizationsOf(q) = <<>>
<1> DEFINE keep == [i \in DOMAIN q |-> q[i].key = "authorization"]
<1>1. Curl!AuthorizationsOf(q) = Curl!Kept(q, keep)
  BY Zenon DEF Curl!Filter, Curl!AuthorizationsOf
<1>2. DOMAIN q = 1 .. Len(q)
  OBVIOUS
<1>3. \A i \in DOMAIN q : ~keep[i]
  BY Zenon
<1> HIDE DEF keep
<1> QED BY <1>1, <1>2, <1>3, KeptHolds

LEMMA FirstAuthorized ==
  ASSUME NEW T, NEW t \in Seq(T), NEW h \in T, h.key = "authorization",
         \A i \in DOMAIN t : t[i].key # "authorization"
  PROVE  /\ Curl!AuthorizationsOf(<<h>> \o t) = <<h>>
         /\ Curl!Filter(<<h>> \o t, LAMBDA x : x.key # "authorization") = t
<1> DEFINE q == <<h>> \o t
           keep == [i \in DOMAIN q |-> q[i].key = "authorization"]
           drop == [i \in DOMAIN q |-> q[i].key # "authorization"]
<1>1. Curl!AuthorizationsOf(q) = Curl!Kept(q, keep)
  BY Zenon DEF Curl!Filter, Curl!AuthorizationsOf
<1>2. Curl!Filter(q, LAMBDA x : x.key # "authorization") = Curl!Kept(q, drop)
  BY Zenon DEF Curl!Filter
<1>3. /\ q \in Seq(T) /\ Len(q) = Len(t) + 1 /\ Len(t) \in Nat /\ q[1] = h
      /\ \A i \in 2 .. Len(q) : q[i] = t[i - 1] /\ i - 1 \in DOMAIN t
  OBVIOUS
<1>4. DOMAIN q = 1 .. Len(q) /\ 1 \in DOMAIN q /\ \A i \in 2 .. Len(q) : i \in DOMAIN q
  BY <1>3
<1> HIDE DEF q
<1>5. keep[1] /\ ~drop[1] /\ \A i \in 2 .. Len(q) : ~keep[i] /\ drop[i]
  BY <1>3, <1>4
<1> HIDE DEF keep, drop
<1>6. Curl!Kept(q, keep) = <<h>>
  <2>1. PICK f : Keeps(f, q, keep) /\ Curl!Kept(q, keep) = f[Len(q)]
    BY <1>3, KeptIs
  <2> QED BY <1>3, <1>5, <2>1, KeepsHead
<1>7. Curl!Kept(q, drop) = t
  <2>1. PICK f : Keeps(f, q, drop) /\ Curl!Kept(q, drop) = f[Len(q)]
    BY <1>3, KeptIs
  <2>2. \A i \in 2 .. Len(t) + 1 : drop[i]
    BY <1>3, <1>5
  <2>3. ~drop[1]
    BY <1>5
  <2>4. f[Len(<<h>> \o t)] = t
    BY <2>1, <2>2, <2>3, KeepsRest DEF q
  <2> QED BY <2>1, <2>4 DEF q
<1> QED BY <1>1, <1>2, <1>6, <1>7 DEF q

(* What a user may have typed, and what the clipboard, the preview and a pasted *)
(* request then are.                                                            *)

Param == [name : {"a"}, enabled : BOOLEAN]

Editable ==
  [method : {"GET", "POST"}, base : {"full", "variable"}, params : Seq(Param),
   headers : Seq(Curl!Header), body : {None, "spaced"} \cup Curl!Text,
   bodyType : {"text", "form-data"}, auth : Curl!Auth]

PasteInv ==
  /\ pasted = None => editor \in Editable
  /\ \/ clip = None /\ ~open /\ pasted = None
     \/ copied \in Editable /\ clip = Curl!ToCurl(copied)
  /\ open => pasted = None /\ preview = Curl!ParseCurl(clip)
  /\ pasted = "text" =>
       /\ Curl!ParseCurl(Curl!ToCurl(copied)) # None
       /\ editor = [f \in DOMAIN copied |-> IF f = "bodyType" THEN "text"
                                            ELSE Curl!ParseCurl(Curl!ToCurl(copied))[f]]

LEMMA PasteInitial == Curl!Init => PasteInv
<1> SUFFICES ASSUME Curl!Init PROVE PasteInv
  OBVIOUS
<1>1. editor \in Editable
  <2>1. <<>> \in Seq(Param) /\ <<>> \in Seq(Curl!Header)
    OBVIOUS
  <2>2. Curl!NoAuth \in Curl!Auth
    BY DEF Curl!NoAuth, Curl!Auth
  <2> QED BY <2>1, <2>2 DEF Curl!Init, Editable
<1>2. None # "text"
  BY LibraryAssumption DEF Curl!CurlAssumption
<1> QED BY <1>1, <1>2 DEF Curl!Init, PasteInv

LEMMA PasteEdited ==
  ASSUME PasteInv, NEW field, NEW v, Curl!Edit(field, v),
         editor \in Editable => [editor EXCEPT ![field] = v] \in Editable
  PROVE  PasteInv'
<1>1. pasted = None /\ ~open /\ None # "text"
  BY LibraryAssumption DEF Curl!CurlAssumption, Curl!Edit
<1>2. editor' \in Editable
  BY <1>1 DEF Curl!Edit, PasteInv
<1>3. UNCHANGED <<clip, preview, open, copied, pasted>>
  BY DEF Curl!Edit
<1>4. \/ clip' = None /\ ~open' /\ pasted' = None
      \/ copied' \in Editable /\ clip' = Curl!ToCurl(copied')
  BY <1>3 DEF PasteInv
<1> QED BY <1>1, <1>2, <1>3, <1>4 DEF PasteInv

LEMMA PasteTyped == ASSUME PasteInv, Curl!UserEdits PROVE PasteInv'
<1>1. CASE Curl!Edit("method", "POST")
  <2>1. editor \in Editable => [editor EXCEPT !["method"] = "POST"] \in Editable
    BY DEF Editable
  <2> QED BY <1>1, <2>1, PasteEdited
<1>2. CASE Curl!Edit("base", "variable")
  <2>1. editor \in Editable => [editor EXCEPT !["base"] = "variable"] \in Editable
    BY DEF Editable
  <2> QED BY <1>2, <2>1, PasteEdited
<1>3. CASE Curl!Edit("bodyType", "form-data")
  <2>1. editor \in Editable => [editor EXCEPT !["bodyType"] = "form-data"] \in Editable
    BY DEF Editable
  <2> QED BY <1>3, <2>1, PasteEdited
<1>4. ASSUME NEW on \in BOOLEAN,
             Curl!Edit("params", Append(editor.params, [name |-> "a", enabled |-> on]))
      PROVE  PasteInv'
  <2> DEFINE more == Append(editor.params, [name |-> "a", enabled |-> on])
  <2>1. editor \in Editable => more \in Seq(Param)
    <3>1. [name |-> "a", enabled |-> on] \in Param
      BY DEF Param
    <3>2. editor \in Editable => editor.params \in Seq(Param)
      BY DEF Editable
    <3> QED BY <3>1, <3>2
  <2> HIDE DEF more
  <2>2. editor \in Editable => [editor EXCEPT !["params"] = more] \in Editable
    BY <2>1 DEF Editable
  <2>3. Curl!Edit("params", more)
    BY <1>4 DEF more
  <2> QED BY <2>2, <2>3, PasteEdited
<1>5. ASSUME NEW h \in Curl!Header, Curl!Edit("headers", Append(editor.headers, h))
      PROVE  PasteInv'
  <2> DEFINE more == Append(editor.headers, h)
  <2>1. editor \in Editable => more \in Seq(Curl!Header)
    <3>1. editor \in Editable => editor.headers \in Seq(Curl!Header)
      BY DEF Editable
    <3> QED BY <1>5, <3>1
  <2> HIDE DEF more
  <2>2. editor \in Editable => [editor EXCEPT !["headers"] = more] \in Editable
    BY <2>1 DEF Editable
  <2>3. Curl!Edit("headers", more)
    BY <1>5 DEF more
  <2> QED BY <2>2, <2>3, PasteEdited
<1>6. ASSUME NEW t \in Curl!Text \cup {"spaced"}, Curl!Edit("body", t) PROVE PasteInv'
  <2>1. editor \in Editable => [editor EXCEPT !["body"] = t] \in Editable
    BY DEF Editable
  <2> QED BY <1>6, <2>1, PasteEdited
<1>7. ASSUME NEW a \in Curl!Auth, Curl!Edit("auth", a) PROVE PasteInv'
  <2>1. editor \in Editable => [editor EXCEPT !["auth"] = a] \in Editable
    BY DEF Editable
  <2> QED BY <1>7, <2>1, PasteEdited
<1> QED BY <1>1, <1>2, <1>3, <1>4, <1>5, <1>6, <1>7 DEF Curl!UserEdits

LEMMA PasteStays == ASSUME PasteInv, [Curl!Next]_(Curl!curlVars) PROVE PasteInv'
<1>0. None # "text"
  BY LibraryAssumption DEF Curl!CurlAssumption
<1>1. CASE Curl!UserEdits
  BY <1>1, PasteTyped
<1>2. CASE Curl!HandleCurlExport
  <2>1. pasted = None /\ editor \in Editable
    BY <1>2 DEF PasteInv, Curl!HandleCurlExport
  <2> QED BY <1>0, <1>2, <2>1 DEF PasteInv, Curl!HandleCurlExport
<1>3. CASE Curl!UpdateCurlInput
  BY <1>0, <1>3 DEF PasteInv, Curl!UpdateCurlInput
<1>4. CASE Curl!CloseModal
  BY <1>0, <1>4 DEF PasteInv, Curl!CloseModal
<1>5. CASE Curl!LoadFromCurl
  <2>1. /\ pasted = None /\ copied \in Editable /\ clip = Curl!ToCurl(copied)
        /\ preview = Curl!ParseCurl(clip) /\ editor \in Editable
    BY <1>5 DEF PasteInv, Curl!LoadFromCurl
  <2>2. UNCHANGED <<clip, copied>> /\ ~open' /\ pasted' = editor.bodyType
    BY <1>5 DEF Curl!LoadFromCurl
  <2>3. DOMAIN editor = DOMAIN copied /\ editor.bodyType \in {"text", "form-data"}
    BY <2>1 DEF Editable
  <2>4. None \notin {"text", "form-data"}
    BY LibraryAssumption DEF Curl!CurlAssumption
  <2>5. pasted' = "text" =>
          editor' = [f \in DOMAIN copied |-> IF f = "bodyType" THEN "text"
                                             ELSE Curl!ParseCurl(Curl!ToCurl(copied))[f]]
    BY <1>5, <2>1, <2>2, <2>3, Zenon DEF Curl!LoadFromCurl
  <2>6. Curl!ParseCurl(Curl!ToCurl(copied')) # None
    BY <1>5, <2>1, <2>2 DEF Curl!LoadFromCurl
  <2> QED BY <2>1, <2>2, <2>3, <2>4, <2>5, <2>6 DEF PasteInv
<1>6. CASE UNCHANGED Curl!curlVars
  BY <1>6 DEF PasteInv, Curl!curlVars
<1> QED BY <1>1, <1>2, <1>3, <1>4, <1>5, <1>6 DEF Curl!Next

(* A command whose texts are read for what they are is read as it was written. *)

LEMMA ReadsHeaders ==
  ASSUME NEW q, NEW T, q \in Seq(T), \A i \in DOMAIN q : q[i].text = "plain",
         \A i \in DOMAIN q : q[i] = [q[i] EXCEPT !.text = "plain"],
         NEW c, c.headers = q
  PROVE  Curl!ExtractHeaders(c) = q
<1>1. Curl!Filter(q, LAMBDA h : h.text # "double") = q
  BY ReadableKept
<1>2. Curl!ExtractHeaders(c) = [i \in DOMAIN q |-> [q[i] EXCEPT !.text = Curl!Cut(@)]]
  BY <1>1, Zenon DEF Curl!ExtractHeaders
<1>3. \A i \in DOMAIN q : [q[i] EXCEPT !.text = Curl!Cut(q[i].text)] = q[i]
  BY DEF Curl!Cut
<1>4. Curl!ExtractHeaders(c) = [i \in DOMAIN q |-> q[i]]
  BY <1>2, <1>3, Zenon
<1>5. q = [i \in DOMAIN q |-> q[i]]
  OBVIOUS
<1> QED BY <1>4, <1>5

Plain == [key : {"x-any", "authorization"}, scheme : {None, "bearer", "basic", "digest"},
          text : {"plain"}, enabled : BOOLEAN]

LEMMA ReadsCredentials ==
  ASSUME NEW a \in Curl!Auth, a.type # "apikey", NEW q \in Seq(Plain),
         Curl!AuthHeaders(a) \o q \in Seq(Plain),
         \A i \in DOMAIN q : q[i].key # "authorization"
  PROVE  Curl!AuthFromHeader(Curl!AuthHeaders(a) \o q) = [auth |-> a, headers |-> q]
<1>1. CASE a.type \in {"bearer", "basic"}
  <2> DEFINE h == [key |-> "authorization", scheme |-> a.type, text |-> a.text, enabled |-> TRUE]
             c == Curl!AuthHeaders(a) \o q
  <2>1. Curl!AuthHeaders(a) = <<h>>
    BY <1>1 DEF Curl!AuthHeaders
  <2>2. h \in Plain
    <3>1. (<<h>> \o q)[1] = h /\ 1 \in DOMAIN (<<h>> \o q)
      <4> HIDE DEF h
      <4> QED OBVIOUS
    <3> HIDE DEF h
    <3> QED BY <2>1, <3>1
  <2>3. h.key = "authorization" /\ h.scheme = a.type /\ h.text = a.text
    OBVIOUS
  <2> HIDE DEF h
  <2>4. Curl!AuthorizationsOf(c) = <<h>> /\ Curl!Filter(c, LAMBDA x : x.key # "authorization") = q
    BY <2>1, <2>2, <2>3, FirstAuthorized
  <2> HIDE DEF c
  <2>5. <<h>> # <<>> /\ <<h>>[1] = h
    OBVIOUS
  <2>6. Curl!AuthFromHeader(c) = [auth |-> [type |-> h.scheme, in |-> None, text |-> h.text], headers |-> q]
    BY <1>1, <2>3, <2>4, <2>5, Zenon DEF Curl!AuthFromHeader
  <2>7. a = [type |-> a.type, in |-> None, text |-> a.text]
    BY <1>1 DEF Curl!Auth
  <2> QED BY <2>3, <2>6, <2>7 DEF c
<1>2. CASE a.type \notin {"bearer", "basic"}
  <2>1. a = Curl!NoAuth
    BY <1>2 DEF Curl!Auth, Curl!NoAuth
  <2>2. Curl!AuthHeaders(a) = <<>>
    BY <2>1 DEF Curl!AuthHeaders, Curl!NoAuth
  <2>3. <<>> \o q = q
    OBVIOUS
  <2>4. Curl!AuthorizationsOf(q) = <<>>
    BY NoneAuthorized
  <2>5. Curl!AuthFromHeader(q) = [auth |-> Curl!NoAuth, headers |-> q]
    BY <2>4, Zenon DEF Curl!AuthFromHeader
  <2> QED BY <2>1, <2>2, <2>3, <2>5
<1> QED BY <1>1, <1>2

LEMMA PasteGivesBack == PasteInv => Curl!PastedAsCopied
<1> DEFINE c == Curl!ToCurl(copied)
           e == Curl!Filter(copied.headers, Curl!IsEnabled)
           p == Curl!Filter(copied.params, Curl!IsEnabled)
<1> SUFFICES ASSUME PasteInv, pasted = "text", Curl!Harmless(c), copied.base = "full",
                    copied.bodyType = "text", copied.auth.type # "apikey",
                    \A i \in DOMAIN copied.headers :
                      copied.headers[i].enabled => copied.headers[i].key # "authorization"
             PROVE  Curl!Sent(editor) = Curl!Sent(copied)
  BY DEF Curl!PastedAsCopied
<1>1. copied \in Editable
  BY LibraryAssumption DEF PasteInv, Curl!CurlAssumption
<1>2. /\ copied.headers \in Seq(Curl!Header) /\ copied.params \in Seq(Param)
      /\ copied.auth \in Curl!Auth
      /\ DOMAIN copied = {"method", "base", "params", "headers", "body", "bodyType", "auth"}
  BY <1>1 DEF Editable
<1>3. /\ e \in Seq(Curl!Header)
      /\ \A k \in DOMAIN e : \E i \in DOMAIN copied.headers :
           copied.headers[i].enabled /\ e[k] = copied.headers[i]
  BY <1>2, EnabledKept
<1>4. /\ c.method = copied.method /\ c.headers = Curl!AuthHeaders(copied.auth) \o e
      /\ c.body = copied.body /\ c.base = "full" /\ c.query = p
  BY DEF Curl!ToCurl
<1>5. Curl!Filter(e, Curl!IsEnabled) = e /\ Curl!Filter(p, Curl!IsEnabled) = p
  BY <1>2, EnabledOnce
<1> HIDE DEF c, e, p
<1> DEFINE w == Curl!AuthHeaders(copied.auth)
<1>6. \A k \in DOMAIN e : e[k].key # "authorization"
  BY <1>3
<1>7. (\A i \in DOMAIN c.headers : c.headers[i].text = "plain") /\ c.body \in {None, "plain", "double"}
  BY DEF Curl!Harmless
<1> DEFINE W == [key : {"authorization"}, scheme : {"bearer", "basic"}, text : Curl!Text, enabled : {TRUE}]
<1>8. w \in Seq(W)
  <2>1. CASE copied.auth.type \in {"bearer", "basic"}
    <3> DEFINE h == [key |-> "authorization", scheme |-> copied.auth.type,
                     text |-> copied.auth.text, enabled |-> TRUE]
    <3>1. w = <<h>>
      BY <2>1 DEF Curl!AuthHeaders
    <3>2. copied.auth.text \in Curl!Text
      BY <1>2, <2>1 DEF Curl!Auth, Curl!Text
    <3>3. h \in W
      BY <2>1, <3>2
    <3> HIDE DEF h, w, W
    <3> QED BY <3>1, <3>3
  <2>2. CASE copied.auth.type \notin {"bearer", "basic"}
    <3>1. w = <<>>
      BY <2>2 DEF Curl!AuthHeaders
    <3> QED BY <3>1
  <2> QED BY <2>1, <2>2
<1> HIDE DEF w
<1>9. w \o e \in Seq(Plain) /\ e \in Seq(Plain)
  <2>1. \A i \in DOMAIN (w \o e) : (w \o e)[i].text = "plain"
    BY <1>4, <1>7 DEF w
  <2>2. \A i \in DOMAIN w : w[i].text = "plain"
    <3>1. \A i \in DOMAIN w : i \in DOMAIN (w \o e) /\ (w \o e)[i] = w[i]
      BY <1>3, <1>8
    <3> QED BY <2>1, <3>1
  <2>3. \A i \in DOMAIN e : e[i].text = "plain"
    <3>1. \A i \in DOMAIN e : i + Len(w) \in DOMAIN (w \o e) /\ (w \o e)[i + Len(w)] = e[i]
      BY <1>3, <1>8
    <3> QED BY <2>1, <3>1
  <2>4. \A i \in DOMAIN w : w[i] \in Plain
    <3>1. \A i \in DOMAIN w : w[i] \in W
      <4> HIDE DEF W
      <4> QED BY <1>8
    <3> QED BY <2>2, <3>1 DEF Plain
  <2>5. \A i \in DOMAIN e : e[i] \in Plain
    <3>1. \A i \in DOMAIN e : e[i] \in Curl!Header
      BY <1>3
    <3> QED BY <2>3, <3>1 DEF Plain, Curl!Header
  <2>6. w \in Seq(Plain) /\ e \in Seq(Plain)
    BY <1>3, <1>8, <2>4, <2>5
  <2> QED BY <2>6
<1>10. Curl!ExtractHeaders(c) = w \o e
  <2> DEFINE q == w \o e
  <2>1. \A i \in DOMAIN q : q[i] \in Plain
    BY <1>9
  <2> HIDE DEF q
  <2>2. \A i \in DOMAIN q : q[i].text = "plain" /\ q[i] = [q[i] EXCEPT !.text = "plain"]
    BY <2>1 DEF Plain
  <2>3. c.headers = q /\ q \in Seq(Plain)
    BY <1>4, <1>9 DEF q, w
  <2>4. Curl!ExtractHeaders(c) = q
    BY <2>2, <2>3, ReadsHeaders
  <2> QED BY <2>4 DEF q
<1>11. Curl!AuthFromHeader(w \o e) = [auth |-> copied.auth, headers |-> e]
  BY <1>2, <1>6, <1>9, ReadsCredentials DEF w
<1>12. Curl!ExtractUrl(c) = [base |-> "full", query |-> p]
  <2>1. None \notin {"link", "plain", "double"}
    BY LibraryAssumption DEF Curl!CurlAssumption, Curl!Text
  <2>2. c.body # "link" /\ \A i \in DOMAIN c.headers : c.headers[i].text # "link"
    BY <1>7, <2>1
  <2> QED BY <1>4, <2>2, Zenon DEF Curl!ExtractUrl
<1>13. Curl!ExtractBody(c) = copied.body
  <2>1. c.body # "spaced" /\ c.body # "single"
    BY <1>7, LibraryAssumption DEF Curl!CurlAssumption, Curl!Text
  <2> QED BY <1>4, <2>1, Zenon DEF Curl!ExtractBody, Curl!Cut
<1> DEFINE read == Curl!ParseCurl(c)
<1>14. /\ read # None
       /\ editor = [f \in DOMAIN copied |-> IF f = "bodyType" THEN "text" ELSE read[f]]
  BY DEF PasteInv, c
<1>15. read = [method |-> copied.method, base |-> "full", params |-> p, headers |-> e,
               auth |-> copied.auth, body |-> copied.body]
  <2> DEFINE url == [base |-> "full", query |-> p]
             found == [auth |-> copied.auth, headers |-> e]
  <2>1. read = IF Curl!ExtractUrl(c) = None THEN None
               ELSE [method |-> c.method, base |-> Curl!ExtractUrl(c).base,
                     params |-> Curl!ExtractUrl(c).query,
                     headers |-> Curl!AuthFromHeader(Curl!ExtractHeaders(c)).headers,
                     auth |-> Curl!AuthFromHeader(Curl!ExtractHeaders(c)).auth,
                     body |-> Curl!ExtractBody(c)]
    BY Zenon DEF Curl!ParseCurl
  <2>2. read = [method |-> c.method, base |-> url.base, params |-> url.query,
                headers |-> found.headers, auth |-> found.auth, body |-> copied.body]
    <3> HIDE DEF read, url, found
    <3> QED BY <1>10, <1>11, <1>12, <1>13, <1>14, <2>1, Zenon DEF url, found
  <2>3. url.base = "full" /\ url.query = p /\ found.headers = e /\ found.auth = copied.auth
    OBVIOUS
  <2> HIDE DEF read, url, found
  <2> QED BY <1>4, <2>2, <2>3, Zenon
<1> HIDE DEF read
<1>16. /\ editor.method = copied.method /\ editor.base = copied.base /\ editor.params = p
       /\ editor.headers = e /\ editor.auth = copied.auth /\ editor.body = copied.body
  BY <1>2, <1>14, <1>15
<1> QED BY <1>5, <1>16, Zenon DEF Curl!Sent, e, p

(* A step of the library that is no step of this part leaves it as it is. *)
LEMMA PasteNext ==
  [LibraryNext]_<<part, vars, importVars, postmanVars, openApiVars, curlVars>>
    => [Curl!Next]_(Curl!curlVars)
  BY DEF LibraryNext, MovesStep, TagsStep, ImportStep, PostmanStep, OpenApiStep, CurlStep,
         curlVars, Curl!curlVars

(* What is pasted is the request that was copied: the command is read as it was  *)
(* written wherever its texts can be, and what is enabled stays so.             *)
THEOREM PastesWhatWasCopied == LibrarySpec => []PastedAsCopied
<1>1. LibraryInit => PasteInv
  BY PasteInitial DEF LibraryInit
<1>2. PasteInv /\ [LibraryNext]_<<part, vars, importVars, postmanVars, openApiVars, curlVars>>
        => PasteInv'
  BY PasteStays, PasteNext
<1>3. PasteInv => PastedAsCopied
  BY PasteGivesBack DEF PastedAsCopied
<1> QED BY <1>1, <1>2, <1>3, PTL DEF LibrarySpec

=============================================================================
