--------------------------- MODULE ScriptedRequest ---------------------------
(***************************************************************************)
(* What a pre-request script does to the headers or the parameters of its  *)
(* request through pm.request, and what is sent then: buildPmObject of     *)
(* public/sandbox.html and cli/sandbox.ts, and the merge of                *)
(* runPreRequestScript in hooks/useScriptRunner.ts.                        *)
(*                                                                         *)
(* The sandbox works on copies of both lists.  The two runners send what   *)
(* the script left; the builder goes through the request's own list, takes *)
(* values over by name and adds names that are new.                        *)
(***************************************************************************)
EXTENDS Naturals, Sequences, SequencesExt

CONSTANTS
  ItemNames,
  Folded,      \* Folded[n]: the name in lower case
  ItemValues,
  MaxItems,    \* bound on the items of a request
  MaxEdits     \* bound on what a script does

ItemsAssumption == MaxItems \in Nat

VARIABLES
  program,   \* "builder", "runner" or "cli"
  list,      \* "headers" or "params"
  original,  \* the request's list
  work,      \* the script's
  edits,     \* edits made
  sent,      \* what is sent in the end
  ended,
  removed,   \* history: the script removed an item
  repeated   \* history: a name was in the script's list more than once

requestVars == <<program, list, original, work, edits, sent, ended, removed, repeated>>

Item == [name : ItemNames, value : ItemValues]

\* The names of headers compare without case.
Same(m, n) == IF list = "headers" THEN Folded[m] = Folded[n] ELSE m = n

Holds(q, n) == \E i \in DOMAIN q : Same(q[i].name, n)

\* findIndex and find.
FirstOf(q, n) == CHOOSE i \in DOMAIN q : Same(q[i].name, n) /\ \A j \in 1 .. i - 1 : ~Same(q[j].name, n)

Repeats(q) == \E i, j \in DOMAIN q : i # j /\ Same(q[i].name, q[j].name)

Init ==
  /\ program \in {"builder", "runner", "cli"}
  /\ list \in {"headers", "params"}
  /\ original \in UNION {[1 .. n -> Item] : n \in 0 .. MaxItems}
  /\ work = original /\ sent = <<>> /\ ended = FALSE /\ edits = 0
  /\ removed = FALSE /\ repeated = Repeats(original)

\* Adding a header that is there gives it a value, and a name in the case of the
\* argument with the command line runner; a parameter is always added.
With(q, item) ==
  IF list = "params" \/ ~Holds(q, item.name) THEN Append(q, item)
  ELSE LET i == FirstOf(q, item.name)
       IN IF program = "cli" THEN [q EXCEPT ![i] = item]
          ELSE [q EXCEPT ![i].value = item.value]

Edit ==
  /\ ~ended /\ edits < MaxEdits
  /\ edits' = edits + 1
  /\ repeated' = (repeated \/ Repeats(work'))
  /\ UNCHANGED <<program, list, original, sent, ended>>

Add(item) == work' = With(work, item) /\ removed' = removed /\ Edit

\* The first one of that name.
Discard(n) ==
  /\ IF Holds(work, n) THEN work' = RemoveAt(work, FirstOf(work, n)) /\ removed' = TRUE
                       ELSE UNCHANGED <<work, removed>>
  /\ Edit

\* The request's items with the script's values.
Valued(q, w) ==
  [i \in DOMAIN q |-> IF Holds(w, q[i].name)
                      THEN [q[i] EXCEPT !.value = w[FirstOf(w, q[i].name)].value] ELSE q[i]]

\* Faulty variant: names that are new are left out.
MergedOld(q, w) == Valued(q, w)

\* The builder: these, then items of names not there yet.
Merged(q, w) ==
  LET merged[i \in 0 .. Len(w)] ==
        IF i = 0 THEN Valued(q, w)
        ELSE IF Holds(merged[i - 1], w[i].name) THEN merged[i - 1] ELSE Append(merged[i - 1], w[i])
  IN merged[Len(w)]

End ==
  /\ ~ended /\ ended' = TRUE
  /\ sent' = IF program = "builder" THEN Merged(original, work) ELSE work
  /\ UNCHANGED <<program, list, original, work, edits, removed, repeated>>

Next == (\E item \in Item : Add(item)) \/ (\E n \in ItemNames : Discard(n)) \/ End

Spec == Init /\ [][Next]_requestVars

\* Names and values, the case of a header's name aside.
Pairs(q) ==
  {<<IF list = "headers" THEN Folded[q[i].name] ELSE q[i].name, q[i].value>> : i \in DOMAIN q}

\* What a script leaves in pm.request is what is sent, in all three programs;
\* except that the builder sends again what the script removed, and gives all items
\* of one name one value.
SentAsLeft ==
  ended => \/ Pairs(sent) = Pairs(work)
           \/ program = "builder" /\ (removed \/ repeated)

=============================================================================
