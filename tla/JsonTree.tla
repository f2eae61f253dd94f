------------------------------ MODULE JsonTree ------------------------------
(***************************************************************************)
(* The tree that shows a JSON response: hooks/useJsonTree.ts,              *)
(* utils/json.util.ts, components/json/JsonNode.tsx, JsonTreeViewer.tsx    *)
(* and hooks/useJsonPath.ts.                                               *)
(*                                                                         *)
(* A node is known by a path, a text that JsonNode builds on the way down  *)
(* and that getValueAtPath takes apart again, to copy the value of the     *)
(* node the user pointed at.  The hook's own walks build paths in their    *)
(* own way.  A text is kept as the parts between its dots, each a name     *)
(* with the indices in brackets that follow it.                            *)
(***************************************************************************)
EXTENDS Naturals, Sequences, FiniteSets

CONSTANTS
  Plain,     \* keys of letters, digits and underscores
  Digits,    \* Digits[i + 1]: the number i as text
  Odd,       \* keys with other characters, but a dot
  Dotted,    \* keys with a dot in them
  PartsOf,   \* PartsOf[k]: what is between the dots of key k
  MaxNodes,  \* bound on the nodes of a document
  Large,     \* items up to which an array is open at first: 10
  Many,      \* items up to which all of an array are shown: 100
  MaxSteps   \* bound on the steps of a behaviour

VARIABLES
  doc,        \* the document: for each node its kind, its parent and its key or index
  collapsed,  \* paths the hook has as collapsed
  matches,    \* paths found by the search
  more,       \* nodes of which all items are shown
  active,     \* the path last pointed at
  steps

vars == <<doc, collapsed, matches, more, active, steps>>

\* What comes before brackets that stand alone, and a text that is the key of no node.
Bare == "bare"
Unknown == "unknown"

\* What brackets are understood after.
Words == Plain \cup {Digits[i] : i \in DOMAIN Digits}

\* A key is of one of the three kinds, and there are digits for every index.
JsonAssumption ==
  /\ MaxNodes \in Nat \ {0, 1}
  /\ Digits \in Seq(STRING) /\ Len(Digits) >= MaxNodes - 1
  /\ \A i, j \in DOMAIN Digits : Digits[i] = Digits[j] => i = j
  /\ Words \cup Odd \cup Dotted \subseteq STRING \ {Bare, Unknown}
  /\ Words \cap Odd = {} /\ (Words \cup Odd) \cap Dotted = {}
  /\ DOMAIN PartsOf = Dotted
  /\ \A k \in Dotted : PartsOf[k] \in Seq(STRING) /\ PartsOf[k] # <<>>

Keys == Plain \cup Odd \cup Dotted
Kinds == {"object", "array", "leaf"}

(***************************************************************************)
(* Documents.  Node 1 is the root, a parent comes before its children.     *)
(***************************************************************************)
Nodes(d) == DOMAIN d.kind

Children(d, n) == {c \in Nodes(d) \ {1} : d.parent[c] = n}

\* The index of an item in its array.
Index(d, c) == Cardinality({b \in Children(d, d.parent[c]) : b < c})

InArray(d, c) == d.kind[d.parent[c]] = "array"

WellFormed(d) ==
  /\ \A c \in Nodes(d) \ {1} : d.kind[d.parent[c]] # "leaf"
  /\ \A b, c \in Nodes(d) \ {1} : b # c /\ d.parent[b] = d.parent[c] /\ ~InArray(d, b)
                                  => d.key[b] # d.key[c]
  /\ \A c \in Nodes(d) \ {1} : InArray(d, c) => d.key[c] = Digits[1]

Documents(n) ==
  {d \in [kind : [1 .. n -> Kinds],
          parent : {p \in [1 .. n -> 1 .. n] : p[1] = 1 /\ \A c \in 2 .. n : p[c] < c},
          key : {k \in [1 .. n -> Keys] : k[1] = Digits[1]}] : WellFormed(d)}

-----------------------------------------------------------------------------
(***************************************************************************)
(* Paths.                                                                  *)
(***************************************************************************)
Part(name) == [name |-> name, indices |-> <<>>]

WithIndex(path, i) == [path EXCEPT ![Len(path)].indices = Append(@, i)]

AsParts(k) == IF k \in Dotted THEN [i \in DOMAIN PartsOf[k] |-> Part(PartsOf[k][i])] ELSE <<Part(k)>>

\* Faulty variant: a number at the root is put in brackets.
BuildPathBrackets(d, path, c) ==
  IF ~InArray(d, c) THEN path \o AsParts(d.key[c])
  ELSE IF path = <<>> THEN <<[name |-> Bare, indices |-> <<Index(d, c)>>]>>
  ELSE WithIndex(path, Index(d, c))

\* buildPath: at the root, a number is a name.
BuildPath(d, path, c) ==
  IF ~InArray(d, c) THEN path \o AsParts(d.key[c])
  ELSE IF path = <<>> THEN <<Part(Digits[Index(d, c) + 1])>>
  ELSE WithIndex(path, Index(d, c))

\* Faulty variant: an index follows a dot.
WalkPathDots(d, path, c) ==
  IF InArray(d, c) THEN Append(path, Part(Digits[Index(d, c) + 1])) ELSE BuildPath(d, path, c)

\* What the walks of the hook build.
WalkPath(d, path, c) ==
  IF InArray(d, c) /\ path = <<>> THEN <<[name |-> Bare, indices |-> <<Index(d, c)>>]>>
  ELSE BuildPath(d, path, c)

\* The path of every node, as JsonNode has it and as a walk has it.
PathOf(d) ==
  LET path[n \in Nodes(d)] == IF n = 1 THEN <<>> ELSE BuildPath(d, path[d.parent[n]], n) IN path

Walked(d) ==
  LET path[n \in Nodes(d)] == IF n = 1 THEN <<>> ELSE WalkPath(d, path[d.parent[n]], n) IN path

Text(s) == [kind |-> "text", text |-> s, number |-> 0]
Number(i) == [kind |-> "number", text |-> Unknown, number |-> i]

\* parsePathSegments: brackets are understood after letters, digits and underscores,
\* or alone.
SegmentsOf(part) ==
  IF part.name \in Words
    THEN <<Text(part.name)>> \o [i \in DOMAIN part.indices |-> Number(part.indices[i])]
  ELSE IF part.name # Bare THEN <<IF part.indices = <<>> THEN Text(part.name) ELSE Text(Unknown)>>
  ELSE IF Len(part.indices) = 1 THEN <<Number(part.indices[1])>> ELSE <<Text(Unknown)>>

Segments(path) ==
  LET upTo[i \in 0 .. Len(path)] ==
        IF i = 0 THEN <<>> ELSE upTo[i - 1] \o SegmentsOf(path[i])
  IN upTo[Len(path)]

\* A number is for arrays only, a text for both.
Follow(d, n, s) ==
  {c \in Children(d, n) : IF s.kind = "number" THEN InArray(d, c) /\ Index(d, c) = s.number
                          ELSE IF InArray(d, c) THEN Digits[Index(d, c) + 1] = s.text
                          ELSE d.key[c] = s.text}

\* getValueAtPath: the node, or none.
Found(d, segments) ==
  LET after[i \in 0 .. Len(segments)] ==
        IF i = 0 THEN {1} ELSE UNION {Follow(d, n, segments[i]) : n \in after[i - 1]}
  IN after[Len(segments)]

ValueAt(d, path) == Found(d, Segments(path))

\* Segments that the formats for brackets, Python and JSONPath are written from: the
\* keys and indices on the way to the node.
Way(d) ==
  LET way[n \in Nodes(d)] ==
        IF n = 1 THEN <<>>
        ELSE Append(way[d.parent[n]], IF InArray(d, n) THEN Number(Index(d, n)) ELSE Text(d.key[n]))
  IN way

-----------------------------------------------------------------------------
(***************************************************************************)
(* The tree.                                                               *)
(***************************************************************************)
Containers(d) == {n \in Nodes(d) : d.kind[n] # "leaf"}

Size(d, n) == Cardinality(Children(d, n))

\* What the first walk reaches: of an array, its first items.
Reached(d) ==
  LET reached[n \in Nodes(d)] ==
        n = 1 \/ (reached[d.parent[n]] /\ (InArray(d, n) => Index(d, n) < Large))
  IN {n \in Nodes(d) : reached[n]}

AutoCollapsed(d) ==
  {Walked(d)[n] : n \in {m \in Reached(d) : d.kind[m] = "array" /\ Size(d, m) > Large}}

\* Only the root is asked whether it is collapsed: its descendants are drawn open.
Drawn(d, closed) == IF <<>> \in closed THEN {1} ELSE Nodes(d)

Init ==
  /\ doc \in UNION {Documents(n) : n \in 1 .. MaxNodes}
  /\ collapsed = AutoCollapsed(doc)
  /\ matches = {} /\ more = {} /\ active = <<>> /\ steps = 0

Step == steps < MaxSteps /\ steps' = steps + 1

\* Another response; what was pointed at stays, and "show all" of nodes with the same
\* keys and indices on the way.
NewDocument(d) ==
  /\ Step
  /\ doc' = d
  /\ collapsed' = AutoCollapsed(d)
  /\ matches' = {}
  /\ more' = {n \in Drawn(d, AutoCollapsed(d)) :
                \E m \in more : n \in Nodes(d) /\ Way(d)[n] = Way(doc)[m]}
  /\ UNCHANGED active

\* Closing the root ends the nodes under it.
Collapse(closed) ==
  /\ Step
  /\ collapsed' = closed
  /\ more' = more \cap Drawn(doc, closed)
  /\ UNCHANGED <<doc, active>>

ToggleCollapse(n) ==
  LET path == PathOf(doc)[n]
  IN /\ n \in Containers(doc) \cap Drawn(doc, collapsed)
     /\ Collapse(IF path \in collapsed THEN collapsed \ {path} ELSE collapsed \cup {path})
     /\ UNCHANGED matches

\* All but the root.
CollapseAll == Collapse({Walked(doc)[n] : n \in Containers(doc) \ {1}}) /\ UNCHANGED matches

ExpandAll == Collapse({}) /\ UNCHANGED matches

ShowMore(n) ==
  /\ Step
  /\ n \in Drawn(doc, collapsed) /\ doc.kind[n] = "array" /\ Size(doc, n) > Many
  /\ more' = more \cup {n}
  /\ UNCHANGED <<doc, collapsed, matches, active>>

\* searchJson: keys that contain the query and values that are such strings, and what
\* they are in.
Searchable == {n \in Nodes(doc) \ {1} : ~InArray(doc, n) \/ doc.kind[n] = "leaf"}

SetSearchQuery(found) ==
  /\ found \subseteq Searchable
  /\ matches' = {PathOf(doc)[n] : n \in found \cup {doc.parent[n] : n \in found}} \ {<<>>}
  /\ Collapse(collapsed \ matches')

ClearSearch == Collapse({}) /\ matches' = {}

\* showContextMenu; the root has no menu, and an item not shown none either.
Shown ==
  LET shown[n \in Nodes(doc)] ==
        n = 1 \/ /\ shown[doc.parent[n]] /\ n \in Drawn(doc, collapsed)
                 /\ InArray(doc, n) => Index(doc, n) < Many \/ doc.parent[n] \in more
  IN {n \in Nodes(doc) : shown[n]}

ShowContextMenu(n) ==
  /\ Step
  /\ n \in Shown
  /\ active' = PathOf(doc)[n]
  /\ UNCHANGED <<doc, collapsed, matches, more>>

\* Of the menu: the hook finds the node by the same text, split at dots and brackets,
\* and then goes by its own names.
Below(n) ==
  LET below[m \in Nodes(doc)] == m = n \/ (m # 1 /\ below[doc.parent[m]])
  IN {PathOf(doc)[m] : m \in {c \in Containers(doc) : below[c]}}

HasMenu(n) == active = PathOf(doc)[n] /\ n # 1 /\ n \in Containers(doc) /\ ValueAt(doc, active) = {n}

ExpandChildren(n) == HasMenu(n) /\ Collapse(collapsed \ Below(n)) /\ UNCHANGED matches

CollapseChildren(n) ==
  HasMenu(n) /\ Collapse(collapsed \cup (Below(n) \ {active})) /\ UNCHANGED matches

Next ==
  \/ \E d \in Documents(2) : NewDocument(d)
  \/ CollapseAll \/ ExpandAll \/ ClearSearch
  \/ \E found \in SUBSET Nodes(doc) : found # {} /\ SetSearchQuery(found)
  \/ \E n \in Nodes(doc) : \/ ToggleCollapse(n) \/ ShowMore(n) \/ ShowContextMenu(n)
                           \/ ExpandChildren(n) \/ CollapseChildren(n)

Spec == Init /\ [][Next]_vars

-----------------------------------------------------------------------------
(***************************************************************************)
(* Properties.                                                             *)
(***************************************************************************)
\* A key with a dot on the way, or another odd one with an index after it.
Lost(d) ==
  {n \in Nodes(d) :
     LET way == Way(d)[n]
     IN \E i \in DOMAIN way :
          \/ way[i].text \in Dotted
          \/ way[i].kind = "number" /\ i > 1 /\ way[i - 1].text \in Odd}

\* The path of a node leads back to that node, whatever keys and indices it is made
\* of, but those that dots and brackets cannot tell apart; and but for an array at the
\* root, whose items are taken by a text, it is taken apart into just these keys and
\* indices, which Python and JSONPath are then written from.
PathsLeadBack ==
  \A n \in Nodes(doc) \ Lost(doc) :
    LET path == PathOf(doc)[n]
    IN /\ ValueAt(doc, path) = {n}
       /\ doc.kind[1] # "array" => Segments(path) = Way(doc)[n]

\* The hook has as collapsed only containers of the response on display, under the
\* names that the tree asks for; but for an array at the root, whose items the two
\* name differently.
CollapsedAreNodes ==
  doc.kind[1] # "array" => collapsed \subseteq {PathOf(doc)[n] : n \in Containers(doc)}

=============================================================================
