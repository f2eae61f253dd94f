--------------------------- MODULE WebViewsProofs ---------------------------
(***************************************************************************)
(* Proofs about what the browser shows, for any number of tabs, entries,   *)
(* environments, rows, collections, requests, jobs and steps, and for any  *)
(* document: the history, the request that is sent, the playground, the    *)
(* lists of the sidebar, the scripts' request, the tree of a response.     *)
(***************************************************************************)
EXTENDS MCWebViews, FiniteSetTheorems, SequenceTheorems, TLAPS

(***************************************************************************)
(* Numbers.                                                                *)
(***************************************************************************)

\* Every set of numbers has a least one: the intervals below them are finite, and
\* inclusion of finite sets is well founded.
LEMMA LeastOf ==
  ASSUME NEW C \in SUBSET Nat, C # {}
  PROVE  \E n \in C : \A m \in C : n <= m
<1> DEFINE R == StrictSubsetOrdering(Nat)
           T == {1 .. n : n \in C}
<1>1. IsWellFoundedOn(R, FiniteSubsetsOf(Nat))
  BY FS_StrictSubsetOrderingWellFounded
<1>2. T \subseteq FiniteSubsetsOf(Nat) /\ T # {}
  <2>1. ASSUME NEW n \in C PROVE 1 .. n \in SUBSET Nat /\ IsFiniteSet(1 .. n)
    BY FS_Interval
  <2> QED BY <2>1 DEF FiniteSubsetsOf
<1> HIDE DEF R, T
<1>3. PICK x \in T : \A y \in T : ~(<<y, x>> \in R)
  BY <1>1, <1>2, WFMin
<1>4. PICK n \in C : x = 1 .. n
  BY DEF T
<1>5. ASSUME NEW m \in C, m < n PROVE FALSE
  <2>1. 1 .. m \in T
    BY DEF T
  <2>2. <<1 .. m, 1 .. n>> \in R
    <3>1. 1 .. m \subseteq 1 .. n /\ 1 .. m \in SUBSET Nat /\ 1 .. n \in SUBSET Nat
      BY <1>5
    <3>2. n \in 1 .. n /\ n \notin 1 .. m
      BY <1>5
    <3> QED BY <3>1, <3>2 DEF R, StrictSubsetOrdering
  <2> QED BY <1>3, <1>4, <2>1, <2>2
<1> QED BY <1>5

\* Induction, over the set of numbers of which something holds.
LEMMA Induction ==
  ASSUME NEW S, 0 \in S, \A n \in Nat : n \in S => n + 1 \in S
  PROVE  \A n \in Nat : n \in S
<1> SUFFICES ASSUME Nat \ S # {} PROVE FALSE
  OBVIOUS
<1>1. PICK n \in Nat \ S : \A m \in Nat \ S : n <= m
  BY LeastOf
<1>2. n # 0 /\ n - 1 \in Nat /\ n - 1 \in S
  BY <1>1
<1> QED BY <1>2

(***************************************************************************)
(* The history.                                                            *)
(***************************************************************************)

\* A query answered and not yet shown holds the newest entries, and so does the list
\* shown once no query is under way, unless another tab changed them, or a call of
\* the tab ended, whose answer renders the page.
Awaited(t, seen) == behind[t] \/ call[t].at = "ended" \/ seen = Past!Newest(PageLimit)

TabInv(t) ==
  /\ shown[t] \in Seq(Nat) \cup {None}
  /\ listing[t].list \in Seq(Nat)
  /\ listing[t].at \in {"no", "asked", "answered"}
  /\ shown[t] = None => listing[t].at # "no"
  /\ listing[t].at = "no" => Awaited(t, shown[t])
  /\ listing[t].at = "answered" /\ shown[t] # None => Awaited(t, listing[t].list)

HistoryTypes ==
  /\ rows \in Seq(Nat) /\ made \in Nat
  /\ shown = [t \in Tabs |-> shown[t]]
  /\ listing = [t \in Tabs |-> listing[t]]
  /\ call = [t \in Tabs |-> call[t]]
  /\ behind = [t \in Tabs |-> behind[t]]
  /\ \A t \in Tabs : call[t] = [at |-> call[t].at, id |-> call[t].id]

HistoryInv == HistoryTypes /\ \A t \in Tabs : TabInv(t)

LEMMA Added == ASSUME NEW n \in Nat, NEW q \in Seq(Nat) PROVE <<n>> \o q \in Seq(Nat)
OBVIOUS

LEMMA Removed ==
  ASSUME NEW q \in Seq(Nat), NEW i \in DOMAIN q
  PROVE  Past!RemoveAt(q, i) \in Seq(Nat)
BY DEF Past!RemoveAt

LEMMA NewestType == ASSUME rows \in Seq(Nat) PROVE Past!Newest(PageLimit) \in Seq(Nat)
BY ViewsAssumption DEF Past!Newest, Past!HistoryAssumption

LEMMA NoneIsNoList == None \notin Seq(Nat)
BY ViewsAssumption DEF Past!HistoryAssumption

LEMMA HistoryInit == Past!Init => HistoryInv
<1> SUFFICES ASSUME Past!Init PROVE HistoryInv
  OBVIOUS
<1>1. <<>> \in Seq(Nat)
  OBVIOUS
<1>2. HistoryTypes
  BY <1>1 DEF Past!Init, HistoryTypes, Past!NoCall
<1>3. \A t \in Tabs : TabInv(t)
  BY <1>1 DEF Past!Init, TabInv, Past!NoFetch
<1> QED BY <1>2, <1>3 DEF HistoryInv

\* After a render there is no list, or the list is asked for.
LEMMA RenderKeeps ==
  ASSUME HistoryInv, NEW t \in Tabs, Past!Rendered(t), NEW c, call' = [call EXCEPT ![t] = c],
         c = [at |-> c.at, id |-> c.id], UNCHANGED <<rows, made, shown, behind>>
  PROVE  HistoryInv'
<1>1. HistoryTypes'
  BY DEF HistoryInv, HistoryTypes, Past!Rendered
<1>2. ASSUME NEW u \in Tabs PROVE TabInv(u)'
  <2>1. CASE u = t
    <3>1. <<>> \in Seq(Nat)
      OBVIOUS
    <3> QED BY <2>1, <3>1 DEF HistoryInv, HistoryTypes, TabInv, Past!Rendered, Past!NoFetch
  <2>2. CASE u # t
    BY <2>2 DEF HistoryInv, HistoryTypes, TabInv, Past!Rendered, Awaited, Past!Newest
  <2> QED BY <2>1, <2>2
<1> QED BY <1>1, <1>2 DEF HistoryInv

\* What a call of t writes, the other tabs do not know.
LEMMA WriteKeeps ==
  ASSUME HistoryInv, NEW by \in SUBSET Tabs, NEW new \in Seq(Nat), Past!Write(by, new),
         \A t \in Tabs : IF t \in by THEN call'[t] = [call[t] EXCEPT !.at = "ended"]
                         ELSE call'[t] = call[t],
         call' = [t \in Tabs |-> call'[t]], made' \in Nat, UNCHANGED <<shown, listing>>
  PROVE  HistoryInv'
<1>1. HistoryTypes'
  BY DEF HistoryInv, HistoryTypes, Past!Write
<1>2. ASSUME NEW u \in Tabs PROVE TabInv(u)'
  <2>1. ASSUME NEW seen, Awaited(u, seen) PROVE Awaited(u, seen)'
    <3>1. CASE u \in by
      BY <3>1 DEF Awaited, HistoryInv, HistoryTypes
    <3>2. CASE u \notin by
      BY <2>1, <3>2 DEF Awaited, Past!Write, Past!Newest
    <3> QED BY <3>1, <3>2
  <2> QED BY <2>1 DEF HistoryInv, TabInv
<1> QED BY <1>1, <1>2 DEF HistoryInv

LEMMA FetchKeeps ==
  ASSUME HistoryInv, NEW t \in Tabs,
         Past!FetchServed(t) \/ Past!FetchReturns(t) \/ Past!FetchFails(t)
  PROVE  HistoryInv'
<1> USE DEF HistoryInv
<1>1. HistoryTypes'
  BY DEF HistoryTypes, Past!FetchServed, Past!FetchReturns, Past!FetchFails
<1>2. <<>> \in Seq(Nat)
  OBVIOUS
<1>3. ASSUME NEW u \in Tabs PROVE TabInv(u)'
  <2>1. CASE u # t
    <3>1. /\ UNCHANGED <<rows, call>>
          /\ shown'[u] = shown[u] /\ listing'[u] = listing[u] /\ behind'[u] = behind[u]
      BY <2>1 DEF HistoryTypes, Past!FetchServed, Past!FetchReturns, Past!FetchFails
    <3> QED BY <3>1 DEF TabInv, Awaited, Past!Newest
  <2>2. CASE u = t /\ Past!FetchServed(t)
    <3>1. listing'[t] = [at |-> "answered", list |-> Past!Newest(PageLimit)]
      BY <2>2 DEF HistoryTypes, Past!FetchServed
    <3>2. Past!Newest(PageLimit)' = Past!Newest(PageLimit)
      BY <2>2 DEF Past!FetchServed, Past!Newest
    <3> QED BY <2>2, <3>1, <3>2, NewestType DEF HistoryTypes, TabInv, Awaited, Past!FetchServed
  <2>3. CASE u = t /\ Past!FetchReturns(t)
    BY <1>2, <2>3, NoneIsNoList DEF HistoryTypes, TabInv, Awaited, Past!Newest,
       Past!FetchReturns, Past!NoFetch
  <2>4. CASE u = t /\ Past!FetchFails(t)
    BY <1>2, <2>4 DEF HistoryTypes, TabInv, Past!FetchFails, Past!NoFetch
  <2> QED BY <2>1, <2>2, <2>3, <2>4
<1> QED BY <1>1, <1>3

LEMMA BeginKeeps ==
  ASSUME HistoryInv, NEW t \in Tabs,
         Past!Type(t) \/ Past!Send(t) \/ Past!DeleteHistoryEntry(t) \/ Past!ClearHistory(t)
           \/ Past!GiveUp(t) \/ Past!CallReturns(t)
  PROVE  HistoryInv'
<1>1. ASSUME NEW at, NEW id, Past!Begin(t, at, id) PROVE HistoryInv'
  <2>1. [at |-> at, id |-> id] = [at |-> [at |-> at, id |-> id].at, id |-> [at |-> at, id |-> id].id]
    OBVIOUS
  <2> QED BY <1>1, <2>1, RenderKeeps DEF Past!Begin
<1>2. CASE Past!Type(t)
  <2>1. call' = [call EXCEPT ![t] = call[t]] /\ call[t] = [at |-> call[t].at, id |-> call[t].id]
    BY <1>2 DEF Past!Type, HistoryInv, HistoryTypes
  <2> QED BY <1>2, <2>1, RenderKeeps DEF Past!Type
<1>3. CASE Past!GiveUp(t) \/ Past!CallReturns(t)
  <2>1. Past!NoCall = [at |-> Past!NoCall.at, id |-> Past!NoCall.id]
    BY DEF Past!NoCall
  <2> QED BY <1>3, <2>1, RenderKeeps DEF Past!GiveUp, Past!CallReturns
<1> QED
  BY <1>1, <1>2, <1>3 DEF Past!Send, Past!DeleteHistoryEntry, Past!ClearHistory

LEMMA RecordKeeps ==
  ASSUME HistoryInv, NEW t \in Tabs, Past!SendServed(t) \/ Past!DeleteEntry(t) \/ Past!ClearServed(t)
  PROVE  HistoryInv'
<1> USE DEF HistoryInv, HistoryTypes
<1>1. /\ \A u \in Tabs : IF u \in {t} THEN call'[u] = [call[u] EXCEPT !.at = "ended"]
                         ELSE call'[u] = call[u]
      /\ call' = [u \in Tabs |-> call'[u]]
      /\ UNCHANGED <<shown, listing>>
  BY DEF Past!SendServed, Past!DeleteEntry, Past!ClearServed, Past!To
<1>2. PICK new \in Seq(Nat) : Past!Write({t}, new) /\ made' \in Nat
  <2>1. CASE Past!SendServed(t)
    <3>1. made + 1 \in Nat /\ <<made + 1>> \o rows \in Seq(Nat)
      BY Added
    <3> QED BY <2>1, <3>1 DEF Past!SendServed, Past!Record
  <2>2. CASE Past!DeleteEntry(t)
    BY <2>2, Removed DEF Past!DeleteEntry
  <2>3. CASE Past!ClearServed(t)
    <3>1. <<>> \in Seq(Nat)
      OBVIOUS
    <3> QED BY <2>3, <3>1 DEF Past!ClearServed
  <2> QED BY <2>1, <2>2, <2>3
<1> QED BY <1>1, <1>2, WriteKeeps

LEMMA HistoryKeeps ==
  ASSUME HistoryInv, [Past!Next]_(Past!historyVars)
  PROVE  HistoryInv'
<1>1. CASE UNCHANGED Past!historyVars
  BY <1>1 DEF Past!historyVars, HistoryInv, HistoryTypes, TabInv, Awaited, Past!Newest
<1>2. CASE Past!LateRecord
  <2>1. Past!Write({}, <<made + 1>> \o rows) /\ made' \in Nat /\ <<made + 1>> \o rows \in Seq(Nat)
    BY <1>2, Added DEF Past!LateRecord, Past!Record, HistoryInv, HistoryTypes
  <2>2. \A t \in Tabs : IF t \in {} THEN call'[t] = [call[t] EXCEPT !.at = "ended"]
                        ELSE call'[t] = call[t]
    BY <1>2 DEF Past!LateRecord
  <2>3. call' = [t \in Tabs |-> call'[t]]
    BY <1>2 DEF Past!LateRecord, HistoryInv, HistoryTypes
  <2>4. UNCHANGED <<shown, listing>>
    BY <1>2 DEF Past!LateRecord
  <2> DEFINE new == <<made + 1>> \o rows
  <2>5. Past!Write({}, new) /\ new \in Seq(Nat) /\ made' \in Nat
    BY <2>1
  <2> HIDE DEF new
  <2> QED BY <2>2, <2>3, <2>4, <2>5, WriteKeeps
<1>3. CASE Past!WindowEnds
  BY <1>3 DEF Past!WindowEnds, HistoryInv, HistoryTypes, TabInv, Awaited, Past!Newest
<1>4. ASSUME NEW t \in Tabs, Past!FindEntry(t) PROVE HistoryInv'
  <2>1. PICK at : call' = [call EXCEPT ![t].at = at]
    BY <1>4 DEF Past!FindEntry, Past!To
  <2>2. \A u \in Tabs : call[u].at = "ended" => call'[u].at = "ended"
    BY <1>4, <2>1 DEF Past!FindEntry, HistoryInv, HistoryTypes
  <2>3. HistoryTypes'
    BY <1>4, <2>1 DEF Past!FindEntry, HistoryInv, HistoryTypes
  <2>4. UNCHANGED <<rows, shown, listing, behind>>
    BY <1>4 DEF Past!FindEntry
  <2> QED BY <2>2, <2>3, <2>4 DEF HistoryInv, TabInv, Awaited, Past!Newest
<1> QED
  BY <1>1, <1>2, <1>3, <1>4, FetchKeeps, BeginKeeps, RecordKeeps DEF Past!Next, Past!Serve

LEMMA HistoryStays ==
  ASSUME [ViewsNext]_allVars
  PROVE  [Past!Next]_(Past!historyVars)
BY DEF ViewsNext, allVars, historyVars, Past!historyVars, ListsStep, PlayStep, HistoryStep,
       JsonStep, SentStep, ScriptStep

\* However the calls and the answers of the tabs cross, are refused or lost, a tab at
\* rest shows the newest entries, unless another tab or a send given up changed them
\* (useRequestHistory.ts: fetchHistory).
THEOREM HistoryIsShown == ViewsSpec => []HistoryCatchesUp
<1>1. ViewsInit => HistoryInv
  BY HistoryInit DEF ViewsInit
<1>2. HistoryInv /\ [ViewsNext]_allVars => HistoryInv'
  BY HistoryStays, HistoryKeeps
<1>3. HistoryInv => HistoryCatchesUp
  BY DEF HistoryInv, TabInv, Awaited, HistoryCatchesUp, Past!HistoryCatchesUp
<1> QED BY <1>1, <1>2, <1>3, PTL DEF ViewsSpec

(***************************************************************************)
(* What the target receives.                                               *)
(***************************************************************************)

Row == [key : FormKeys, type : {"text", "file"}, fileName : Files \cup {None}, enabled : BOOLEAN]

RequestType ==
  [header : {"none", "Content-Type", "Authorization"}, param : BOOLEAN,
   body : {"", "json", "text"}, form : BOOLEAN, fields : Seq(Row),
   auth : {"none", "bearer", "query"}, script : {"", "script"}]

\* What was stored says what the target was meant to receive, with the files that were
\* attached.
Kept(stored) ==
  stored # None =>
    /\ stored.request \in RequestType
    /\ \E attached \in [DOMAIN stored.request.fields -> Files \cup {None}] :
         stored.meant = Sent!Received(stored.request, attached)

\* What the target would receive, as far as it is the same as what is meant.
Recalls(from, received, meant) ==
  /\ from \in {"saved", "history", "draft"}
  /\ Sent!TextParts(received.parts) = Sent!TextParts(meant.parts)
  /\ \A aspect \in Sent!Recalled(from) : received[aspect] = meant[aspect]

\* A file attached is the one named in its row.
SentInv ==
  /\ request \in RequestType
  /\ files \in Seq(Files \cup {None}) /\ Len(files) = Len(request.fields)
  /\ \A i \in DOMAIN files : files[i] # None => files[i] = request.fields[i].fileName
  /\ Kept(saved) /\ Kept(draft) /\ Kept(entry)
  /\ opened # None => Recalls(opened.from, Sent!Received(request, files), opened.meant)

LEMMA LeastExists ==
  ASSUME NEW S \in SUBSET Nat, IsFiniteSet(S), S # {}
  PROVE  \E i \in S : \A j \in S : i <= j
<1> DEFINE below(i) == {j \in S : j < i}
           m == Cardinality(S)
           f == [i \in S |-> Cardinality(below(i))]
<1>1. m \in Nat \ {0}
  BY FS_CardinalityType, FS_EmptySet
<1>2. ASSUME NEW i \in S
      PROVE  IsFiniteSet(below(i)) /\ Cardinality(below(i)) \in 0 .. m - 1
  <2>1. below(i) \in SUBSET S /\ i \notin below(i)
    OBVIOUS
  <2>2. IsFiniteSet(below(i)) /\ Cardinality(below(i)) < m
    <3>1. /\ IsFiniteSet(below(i)) /\ Cardinality(below(i)) <= m
          /\ Cardinality(below(i)) = m => below(i) = S
      BY <2>1, FS_Subset
    <3>2. Cardinality(below(i)) \in Nat
      BY <3>1, FS_CardinalityType
    <3> QED BY <1>1, <2>1, <3>1, <3>2
  <2> QED BY <1>1, <2>2, FS_CardinalityType
<1>3. ASSUME NEW i \in S, NEW j \in S, i < j
      PROVE  Cardinality(below(i)) # Cardinality(below(j))
  <2>1. \A k \in S : k < i => k < j
    BY <1>3
  <2>2. below(i) \in SUBSET below(j)
    BY <2>1
  <2>3. i \in below(j) /\ i \notin below(i)
    BY <1>3
  <2> QED BY <1>2, <2>2, <2>3, FS_Subset
<1>4. f \in Injection(S, 0 .. m - 1)
  <2>1. f \in [S -> 0 .. m - 1]
    BY <1>2
  <2>2. \A i, j \in S : f[i] = f[j] => i = j
    <3> SUFFICES ASSUME NEW i \in S, NEW j \in S, i # j PROVE f[i] # f[j]
      OBVIOUS
    <3>1. i < j \/ j < i
      OBVIOUS
    <3> QED BY <1>3, <3>1
  <2> QED BY <2>1, <2>2 DEF Injection, IsInjective
<1>5. IsFiniteSet(0 .. m - 1) /\ Cardinality(0 .. m - 1) = m
  BY <1>1, FS_Interval
<1>6. f \in Surjection(S, 0 .. m - 1)
  BY <1>4, <1>5, FS_Injection
<1>7. PICK i \in S : f[i] = 0
  <2>1. 0 \in 0 .. m - 1
    BY <1>1
  <2> HIDE DEF f
  <2> QED BY <1>6, <2>1 DEF Surjection
<1>8. below(i) = {}
  BY <1>2, <1>7, FS_EmptySet
<1>9. \A j \in S : i <= j
  BY <1>8
<1> QED BY <1>9

LEMMA FieldIsRow == Sent!Field \in SUBSET Row
BY DEF Sent!Field, Row

LEMMA RowsOf ==
  ASSUME NEW r \in RequestType
  PROVE  /\ r.fields \in Seq(Row) /\ Len(r.fields) \in Nat
         /\ DOMAIN r.fields = 1 .. Len(r.fields)
         /\ \A i \in DOMAIN r.fields : r.fields[i] \in Row
<1>1. r.fields \in Seq(Row)
  BY Zenon DEF RequestType
<1> QED BY <1>1

LEMMA FilesAreNotText == None \notin Files /\ "text" \notin Files \cup {None}
BY ViewsAssumption DEF Sent!FilesAssumption

\* The file that the proxy takes for a row is one of those attached.
LEMMA FileTaken ==
  ASSUME NEW r \in RequestType, NEW attached \in [DOMAIN r.fields -> Files \cup {None}],
         NEW i \in DOMAIN r.fields
  PROVE  Sent!FileOf(r, attached, i) \in Files \cup {None}
<1> DEFINE named == {j \in DOMAIN r.fields :
                       /\ r.fields[j].type = "file" /\ r.fields[j].enabled
                       /\ r.fields[j].key = r.fields[i].key /\ attached[j] # None}
<1>1. IsFiniteSet(DOMAIN r.fields) /\ DOMAIN r.fields \in SUBSET Nat
  <2>1. Len(r.fields) \in Nat /\ DOMAIN r.fields = 1 .. Len(r.fields)
    BY RowsOf
  <2> QED BY <2>1, FS_Interval
<1>2. named \in SUBSET Nat /\ IsFiniteSet(named) /\ named \in SUBSET DOMAIN r.fields
  BY <1>1, FS_Subset
<1>3. Sent!FileOf(r, attached, i) =
        IF named = {} THEN None ELSE attached[CHOOSE j \in named : \A k \in named : j <= k]
  BY DEF Sent!FileOf
<1> HIDE DEF named
<1>4. CASE named # {}
  <2>1. (CHOOSE j \in named : \A k \in named : j <= k) \in named
    BY <1>2, <1>4, LeastExists
  <2> QED BY <1>2, <1>3, <2>1
<1> QED BY <1>3, <1>4

\* Where no two rows with a file share a key, each row goes with its own.
LEMMA FileIsOwn ==
  ASSUME SentInv, ~Sent!Ambiguous(request), NEW i \in DOMAIN request.fields,
         request.fields[i].type = "file", request.fields[i].enabled
  PROVE  Sent!FileOf(request, files, i) =
           IF files[i] = None THEN None ELSE request.fields[i].fileName
<1> DEFINE named == {j \in DOMAIN request.fields :
                       /\ request.fields[j].type = "file" /\ request.fields[j].enabled
                       /\ request.fields[j].key = request.fields[i].key /\ files[j] # None}
<1>1. \A j \in named : j = i
  BY DEF Sent!Ambiguous
<1>2. Sent!FileOf(request, files, i) =
        IF named = {} THEN None ELSE files[CHOOSE j \in named : \A k \in named : j <= k]
  BY DEF Sent!FileOf
<1>3. i \in Nat /\ i \in DOMAIN files
  BY RowsOf DEF SentInv
<1>4. CASE files[i] = None
  <2>1. named = {}
    BY <1>1, <1>4
  <2> QED BY <1>2, <1>4, <2>1
<1>5. CASE files[i] # None
  <2>1. named = {i}
    BY <1>1, <1>5
  <2> HIDE DEF named
  <2>2. (CHOOSE j \in named : \A k \in named : j <= k) = i
    BY <1>3, <2>1
  <2> QED BY <1>2, <1>3, <1>5, <2>1, <2>2 DEF SentInv
<1> QED BY <1>4, <1>5

LEMMA FormIsShown ==
  ASSUME SentInv, ~Sent!Ambiguous(request)
  PROVE  Sent!Parts(request, files) = Sent!ShownParts(request, files)
<1>1. ASSUME NEW i \in DOMAIN request.fields
      PROVE  Sent!Part(request.fields[i], Sent!FileOf(request, files, i)) =
               Sent!Part(request.fields[i],
                         IF files[i] = None THEN None ELSE request.fields[i].fileName)
  <2>1. CASE request.fields[i].type = "file" /\ request.fields[i].enabled
    BY <2>1, FileIsOwn
  <2>2. CASE ~(request.fields[i].type = "file" /\ request.fields[i].enabled)
    <3>1. request.fields[i].type \in {"text", "file"}
      BY RowsOf DEF SentInv, Row
    <3> QED BY <2>2, <3>1 DEF Sent!Part
  <2> QED BY <2>1, <2>2
<1> QED BY <1>1, Zenon DEF Sent!Parts, Sent!ShownParts

\* The text of a form is received whatever files are attached.
LEMMA TextIsSame ==
  ASSUME NEW r \in RequestType, NEW s \in RequestType, r.fields = s.fields,
         NEW f \in [DOMAIN r.fields -> Files \cup {None}],
         NEW g \in [DOMAIN r.fields -> Files \cup {None}]
  PROVE  Sent!TextParts(Sent!Parts(r, f)) = Sent!TextParts(Sent!Parts(s, g))
<1> DEFINE text(p) == IF p # None /\ p.content = "text" THEN p ELSE None
           mine(i) == Sent!Part(r.fields[i], Sent!FileOf(r, f, i))
           other(i) == Sent!Part(s.fields[i], Sent!FileOf(s, g, i))
<1>1. ASSUME NEW i \in DOMAIN r.fields PROVE text(mine(i)) = text(other(i))
  <2>1. r.fields[i] \in Row
    BY RowsOf
  <2>2. /\ Sent!FileOf(r, f, i) \in Files \cup {None}
        /\ Sent!FileOf(s, g, i) \in Files \cup {None}
    BY FileTaken
  <2>3. CASE r.fields[i].type = "text"
    BY <2>3 DEF Sent!Part
  <2>4. CASE r.fields[i].type = "file"
    BY <2>2, <2>4, FilesAreNotText DEF Sent!Part
  <2> QED BY <2>1, <2>3, <2>4 DEF Row
<1>2. /\ Sent!TextParts(Sent!Parts(r, f)) = [i \in DOMAIN r.fields |-> text(mine(i))]
      /\ Sent!TextParts(Sent!Parts(s, g)) = [i \in DOMAIN r.fields |-> text(other(i))]
  BY Zenon DEF Sent!TextParts, Sent!Parts
<1> HIDE DEF text, mine, other
<1> QED BY <1>1, <1>2, Zenon

LEMMA SentStarts == Sent!Init => SentInv
<1> SUFFICES ASSUME Sent!Init PROVE SentInv
  OBVIOUS
<1>1. PICK n \in 0 .. MaxRows : request.fields \in [1 .. n -> Sent!Field]
  BY Zenon DEF Sent!Init, Sent!RequestState, Sent!Forms
<1>2. ASSUME NEW i \in 1 .. n PROVE request.fields[i] \in Row
  BY <1>1, FieldIsRow
<1>3. request.fields \in Seq(Row)
  BY <1>1, <1>2
<1>4. request \in RequestType
  BY <1>3 DEF Sent!Init, Sent!RequestState, RequestType
<1>5. files = [i \in 1 .. n |-> request.fields[i].fileName]
  BY <1>1 DEF Sent!Init, Sent!Attached
<1>6. ASSUME NEW i \in 1 .. n PROVE files[i] \in Files \cup {None}
  BY <1>2, <1>5 DEF Row
<1>7. files \in Seq(Files \cup {None}) /\ Len(files) = Len(request.fields)
  BY <1>1, <1>5, <1>6
<1>8. \A i \in DOMAIN files : files[i] = request.fields[i].fileName
  BY <1>5
<1>9. Kept(saved) /\ Kept(draft) /\ Kept(entry) /\ opened = None
  BY DEF Sent!Init, Kept
<1> QED BY <1>4, <1>7, <1>8, <1>9 DEF SentInv

LEMMA NothingAttached ==
  ASSUME NEW q \in Seq(Row)
  PROVE  /\ Sent!Detached(q) \in Seq(Files \cup {None}) /\ Len(Sent!Detached(q)) = Len(q)
         /\ \A i \in DOMAIN Sent!Detached(q) : Sent!Detached(q)[i] = None
         /\ Sent!Detached(q) \in [DOMAIN q -> Files \cup {None}]
BY DEF Sent!Detached

LEMMA TextOfForm ==
  ASSUME NEW r \in RequestType, NEW s \in RequestType, r.form = s.form,
         s.form => r.fields = s.fields,
         NEW f \in [DOMAIN r.fields -> Files \cup {None}],
         NEW g \in [DOMAIN s.fields -> Files \cup {None}]
  PROVE  Sent!TextParts(Sent!Received(r, f).parts) = Sent!TextParts(Sent!Received(s, g).parts)
<1>1. /\ Sent!Received(r, f).parts = IF r.form THEN Sent!Parts(r, f) ELSE <<>>
      /\ Sent!Received(s, g).parts = IF s.form THEN Sent!Parts(s, g) ELSE <<>>
  BY DEF Sent!Received
<1>2. CASE s.form
  BY <1>1, <1>2, TextIsSame
<1>3. CASE ~s.form
  BY <1>1, <1>3
<1> QED BY <1>2, <1>3

\* A request that is opened is received as it was meant, as far as it is recalled.
LEMMA LoadKeeps ==
  ASSUME SentInv, NEW from \in {"saved", "history"}, NEW stored, Kept(stored),
         Sent!HandleLoadRequest(from, stored)
  PROVE  SentInv'
<1> DEFINE r == stored.request
<1>1. r \in RequestType /\ stored # None
  BY DEF Kept, Sent!HandleLoadRequest
<1>2. PICK attached \in [DOMAIN r.fields -> Files \cup {None}] :
        stored.meant = Sent!Received(r, attached)
  BY <1>1 DEF Kept
<1>3. /\ request' = [request EXCEPT !.header = r.header, !.form = r.form,
                       !.body = IF r.form THEN "" ELSE r.body,
                       !.fields = IF r.form THEN r.fields ELSE <<>>,
                       !.param = from = "saved" /\ r.param,
                       !.auth = IF from = "saved" THEN r.auth ELSE @]
      /\ files' = Sent!Detached(request'.fields)
      /\ opened' = [from |-> from, meant |-> stored.meant]
      /\ UNCHANGED <<saved, draft, entry>>
  BY DEF Sent!HandleLoadRequest
<1>4. r.fields \in Seq(Row) /\ <<>> \in Seq(Row)
  BY <1>1, RowsOf
<1>5. /\ request' \in RequestType
      /\ request'.header = r.header /\ request'.form = r.form
      /\ request'.body = (IF r.form THEN "" ELSE r.body)
      /\ r.form => request'.fields = r.fields
      /\ from = "saved" => request'.param = r.param /\ request'.auth = r.auth
  <2> HIDE DEF r
  <2> QED BY <1>1, <1>3, <1>4 DEF SentInv, RequestType
<1>6. /\ files' \in Seq(Files \cup {None}) /\ Len(files') = Len(request'.fields)
      /\ \A i \in DOMAIN files' : files'[i] = None
      /\ files' \in [DOMAIN request'.fields -> Files \cup {None}]
  <2>1. request'.fields \in Seq(Row) /\ files' = Sent!Detached(request'.fields)
    BY <1>3, <1>5, RowsOf
  <2> QED BY <2>1, NothingAttached
<1>7. Recalls(from, Sent!Received(request', files'), Sent!Received(r, attached))
  <2>1. Sent!TextParts(Sent!Received(request', files').parts) =
          Sent!TextParts(Sent!Received(r, attached).parts)
    BY <1>1, <1>2, <1>5, <1>6, TextOfForm
  <2> HIDE DEF r
  <2>2. \A aspect \in Sent!Recalled(from) :
          Sent!Received(request', files')[aspect] = Sent!Received(r, attached)[aspect]
    <3> DEFINE new == Sent!Received(request', files')
               old == Sent!Received(r, attached)
    <3>1. /\ new.contentType = old.contentType /\ new.body = old.body
          /\ from = "saved" => new.authorization = old.authorization /\ new.query = old.query
      BY <1>5 DEF Sent!Received
    <3> HIDE DEF new, old
    <3>2. \A aspect \in Sent!Recalled(from) : new[aspect] = old[aspect]
      BY <3>1 DEF Sent!Recalled
    <3> QED BY <3>2 DEF new, old
  <2> QED BY <2>1, <2>2 DEF Recalls
<1>8. Kept(saved)' /\ Kept(draft)' /\ Kept(entry)'
  BY <1>3 DEF SentInv, Kept
<1>9. opened'.from = from /\ opened'.meant = Sent!Received(r, attached)
  BY <1>2, <1>3
<1> QED BY <1>5, <1>6, <1>7, <1>8, <1>9 DEF SentInv

LEMMA ReloadKeeps == ASSUME SentInv, Sent!Reload PROVE SentInv'
<1>1. Kept(saved)' /\ Kept(draft)' /\ Kept(entry)'
  BY DEF SentInv, Kept, Sent!Reload
<1>2. request' \in RequestType
  <2>1. <<>> \in Seq(Row)
    OBVIOUS
  <2>2. Sent!defaultState \in RequestType
    BY <2>1 DEF Sent!defaultState, RequestType
  <2> QED BY <2>2 DEF SentInv, Kept, Sent!Reload
<1>3. /\ files' \in Seq(Files \cup {None}) /\ Len(files') = Len(request'.fields)
      /\ \A i \in DOMAIN files' : files'[i] = None
      /\ files' \in [DOMAIN request'.fields -> Files \cup {None}]
  BY <1>2, RowsOf, NothingAttached DEF Sent!Reload
<1>4. ASSUME opened' # None
      PROVE  Recalls(opened'.from, Sent!Received(request', files'), opened'.meant)
  <2>1. draft # None
    BY <1>4 DEF Sent!Reload
  <2>2. request' = draft.request /\ opened' = [from |-> "draft", meant |-> draft.meant]
    BY <2>1 DEF Sent!Reload
  <2>3. PICK attached \in [DOMAIN draft.request.fields -> Files \cup {None}] :
          draft.meant = Sent!Received(draft.request, attached)
    BY <2>1 DEF SentInv, Kept
  <2>4. Sent!TextParts(Sent!Received(request', files').parts) =
          Sent!TextParts(Sent!Received(draft.request, attached).parts)
    BY <1>2, <1>3, <2>2, <2>3, TextOfForm
  <2>5. \A aspect \in Sent!Recalled("draft") :
          Sent!Received(request', files')[aspect] = Sent!Received(draft.request, attached)[aspect]
    <3> DEFINE new == Sent!Received(request', files')
               old == Sent!Received(draft.request, attached)
    <3>1. /\ new.contentType = old.contentType /\ new.body = old.body
          /\ new.authorization = old.authorization /\ new.query = old.query
          /\ new.script = old.script
      BY <2>2 DEF Sent!Received
    <3> HIDE DEF new, old
    <3>2. \A aspect \in Sent!Recalled("draft") : new[aspect] = old[aspect]
      BY <3>1 DEF Sent!Recalled
    <3> QED BY <3>2 DEF new, old
  <2> QED BY <2>2, <2>3, <2>4, <2>5 DEF Recalls
<1> QED BY <1>1, <1>2, <1>3, <1>4 DEF SentInv

\* What is stored, is stored with the files attached.
LEMMA StoreKeeps ==
  ASSUME SentInv, Sent!Send \/ Sent!Save
  PROVE  SentInv'
<1> DEFINE put == [request |-> request, meant |-> Sent!Received(request, files)]
<1>1. UNCHANGED <<request, files, opened>>
  BY DEF Sent!Send, Sent!Save
<1>2. files \in [DOMAIN request.fields -> Files \cup {None}]
  BY RowsOf DEF SentInv
<1>3. Kept(put)
  BY <1>2 DEF SentInv, Kept
<1>4. /\ saved' \in {saved, put} /\ draft' \in {draft, put} /\ entry' \in {entry, put}
  BY DEF Sent!Send, Sent!Save, Sent!Entry
<1>5. Kept(saved') /\ Kept(draft') /\ Kept(entry')
  <2> HIDE DEF put
  <2> QED BY <1>3, <1>4 DEF SentInv
<1>6. opened # None => Recalls(opened.from, Sent!Received(request', files'), opened'.meant)
  BY <1>1 DEF SentInv
<1> QED BY <1>1, <1>5, <1>6 DEF SentInv

\* An edit keeps the files with their rows.
LEMMA EditKeeps ==
  ASSUME SentInv, NEW r \in RequestType, NEW attached \in Seq(Files \cup {None}),
         Sent!Edit(r, attached), Len(attached) = Len(r.fields),
         \A i \in DOMAIN attached : attached[i] # None => attached[i] = r.fields[i].fileName
  PROVE  SentInv'
BY DEF SentInv, Sent!Edit, Kept

LEMMA FieldsKeep ==
  ASSUME SentInv, NEW q \in Seq(Row), NEW attached \in Seq(Files \cup {None}),
         Sent!EditFields(q, attached), Len(attached) = Len(q),
         \A i \in DOMAIN attached : attached[i] # None => attached[i] = q[i].fileName
  PROVE  SentInv'
<1>1. [request EXCEPT !.fields = q] \in RequestType /\ [request EXCEPT !.fields = q].fields = q
  BY DEF SentInv, RequestType
<1> QED BY <1>1, EditKeeps DEF Sent!EditFields

LEMMA RowsChanged ==
  ASSUME SentInv, NEW i \in DOMAIN request.fields, NEW x \in Row, NEW file \in Files \cup {None},
         Sent!EditFields([request.fields EXCEPT ![i] = x], [files EXCEPT ![i] = file]),
         file # None => file = x.fileName
  PROVE  SentInv'
<1> DEFINE q == [request.fields EXCEPT ![i] = x]
           attached == [files EXCEPT ![i] = file]
<1>1. request.fields \in Seq(Row) /\ files \in Seq(Files \cup {None})
      /\ Len(files) = Len(request.fields)
  BY RowsOf DEF SentInv
<1>2. /\ q \in Seq(Row) /\ attached \in Seq(Files \cup {None})
      /\ Len(attached) = Len(q)
      /\ \A j \in DOMAIN attached : attached[j] # None => attached[j] = q[j].fileName
  BY <1>1 DEF SentInv
<1> HIDE DEF q, attached
<1> QED BY <1>2, FieldsKeep DEF q, attached

LEMMA RowAltered ==
  ASSUME SentInv, NEW i \in DOMAIN request.fields,
         NEW key \in FormKeys, NEW file \in Files \cup {None}, NEW type \in {"text", "file"}
  PROVE  \/ Sent!HandleToggle(i) \/ Sent!HandleKeyChange(i, key)
         \/ Sent!HandleTypeChange(i, type) \/ Sent!HandleFileSelect(i, file)
         => SentInv'
<1> DEFINE was == request.fields[i]
<1>1. was \in Row /\ request.fields \in Seq(Row) /\ i \in DOMAIN files /\ files[i] \in Files \cup {None}
      /\ files = [files EXCEPT ![i] = files[i]] /\ (files[i] # None => files[i] = was.fileName)
  BY RowsOf DEF SentInv
<1>2. ASSUME Sent!HandleKeyChange(i, key) PROVE SentInv'
  <2>1. [was EXCEPT !.key = key] \in Row /\ [was EXCEPT !.key = key].fileName = was.fileName
    BY <1>1 DEF Row
  <2>2. Sent!EditFields([request.fields EXCEPT ![i] = [was EXCEPT !.key = key]],
                        [files EXCEPT ![i] = files[i]])
    BY <1>1, <1>2, Zenon DEF Sent!HandleKeyChange
  <2> QED BY <1>1, <2>1, <2>2, RowsChanged
<1>3. ASSUME Sent!HandleToggle(i) PROVE SentInv'
  <2>1. /\ [was EXCEPT !.enabled = ~was.enabled] \in Row
        /\ [was EXCEPT !.enabled = ~was.enabled].fileName = was.fileName
    BY <1>1 DEF Row
  <2>2. Sent!EditFields([request.fields EXCEPT ![i] = [was EXCEPT !.enabled = ~was.enabled]],
                        [files EXCEPT ![i] = files[i]])
    BY <1>1, <1>3, Zenon DEF Sent!HandleToggle
  <2> QED BY <1>1, <2>1, <2>2, RowsChanged
<1>4. ASSUME Sent!HandleTypeChange(i, type) PROVE SentInv'
  <2>1. [was EXCEPT !.type = type, !.fileName = None] \in Row
    BY <1>1 DEF Row
  <2>2. Sent!EditFields([request.fields EXCEPT ![i] = [was EXCEPT !.type = type, !.fileName = None]],
                        [files EXCEPT ![i] = None])
    <3>1. [request.fields EXCEPT ![i].type = type, ![i].fileName = None] =
            [request.fields EXCEPT ![i] = [was EXCEPT !.type = type, !.fileName = None]]
      BY <1>1
    <3> QED BY <1>4, <3>1, Zenon DEF Sent!HandleTypeChange
  <2> QED BY <2>1, <2>2, RowsChanged
<1>5. ASSUME Sent!HandleFileSelect(i, file) PROVE SentInv'
  <2>1. [was EXCEPT !.fileName = file] \in Row /\ [was EXCEPT !.fileName = file].fileName = file
    BY <1>1 DEF Row
  <2>2. Sent!EditFields([request.fields EXCEPT ![i] = [was EXCEPT !.fileName = file]],
                        [files EXCEPT ![i] = file])
    BY <1>5, Zenon DEF Sent!HandleFileSelect
  <2> QED BY <2>1, <2>2, RowsChanged
<1> QED BY <1>2, <1>3, <1>4, <1>5

LEMMA Shortened ==
  ASSUME NEW S, NEW q \in Seq(S), NEW i \in DOMAIN q
  PROVE  /\ Sent!Without(q, i) \in Seq(S) /\ Len(Sent!Without(q, i)) = Len(q) - 1
         /\ \A j \in 1 .. Len(q) - 1 : Sent!Without(q, i)[j] = q[IF j < i THEN j ELSE j + 1]
         /\ \A j \in 1 .. Len(q) - 1 : (IF j < i THEN j ELSE j + 1) \in DOMAIN q
<1>1. Len(q) - 1 \in Nat
  OBVIOUS
<1> QED BY <1>1 DEF Sent!Without

LEMMA RowsMoved ==
  ASSUME SentInv
  PROVE  /\ \A i \in DOMAIN request.fields : Sent!HandleDelete(i) => SentInv'
         /\ \A key \in FormKeys : Sent!HandleAddRow(key) => SentInv'
<1>1. /\ request.fields \in Seq(Row) /\ files \in Seq(Files \cup {None})
      /\ Len(files) = Len(request.fields) /\ DOMAIN files = DOMAIN request.fields
  BY RowsOf DEF SentInv
<1>2. ASSUME NEW i \in DOMAIN request.fields, Sent!HandleDelete(i) PROVE SentInv'
  <2> DEFINE q == Sent!Without(request.fields, i)
             attached == Sent!Without(files, i)
  <2>1. q \in Seq(Row) /\ attached \in Seq(Files \cup {None}) /\ Len(attached) = Len(q)
    BY <1>1, Shortened
  <2>2. ASSUME NEW j \in DOMAIN attached, attached[j] # None PROVE attached[j] = q[j].fileName
    <3>1. j \in 1 .. Len(files) - 1
      BY <1>1, <2>1, Shortened
    <3> DEFINE k == IF j < i THEN j ELSE j + 1
    <3>2. attached[j] = files[k] /\ q[j] = request.fields[k] /\ k \in DOMAIN files
      <4>1. i \in DOMAIN files /\ j \in 1 .. Len(request.fields) - 1
        BY <1>1, <3>1
      <4> QED BY <1>1, <3>1, <4>1, Shortened
    <3> HIDE DEF k, q, attached
    <3> QED BY <2>2, <3>2 DEF SentInv
  <2>3. Sent!EditFields(q, attached)
    BY <1>2 DEF Sent!HandleDelete
  <2> HIDE DEF q, attached
  <2> QED BY <2>1, <2>2, <2>3, FieldsKeep
<1>3. ASSUME NEW key \in FormKeys, Sent!HandleAddRow(key) PROVE SentInv'
  <2> DEFINE x == [key |-> key, type |-> "text", fileName |-> None, enabled |-> TRUE]
             q == Append(request.fields, x)
             attached == Append(files, None)
  <2>1. x \in Row
    BY DEF Row
  <2>2. Sent!EditFields(q, attached)
    BY <1>3 DEF Sent!HandleAddRow
  <2> HIDE DEF x
  <2>3. /\ q \in Seq(Row) /\ attached \in Seq(Files \cup {None}) /\ Len(attached) = Len(q)
        /\ \A j \in DOMAIN attached : attached[j] # None => attached[j] = q[j].fileName
    BY <1>1, <2>1 DEF SentInv
  <2> HIDE DEF q, attached
  <2> QED BY <2>2, <2>3, FieldsKeep
<1> QED BY <1>2, <1>3

LEMMA SettingsKeep ==
  ASSUME SentInv,
         \/ \E auth \in {"none", "bearer"} : Sent!SetAuth(auth)
         \/ \E script \in {"", "script"} : Sent!SetScript(script)
         \/ \E form \in BOOLEAN : Sent!SetBodyType(form)
  PROVE  SentInv'
<1>1. PICK r \in RequestType : Sent!Edit(r, files) /\ r.fields = request.fields
  <2>1. ASSUME NEW auth \in {"none", "bearer"}
        PROVE  /\ [request EXCEPT !.auth = auth] \in RequestType
               /\ [request EXCEPT !.auth = auth].fields = request.fields
    BY DEF SentInv, RequestType
  <2>2. ASSUME NEW script \in {"", "script"}
        PROVE  /\ [request EXCEPT !.script = script] \in RequestType
               /\ [request EXCEPT !.script = script].fields = request.fields
    BY DEF SentInv, RequestType
  <2>3. ASSUME NEW form \in BOOLEAN
        PROVE  /\ [request EXCEPT !.form = form] \in RequestType
               /\ [request EXCEPT !.form = form].fields = request.fields
    BY DEF SentInv, RequestType
  <2> QED BY <2>1, <2>2, <2>3, Zenon DEF Sent!SetAuth, Sent!SetScript, Sent!SetBodyType
<1> QED BY <1>1, EditKeeps DEF SentInv

LEMMA SentKeeps ==
  ASSUME SentInv, [Sent!Next]_(Sent!sentVars)
  PROVE  SentInv'
<1>1. CASE UNCHANGED Sent!sentVars
  BY <1>1 DEF Sent!sentVars, SentInv, Kept
<1>2. Kept(saved) /\ Kept(entry)
  BY DEF SentInv
<1>3. CASE Sent!HandleLoadRequest("saved", saved) \/ Sent!HandleLoadRequest("history", entry)
  BY <1>2, <1>3, LoadKeeps
<1>4. ASSUME NEW i \in DOMAIN request.fields,
             \/ Sent!HandleDelete(i) \/ Sent!HandleToggle(i)
             \/ \E key \in FormKeys : Sent!HandleKeyChange(i, key)
             \/ \E type \in {"text", "file"} : Sent!HandleTypeChange(i, type)
             \/ \E file \in Files \cup {None} : Sent!HandleFileSelect(i, file)
      PROVE  SentInv'
  <2>1. CASE Sent!HandleDelete(i)
    BY <2>1, RowsMoved
  <2>2. CASE Sent!HandleToggle(i)
    <3>1. request.fields[i].key \in FormKeys
      BY RowsOf DEF SentInv, Row
    <3> QED BY <2>2, <3>1, RowAltered
  <2>3. ASSUME NEW key \in FormKeys, Sent!HandleKeyChange(i, key) PROVE SentInv'
    BY <2>3, RowAltered
  <2>4. ASSUME NEW type \in {"text", "file"}, Sent!HandleTypeChange(i, type) PROVE SentInv'
    <3>1. request.fields[i].key \in FormKeys
      BY RowsOf DEF SentInv, Row
    <3> QED BY <2>4, <3>1, RowAltered
  <2>5. ASSUME NEW file \in Files \cup {None}, Sent!HandleFileSelect(i, file) PROVE SentInv'
    <3>1. request.fields[i].key \in FormKeys
      BY RowsOf DEF SentInv, Row
    <3> QED BY <2>5, <3>1, RowAltered
  <2> QED BY <1>4, <2>1, <2>2, <2>3, <2>4, <2>5
<1>5. CASE \E key \in FormKeys : Sent!HandleAddRow(key)
  BY <1>5, RowsMoved
<1> QED BY <1>1, <1>3, <1>4, <1>5, StoreKeeps, ReloadKeeps, SettingsKeep DEF Sent!Next

LEMMA SentStays ==
  ASSUME [ViewsNext]_allVars
  PROVE  [Sent!Next]_(Sent!sentVars)
BY DEF ViewsNext, allVars, sentVars, Sent!sentVars, ListsStep, PlayStep, HistoryStep,
       JsonStep, SentStep, ScriptStep

LEMMA SendsAsMeant ==
  ASSUME SentInv, [Sent!Next]_(Sent!sentVars)
  PROVE  Sent!Meant
<1> SUFFICES ASSUME sent' # sent PROVE Sent!Meant
  BY DEF Sent!Meant
<1>1. Sent!Send
  BY DEF Sent!Next, Sent!sentVars, Sent!Save, Sent!Reload, Sent!HandleLoadRequest,
         Sent!SetAuth, Sent!SetScript, Sent!SetBodyType, Sent!HandleAddRow, Sent!HandleDelete,
         Sent!HandleToggle, Sent!HandleKeyChange, Sent!HandleTypeChange, Sent!HandleFileSelect,
         Sent!EditFields, Sent!Edit
<1>2. sent' = Sent!Received(request, files)
  BY <1>1 DEF Sent!Send
<1>3. request.form => Sent!Received(request, files).parts = Sent!Parts(request, files)
  BY DEF Sent!Received
<1> QED BY <1>2, <1>3, FormIsShown DEF Sent!Meant, SentInv, Recalls

\* Whatever was edited, saved, sent and opened before, the target receives the form
\* that the editor shows, and a request opened again as the one it was, but for what is
\* not recalled (useRequestBuilder.ts: sendRequest, handleLoadRequest; executor.ts).
THEOREM SentIsMeant == ViewsSpec => SentAsMeant
<1>1. ViewsInit => SentInv
  BY SentStarts DEF ViewsInit, SentInit
<1>2. SentInv /\ [ViewsNext]_allVars => SentInv'
  BY SentStays, SentKeeps
<1>3. SentInv /\ [ViewsNext]_allVars => [Sent!Meant]_(Sent!sentVars)
  BY SentStays, SendsAsMeant
<1> QED BY <1>1, <1>2, <1>3, PTL DEF ViewsSpec, SentAsMeant, Sent!SentAsMeant

(***************************************************************************)
(* The playground.                                                         *)
(***************************************************************************)

Contents == [Envs -> Values \cup {None}]

Choice == Envs \cup {None}

PlayTypes ==
  /\ storage.envs \in Contents /\ storage.active \in Choice
  /\ storage = [envs |-> storage.envs, active |-> storage.active, history |-> storage.history]
  /\ side = [t \in Tabs |-> side[t]] /\ page = [t \in Tabs |-> page[t]]
  /\ \A t \in Tabs :
       /\ side[t].envs \in Contents /\ side[t].active \in Choice
       /\ side[t] = [envs |-> side[t].envs, active |-> side[t].active, shown |-> side[t].shown]
       /\ page[t].active \in Choice
       /\ page[t] = [envs |-> page[t].envs, active |-> page[t].active]
  /\ used = [t \in Tabs |-> used[t]] /\ sends = [t \in Tabs |-> sends[t]]
  /\ unsaved = [t \in Tabs |-> unsaved[t]]
  /\ lone \in [Tabs -> BOOLEAN] /\ apart \in [Tabs -> BOOLEAN]

\* An environment and what it says go together in the storage and in a sidebar, whose
\* active one is there, but for rows changed in place; so do the entries.
Restores(t) ==
  /\ \A e \in Envs \ unsaved[t] : storage.envs[e] = side[t].envs[e]
  /\ \A e \in Envs : storage.envs[e] = None <=> side[t].envs[e] = None
  /\ sends[t] = storage.history
  /\ side[t].active = page[t].active => Play!Found(storage) = side[t].active

\* The page is as it was loaded, or has chosen since, and the builder with it.
UsesStored(t) ==
  /\ page[t].envs = storage.envs /\ page[t].active = Play!Found(storage)
  /\ page[t].active # None => used[t] = page[t].envs[page[t].active]

TabHolds(t) ==
  /\ side[t].active # None => side[t].envs[side[t].active] # None
  /\ lone[t] => Restores(t)
  /\ lone[t] /\ ~apart[t] => UsesStored(t)

PlayInv == PlayTypes /\ \A t \in Tabs : TabHolds(t)

LEMMA NoneIsNoEnv == Fresh \in Values /\ None \notin Values \cup Envs
BY ViewsAssumption DEF Play!PlaygroundAssumption

LEMMA FoundIsStored ==
  ASSUME NEW s, s.active \in Choice
  PROVE  /\ Play!Found(s) \in Choice
         /\ Play!Found(s) # None => s.envs[Play!Found(s)] # None
BY DEF Play!Found, Choice

LEMMA PlayStarts == Play!Init => PlayInv
<1> SUFFICES ASSUME Play!Init PROVE PlayInv
  OBVIOUS
<1>1. Play!Found(Play!NothingStored) = None
  BY DEF Play!Found, Play!NothingStored
<1>2. PlayTypes
  BY <1>1 DEF Play!Init, PlayTypes, Play!NothingStored, Play!Loaded, Contents, Choice
<1>3. ASSUME NEW t \in Tabs PROVE TabHolds(t)
  <2>1. /\ side[t].active = None /\ side[t].envs = storage.envs /\ page[t].active = None
        /\ page[t].envs = storage.envs /\ sends[t] = storage.history
        /\ Play!Found(storage) = None
    BY <1>1 DEF Play!Init, Play!NothingStored, Play!Loaded
  <2> QED BY <2>1 DEF TabHolds, Restores, UsesStored
<1> QED BY <1>2, <1>3 DEF PlayInv

LEMMA LoadRestores == ASSUME PlayInv, NEW t \in Tabs, Play!Load(t) PROVE PlayInv'
<1> USE DEF PlayInv
<1>1. Play!Found(storage) \in Choice
  BY FoundIsStored DEF PlayTypes
<1>2. Play!Loaded(storage) = [envs |-> storage.envs, active |-> Play!Found(storage)]
  BY DEF Play!Loaded
<1>3. UNCHANGED storage
  BY DEF Play!Load
<1>4. used' = [u \in Tabs |-> used'[u]]
  BY DEF Play!Load, Play!Sync, PlayTypes
<1>5. PlayTypes'
  <2>1. /\ side' = [u \in Tabs |-> side'[u]] /\ page' = [u \in Tabs |-> page'[u]]
        /\ sends' = [u \in Tabs |-> sends'[u]] /\ unsaved' = [u \in Tabs |-> unsaved'[u]]
        /\ lone' \in [Tabs -> BOOLEAN] /\ apart' \in [Tabs -> BOOLEAN]
    BY DEF PlayTypes, Play!Load
  <2>2. ASSUME NEW u \in Tabs
        PROVE  /\ side'[u].envs \in Contents /\ side'[u].active \in Choice
               /\ side'[u] = [envs |-> side'[u].envs, active |-> side'[u].active,
                             shown |-> side'[u].shown]
               /\ page'[u].active \in Choice
               /\ page'[u] = [envs |-> page'[u].envs, active |-> page'[u].active]
    <3>1. CASE u = t
      <4>1. /\ side'[u] = [envs |-> storage.envs, active |-> Play!Found(storage), shown |-> None]
            /\ page'[u] = [envs |-> storage.envs, active |-> Play!Found(storage)]
        BY <1>2, <3>1 DEF PlayTypes, Play!Load
      <4>2. storage.envs \in Contents
        BY DEF PlayTypes
      <4> QED BY <1>1, <4>1, <4>2
    <3>2. CASE u # t
      <4>1. side'[u] = side[u] /\ page'[u] = page[u]
        BY <3>2 DEF PlayTypes, Play!Load
      <4> QED BY <4>1 DEF PlayTypes
    <3> QED BY <3>1, <3>2
  <2> QED BY <1>3, <1>4, <2>1, <2>2 DEF PlayTypes
<1>6. ASSUME NEW u \in Tabs PROVE TabHolds(u)'
  <2>1. CASE u # t
    <3>1. /\ side'[u] = side[u] /\ page'[u] = page[u] /\ used'[u] = used[u]
          /\ sends'[u] = sends[u] /\ unsaved'[u] = unsaved[u] /\ lone'[u] = lone[u]
          /\ apart'[u] = apart[u]
      BY <2>1 DEF PlayTypes, Play!Load, Play!Sync
    <3> QED BY <1>3, <3>1 DEF TabHolds, Restores, UsesStored
  <2>2. CASE u = t
    <3>1. /\ side'[u].envs = storage.envs /\ side'[u].active = Play!Found(storage)
          /\ page'[u].envs = storage.envs /\ page'[u].active = Play!Found(storage)
          /\ sends'[u] = storage.history
      BY <1>2, <2>2 DEF PlayTypes, Play!Load
    <3>2. Play!Found(storage) # None => used'[u] = storage.envs[Play!Found(storage)]
      BY <1>2, <2>2 DEF PlayTypes, Play!Load, Play!Sync
    <3>3. Play!Found(storage) # None => storage.envs[Play!Found(storage)] # None
      BY FoundIsStored DEF PlayTypes
    <3> QED BY <1>3, <3>1, <3>2, <3>3 DEF TabHolds, Restores, UsesStored
  <2> QED BY <2>1, <2>2
<1> QED BY <1>5, <1>6

\* A tab is still alone with the storage if all it wrote is there, and if another
\* wrote nothing.
LEMMA StoreSays ==
  ASSUME PlayTypes, NEW t \in Tabs, NEW new, Play!Store(t, new)
  PROVE  /\ storage' \in {storage, new} /\ lone' \in [Tabs -> BOOLEAN]
         /\ lone'[t] => lone[t] /\ storage' = new
         /\ \A u \in Tabs \ {t} : lone'[u] => lone[u] /\ storage' = storage
BY DEF PlayTypes, Play!Store

\* The other tabs need not be looked at.
LEMMA OthersHold ==
  ASSUME PlayInv, NEW t \in Tabs, NEW new, Play!Store(t, new),
         \A u \in Tabs \ {t} :
           /\ side'[u] = side[u] /\ page'[u] = page[u] /\ used'[u] = used[u]
           /\ sends'[u] = sends[u] /\ unsaved'[u] = unsaved[u] /\ apart'[u] = apart[u],
         NEW u \in Tabs \ {t}
  PROVE  TabHolds(u)'
<1>1. lone'[u] => lone[u] /\ storage' = storage
  BY StoreSays DEF PlayInv
<1> QED BY <1>1 DEF PlayInv, TabHolds, Restores, UsesStored

\* A change of a sidebar that stores the environments as they are there, or what is
\* active.
LEMMA ChangeHolds ==
  ASSUME PlayInv, NEW t \in Tabs, NEW envs \in Contents, NEW chosen \in Choice, NEW onDisplay,
         NEW put, Play!Change(t, envs, chosen, onDisplay, put),
         unsaved' \in {unsaved, [unsaved EXCEPT ![t] = {}]},
         put.envs \in Contents, put.active \in Choice,
         put = [envs |-> put.envs, active |-> put.active, history |-> storage.history],
         chosen # None => envs[chosen] # None,
         lone[t] => /\ \A e \in Envs : put.envs[e] = None <=> envs[e] = None
                    /\ \A e \in Envs \ unsaved'[t] : put.envs[e] = envs[e]
                    /\ chosen = page[t].active => Play!Found(put) = chosen
  PROVE  PlayInv'
<1> USE DEF PlayInv
<1>1. Play!Store(t, put) /\ UNCHANGED <<page, used, sends>>
      /\ side' = [side EXCEPT ![t] = [envs |-> envs, active |-> chosen, shown |-> onDisplay]]
      /\ apart' = [apart EXCEPT ![t] = TRUE]
  BY DEF Play!Change
<1>2. /\ storage' \in {storage, put} /\ lone' \in [Tabs -> BOOLEAN]
      /\ lone'[t] => lone[t] /\ storage' = put
  BY <1>1, StoreSays
<1>3. storage'.envs \in Contents /\ storage'.active \in Choice
      /\ storage' = [envs |-> storage'.envs, active |-> storage'.active, history |-> storage'.history]
      /\ storage'.history = storage.history
  <2>1. CASE storage' = storage
    BY <2>1 DEF PlayTypes
  <2>2. CASE storage' = put
    <3>1. /\ storage'.envs = put.envs /\ storage'.active = put.active
          /\ storage'.history = put.history
      BY <2>2
    <3>2. put.history = storage.history
      OBVIOUS
    <3> QED BY <2>2, <3>1, <3>2
  <2> QED BY <1>2, <2>1, <2>2
<1>4. PlayTypes'
  BY <1>1, <1>2, <1>3 DEF PlayTypes
<1>5. TabHolds(t)'
  <2>1. side'[t].envs = envs /\ side'[t].active = chosen /\ apart'[t]
    BY <1>1 DEF PlayTypes
  <2> QED BY <1>1, <1>2, <1>3, <2>1 DEF TabHolds, Restores
<1>6. ASSUME NEW u \in Tabs \ {t} PROVE TabHolds(u)'
  <2>1. \A v \in Tabs \ {t} :
          /\ side'[v] = side[v] /\ page'[v] = page[v] /\ used'[v] = used[v]
          /\ sends'[v] = sends[v] /\ unsaved'[v] = unsaved[v] /\ apart'[v] = apart[v]
    BY <1>1 DEF PlayTypes
  <2> QED BY <1>1, <2>1, OthersHold
<1> QED BY <1>4, <1>5, <1>6

\* What is put in the storage.
LEMMA PutSays ==
  ASSUME PlayTypes, NEW envs, NEW chosen
  PROVE  /\ Play!WithEnvs(envs) = [envs |-> envs, active |-> storage.active,
                                   history |-> storage.history]
         /\ [Play!WithEnvs(envs) EXCEPT !.active = chosen] =
              [envs |-> envs, active |-> chosen, history |-> storage.history]
         /\ [storage EXCEPT !.active = chosen] =
              [envs |-> storage.envs, active |-> chosen, history |-> storage.history]
<1>1. storage = [envs |-> storage.envs, active |-> storage.active, history |-> storage.history]
  BY DEF PlayTypes
<1>2. ASSUME NEW a, NEW b, NEW c, NEW q, q = [envs |-> a, active |-> b, history |-> c]
      PROVE  /\ [q EXCEPT !.envs = envs] = [envs |-> envs, active |-> b, history |-> c]
             /\ [q EXCEPT !.active = chosen] = [envs |-> a, active |-> chosen, history |-> c]
  BY <1>2
<1>3. Play!WithEnvs(envs) = [envs |-> envs, active |-> storage.active, history |-> storage.history]
  BY <1>1, <1>2 DEF Play!WithEnvs
<1>4. [Play!WithEnvs(envs) EXCEPT !.active = chosen] =
        [envs |-> envs, active |-> chosen, history |-> storage.history]
  BY <1>2, <1>3
<1> QED BY <1>1, <1>2, <1>3, <1>4

LEMMA CreateHolds ==
  ASSUME PlayInv, NEW t \in Tabs, NEW e \in Envs, Play!CreateEnvironment(t, e)
  PROVE  PlayInv'
<1> DEFINE envs == [side[t].envs EXCEPT ![e] = Fresh]
           put == [envs |-> envs, active |-> e, history |-> storage.history]
<1>1. Play!Change(t, envs, e, e, put) /\ unsaved' = [unsaved EXCEPT ![t] = {}]
  BY PutSays, Zenon DEF PlayInv, Play!CreateEnvironment
<1>2. envs \in Contents /\ e \in Choice /\ envs[e] # None
  BY NoneIsNoEnv DEF PlayInv, PlayTypes, Contents, Choice
<1> HIDE DEF envs
<1>3. Play!Found(put) = e
  BY <1>2, NoneIsNoEnv DEF Play!Found
<1>4. /\ put.envs = envs /\ put.active = e
      /\ put = [envs |-> put.envs, active |-> put.active, history |-> storage.history]
  OBVIOUS
<1>5. unsaved' \in {unsaved, [unsaved EXCEPT ![t] = {}]}
  BY <1>1
<1> HIDE DEF put
<1> QED BY <1>1, <1>2, <1>3, <1>4, <1>5, ChangeHolds

LEMMA UpdateHolds ==
  ASSUME PlayInv, NEW t \in Tabs, NEW e \in Envs, NEW x \in Values,
         Play!UpdateEnvironment(t, e, x)
  PROVE  PlayInv'
<1> DEFINE envs == [side[t].envs EXCEPT ![e] = x]
           put == [envs |-> envs, active |-> storage.active, history |-> storage.history]
<1>1. /\ Play!Change(t, envs, side[t].active, side[t].shown, put)
      /\ unsaved' = [unsaved EXCEPT ![t] = {}] /\ side[t].envs[e] # None
  BY PutSays, Zenon DEF PlayInv, Play!UpdateEnvironment
<1>2. /\ envs \in Contents /\ side[t].active \in Choice /\ storage.active \in Choice
      /\ \A d \in Envs : envs[d] = None <=> side[t].envs[d] = None
  BY <1>1, NoneIsNoEnv DEF PlayInv, PlayTypes, Contents
<1> HIDE DEF envs
<1>3. side[t].active # None => envs[side[t].active] # None
  BY <1>2 DEF PlayInv, TabHolds, Choice
<1>4. lone[t] => (side[t].active = page[t].active => Play!Found(put) = side[t].active)
  BY <1>2 DEF PlayInv, TabHolds, Restores, Play!Found, Choice
<1>5. /\ put.envs = envs /\ put.active = storage.active
      /\ put = [envs |-> put.envs, active |-> put.active, history |-> storage.history]
  OBVIOUS
<1>6. unsaved' \in {unsaved, [unsaved EXCEPT ![t] = {}]}
  BY <1>1
<1> HIDE DEF put
<1> QED BY <1>1, <1>2, <1>3, <1>4, <1>5, <1>6, ChangeHolds

\* The environment given up, or the one chosen after it, is active as stored.
LEMMA DeleteHolds ==
  ASSUME PlayInv, NEW t \in Tabs, NEW e \in Envs, Play!DeleteEnvironment(t, e)
  PROVE  PlayInv'
<1> DEFINE envs == [side[t].envs EXCEPT ![e] = None]
           kept == IF side[t].active = e THEN None ELSE side[t].active
           given == IF side[t].active = e THEN None ELSE storage.active
           put(chosen) == [envs |-> envs, active |-> chosen, history |-> storage.history]
<1>1. /\ envs \in Contents /\ side[t].active \in Choice /\ storage.active \in Choice
      /\ \A d \in Envs : envs[d] = (IF d = e THEN None ELSE side[t].envs[d])
  BY DEF PlayInv, PlayTypes, Contents
<1>2. \/ \E onDisplay : Play!Change(t, envs, kept, onDisplay, put(given))
      \/ \E next \in Envs : envs[next] # None /\ Play!Change(t, envs, next, next, put(next))
  <2>1. /\ [Play!WithEnvs(envs) EXCEPT !.active = Play!GivenUp(t, e)] = put(given)
        /\ \A next \in Envs : [Play!WithEnvs(envs) EXCEPT !.active = next] = put(next)
    BY PutSays, Zenon DEF PlayInv, Play!GivenUp
  <2>2. \/ \E onDisplay :
             Play!Change(t, envs, kept, onDisplay,
                         [Play!WithEnvs(envs) EXCEPT !.active = Play!GivenUp(t, e)])
        \/ \E next \in Envs :
             envs[next] # None /\ Play!Change(t, envs, next, next,
                                              [Play!WithEnvs(envs) EXCEPT !.active = next])
    BY DEF Play!DeleteEnvironment
  <2> HIDE DEF envs, kept, given, put
  <2> QED BY <2>1, <2>2
<1>3. unsaved' \in {unsaved, [unsaved EXCEPT ![t] = {}]}
  BY DEF Play!DeleteEnvironment
<1> HIDE DEF envs
<1>4. /\ kept \in Choice /\ given \in Choice
      /\ kept # None => envs[kept] # None
  BY <1>1 DEF PlayInv, TabHolds, Choice
<1>5. lone[t] /\ kept = page[t].active => Play!Found(put(given)) = kept
  <2> SUFFICES ASSUME lone[t], kept = page[t].active PROVE Play!Found(put(given)) = kept
    OBVIOUS
  <2>1. Play!Found(put(given)) = IF given # None /\ envs[given] # None THEN given ELSE None
    BY DEF Play!Found
  <2>2. CASE side[t].active = e
    BY <2>1, <2>2
  <2>3. CASE side[t].active # e
    <3>1. side[t].active = Play!Found(storage)
      BY <2>3 DEF PlayInv, TabHolds, Restores
    <3>2. \A d \in Envs : storage.envs[d] = None <=> side[t].envs[d] = None
      BY DEF PlayInv, TabHolds, Restores
    <3> QED BY <1>1, <2>1, <2>3, <3>1, <3>2 DEF Play!Found, Choice
  <2> QED BY <2>2, <2>3
<1>6. ASSUME NEW next \in Envs, envs[next] # None PROVE Play!Found(put(next)) = next
  BY <1>6, NoneIsNoEnv DEF Play!Found
<1>7. ASSUME NEW onDisplay, Play!Change(t, envs, kept, onDisplay, put(given)) PROVE PlayInv'
  <2> DEFINE p == put(given)
  <2>1. /\ p.envs = envs /\ p.active = given
        /\ p = [envs |-> p.envs, active |-> p.active, history |-> storage.history]
    OBVIOUS
  <2>2. Play!Change(t, envs, kept, onDisplay, p)
    BY <1>7
  <2>3. lone[t] /\ kept = page[t].active => Play!Found(p) = kept
    BY <1>5
  <2> HIDE DEF p, kept, given, put
  <2> QED BY <1>1, <1>3, <1>4, <2>1, <2>2, <2>3, ChangeHolds
<1>8. ASSUME NEW next \in Envs, envs[next] # None, Play!Change(t, envs, next, next, put(next))
      PROVE  PlayInv'
  <2> DEFINE p == put(next)
  <2>1. /\ p.envs = envs /\ p.active = next
        /\ p = [envs |-> p.envs, active |-> p.active, history |-> storage.history]
    OBVIOUS
  <2>2. Play!Change(t, envs, next, next, p) /\ Play!Found(p) = next
    BY <1>6, <1>8
  <2>3. next \in Choice
    BY DEF Choice
  <2> HIDE DEF p, put
  <2> QED BY <1>1, <1>3, <1>8, <2>1, <2>2, <2>3, ChangeHolds
<1> QED BY <1>2, <1>7, <1>8

LEMMA ChooseHolds ==
  ASSUME PlayInv, NEW t \in Tabs, NEW e \in Choice, Play!ChooseInSidebar(t, e)
  PROVE  PlayInv'
<1> DEFINE put == [envs |-> storage.envs, active |-> e, history |-> storage.history]
<1>1. PICK onDisplay : Play!Change(t, side[t].envs, e, onDisplay, put)
  BY PutSays, Zenon DEF PlayInv, Play!ChooseInSidebar
<1>2. (e # None => side[t].envs[e] # None) /\ unsaved' = unsaved
  BY DEF Play!ChooseInSidebar
<1>3. side[t].envs \in Contents /\ storage.envs \in Contents
  BY DEF PlayInv, PlayTypes
<1>4. lone[t] => Play!Found(put) = e
  BY <1>2 DEF PlayInv, TabHolds, Restores, Play!Found, Choice
<1>5. lone[t] => /\ \A d \in Envs : storage.envs[d] = None <=> side[t].envs[d] = None
                 /\ \A d \in Envs \ unsaved'[t] : storage.envs[d] = side[t].envs[d]
  BY <1>2 DEF PlayInv, TabHolds, Restores
<1> QED BY <1>1, <1>2, <1>3, <1>4, <1>5, ChangeHolds

LEMMA EditHolds ==
  ASSUME PlayInv, NEW t \in Tabs, NEW e \in Envs, NEW x \in Values, Play!EditInPlace(t, e, x)
  PROVE  PlayInv'
<1> DEFINE envs == [side[t].envs EXCEPT ![e] = x]
<1>1. /\ side' = [side EXCEPT ![t] = [side[t] EXCEPT !.envs = envs]]
      /\ unsaved' = [unsaved EXCEPT ![t] = unsaved[t] \cup {e}]
      /\ apart' = [apart EXCEPT ![t] = TRUE]
      /\ UNCHANGED <<storage, page, used, sends, lone>> /\ side[t].envs[e] # None
  BY DEF PlayInv, PlayTypes, Play!EditInPlace
<1>2. /\ envs \in Contents
      /\ \A d \in Envs : envs[d] = None <=> side[t].envs[d] = None
      /\ \A d \in Envs \ {e} : envs[d] = side[t].envs[d]
  BY <1>1, NoneIsNoEnv DEF PlayInv, PlayTypes, Contents
<1> HIDE DEF envs
<1>3. /\ side'[t].envs = envs /\ side'[t].active = side[t].active
      /\ side'[t] = [envs |-> envs, active |-> side[t].active, shown |-> side[t].shown]
      /\ \A u \in Tabs \ {t} : side'[u] = side[u] /\ unsaved'[u] = unsaved[u] /\ apart'[u] = apart[u]
      /\ unsaved'[t] = unsaved[t] \cup {e} /\ apart'[t]
      /\ side' = [u \in Tabs |-> side'[u]] /\ unsaved' = [u \in Tabs |-> unsaved'[u]]
      /\ apart' \in [Tabs -> BOOLEAN]
  <2>1. [side[t] EXCEPT !.envs = envs] =
          [envs |-> envs, active |-> side[t].active, shown |-> side[t].shown]
    BY DEF PlayInv, PlayTypes
  <2>2. t \in DOMAIN side /\ t \in DOMAIN unsaved /\ t \in DOMAIN apart
    BY DEF PlayInv, PlayTypes
  <2>3. side'[t] = [envs |-> envs, active |-> side[t].active, shown |-> side[t].shown]
    BY <1>1, <2>1, <2>2
  <2>4. side' = [u \in Tabs |-> side'[u]] /\ unsaved' = [u \in Tabs |-> unsaved'[u]]
    BY <1>1 DEF PlayInv, PlayTypes
  <2>5. \A u \in Tabs \ {t} : side'[u] = side[u] /\ unsaved'[u] = unsaved[u] /\ apart'[u] = apart[u]
    BY <1>1 DEF PlayInv, PlayTypes
  <2>6. unsaved'[t] = unsaved[t] \cup {e} /\ apart'[t] /\ apart' \in [Tabs -> BOOLEAN]
    BY <1>1, <2>2 DEF PlayInv, PlayTypes
  <2> QED BY <2>3, <2>4, <2>5, <2>6
<1>4. PlayTypes'
  BY <1>1, <1>2, <1>3 DEF PlayInv, PlayTypes
<1>5. ASSUME NEW u \in Tabs PROVE TabHolds(u)'
  <2>1. CASE u = t
    <3>1. side'[t].active # None => side'[t].envs[side'[t].active] # None
      BY <1>2, <1>3 DEF PlayInv, PlayTypes, TabHolds, Choice
    <3>2. lone'[t] => Restores(t)'
      <4>1. Play!Found(storage)' = Play!Found(storage)
        BY <1>1 DEF Play!Found
      <4> QED BY <1>1, <1>2, <1>3, <4>1 DEF PlayInv, TabHolds, Restores
    <3> QED BY <1>3, <2>1, <3>1, <3>2 DEF TabHolds
  <2>2. CASE u # t
    BY <1>1, <1>3, <2>2 DEF PlayInv, TabHolds, Restores, UsesStored
  <2> QED BY <2>1, <2>2
<1> QED BY <1>4, <1>5 DEF PlayInv

LEMMA ChooseInPageHolds ==
  ASSUME PlayInv, NEW t \in Tabs, NEW e \in Choice, Play!ChooseInPage(t, e)
  PROVE  PlayInv'
<1> DEFINE put == [envs |-> storage.envs, active |-> e, history |-> storage.history]
           copy == [envs |-> page[t].envs, active |-> e]
<1> USE DEF PlayInv
<1>1. /\ page' = [page EXCEPT ![t] = copy] /\ page'[t] = copy
      /\ Play!Store(t, put) /\ (e # None => page[t].envs[e] # None)
      /\ UNCHANGED <<side, sends, unsaved, apart>>
  <2>1. /\ page' = [page EXCEPT ![t].active = e] /\ (e # None => page[t].envs[e] # None)
        /\ UNCHANGED <<side, sends, unsaved, apart>>
    BY DEF Play!ChooseInPage
  <2>2. [page[t] EXCEPT !.active = e] = copy /\ t \in DOMAIN page
    BY DEF PlayTypes
  <2>3. page' = [page EXCEPT ![t] = [page[t] EXCEPT !.active = e]]
    BY <2>1
  <2>4. Play!Store(t, put)
    BY PutSays, Zenon DEF Play!ChooseInPage
  <2> HIDE DEF copy
  <2> QED BY <2>1, <2>2, <2>3, <2>4
<1>2. used' = IF e = None THEN used ELSE [used EXCEPT ![t] = page[t].envs[e]]
  <2>1. used' = IF copy.active = None THEN used
                ELSE [used EXCEPT ![t] = copy.envs[copy.active]]
    BY <1>1, Zenon DEF Play!ChooseInPage, Play!Sync
  <2> QED BY <2>1
<1>3. storage' \in {storage, put} /\ lone' \in [Tabs -> BOOLEAN] /\ (lone'[t] => lone[t] /\ storage' = put)
  BY <1>1, StoreSays
<1>4. /\ storage'.envs = storage.envs /\ storage'.active \in Choice
      /\ storage' = [envs |-> storage'.envs, active |-> storage'.active, history |-> storage'.history]
  BY <1>3 DEF PlayTypes
<1>5. PlayTypes'
  <2>1. used' = [u \in Tabs |-> used'[u]]
    BY <1>2 DEF PlayTypes
  <2> QED BY <1>1, <1>3, <1>4, <2>1 DEF PlayTypes
<1>6. TabHolds(t)'
  <2>1. ASSUME lone'[t] PROVE Restores(t)'
    <3>1. Restores(t) /\ storage' = put
      BY <1>3, <2>1 DEF TabHolds
    <3>2. storage'.history = storage.history /\ storage'.active = e
      BY <3>1
    <3>3. side[t].active = e => Play!Found(storage') = e
      BY <1>4, <3>1, <3>2 DEF TabHolds, Restores, Play!Found, Choice, PlayTypes
    <3> QED BY <1>1, <1>4, <3>1, <3>2, <3>3 DEF Restores
  <2>2. ASSUME lone'[t], ~apart'[t] PROVE UsesStored(t)'
    <3>1. UsesStored(t) /\ storage' = put
      BY <1>1, <1>3, <2>2 DEF TabHolds
    <3>2. storage'.active = e
      BY <3>1
    <3>3. Play!Found(storage') = e
      BY <1>1, <1>4, <3>1, <3>2 DEF UsesStored, Play!Found
    <3>4. e # None => used'[t] = page[t].envs[e]
      BY <1>2 DEF PlayTypes
    <3> QED BY <1>1, <1>4, <3>1, <3>3, <3>4 DEF UsesStored
  <2> QED BY <1>1, <2>1, <2>2 DEF TabHolds
<1>7. ASSUME NEW u \in Tabs \ {t} PROVE TabHolds(u)'
  <2>1. \A v \in Tabs \ {t} :
          /\ side'[v] = side[v] /\ page'[v] = page[v] /\ used'[v] = used[v]
          /\ sends'[v] = sends[v] /\ unsaved'[v] = unsaved[v] /\ apart'[v] = apart[v]
    BY <1>1, <1>2 DEF PlayTypes
  <2> QED BY <1>1, <2>1, OthersHold
<1> QED BY <1>5, <1>6, <1>7

\* The list on display and the one stored are changed in the same way.
LEMMA EntriesHold ==
  ASSUME PlayInv, NEW t \in Tabs, NEW mine, NEW theirs,
         Play!Store(t, [storage EXCEPT !.history = theirs]),
         sends' = [sends EXCEPT ![t] = mine], sends[t] = storage.history => mine = theirs,
         UNCHANGED <<side, page, used, unsaved, apart>>
  PROVE  PlayInv'
<1> DEFINE put == [envs |-> storage.envs, active |-> storage.active, history |-> theirs]
<1> USE DEF PlayInv
<1>1. Play!Store(t, put)
  <2>1. [storage EXCEPT !.history = theirs] = put
    BY DEF PlayTypes
  <2> QED BY <2>1, Zenon
<1>2. storage' \in {storage, put} /\ lone' \in [Tabs -> BOOLEAN] /\ (lone'[t] => lone[t] /\ storage' = put)
  BY <1>1, StoreSays
<1>3. /\ storage'.envs = storage.envs /\ storage'.active = storage.active
      /\ storage' = [envs |-> storage'.envs, active |-> storage'.active, history |-> storage'.history]
  BY <1>2 DEF PlayTypes
<1>4. Play!Found(storage') = Play!Found(storage)
  BY <1>3 DEF Play!Found
<1>5. PlayTypes'
  BY <1>2, <1>3 DEF PlayTypes
<1>6. TabHolds(t)'
  <2>1. sends'[t] = mine
    BY DEF PlayTypes
  <2>2. lone'[t] => storage'.history = theirs
    BY <1>2
  <2> QED BY <1>2, <1>3, <1>4, <2>1, <2>2 DEF TabHolds, Restores, UsesStored
<1>7. ASSUME NEW u \in Tabs \ {t} PROVE TabHolds(u)'
  <2>1. \A v \in Tabs \ {t} : sends'[v] = sends[v]
    BY DEF PlayTypes
  <2> QED BY <1>1, <2>1, OthersHold
<1> QED BY <1>5, <1>6, <1>7

LEMMA SendsHold ==
  ASSUME PlayInv, NEW t \in Tabs,
         \/ \E r \in Played : Play!Send(t, r)
         \/ Play!Answered(t) \/ Play!Record(t) \/ Play!ClearAll(t)
         \/ \E id \in 1 .. MaxEntries : Play!DeleteEntry(t, id)
  PROVE  PlayInv'
<1>1. CASE UNCHANGED <<storage, side, page, used, sends, unsaved, lone, apart>>
  BY <1>1 DEF PlayInv, PlayTypes, TabHolds, Restores, UsesStored
<1>2. CASE Play!Record(t) /\ send[t].seen # None
  <2> DEFINE entry1 == [id |-> entries + 1, request |-> send[t].request, status |-> send[t].seen]
             mine == Play!First(<<entry1>> \o sends[t], MaxHistory)
             theirs == Play!First(<<entry1>> \o storage.history, MaxHistory)
  <2>1. /\ Play!Store(t, [storage EXCEPT !.history = theirs])
        /\ sends' = [sends EXCEPT ![t] = mine]
        /\ UNCHANGED <<side, page, used, unsaved, apart>>
    BY <1>2, Zenon DEF Play!Record, Play!Shortened
  <2>2. sends[t] = storage.history => mine = theirs
    BY Zenon
  <2> HIDE DEF mine, theirs
  <2> QED BY <2>1, <2>2, EntriesHold
<1>3. CASE Play!ClearAll(t)
  BY <1>3, EntriesHold DEF Play!ClearAll
<1>4. ASSUME NEW id \in 1 .. MaxEntries, Play!DeleteEntry(t, id) PROVE PlayInv'
  <2> DEFINE mine == Play!Without(sends[t], id)
             theirs == Play!Without(storage.history, id)
  <2>1. /\ Play!Store(t, [storage EXCEPT !.history = theirs])
        /\ sends' = [sends EXCEPT ![t] = mine]
        /\ UNCHANGED <<side, page, used, unsaved, apart>>
    BY <1>4, Zenon DEF Play!DeleteEntry
  <2>2. sends[t] = storage.history => mine = theirs
    BY Zenon
  <2> HIDE DEF mine, theirs
  <2> QED BY <2>1, <2>2, EntriesHold
<1>5. (\E r \in Played : Play!Send(t, r)) \/ Play!Answered(t) \/ (Play!Record(t) /\ send[t].seen = None)
      => UNCHANGED <<storage, side, page, used, sends, unsaved, lone, apart>>
  BY DEF Play!Send, Play!Answered, Play!Record
<1> QED BY <1>1, <1>2, <1>3, <1>4, <1>5

LEMMA PlayKeeps ==
  ASSUME PlayInv, [Play!Next]_(Play!vars)
  PROVE  PlayInv'
<1>1. CASE UNCHANGED Play!vars
  BY <1>1 DEF Play!vars, PlayInv, PlayTypes, TabHolds, Restores, UsesStored
<1>2. CASE Play!SidebarStep
  BY <1>2, CreateHolds, DeleteHolds, UpdateHolds, EditHolds, ChooseHolds
     DEF Play!SidebarStep, Choice
<1>3. CASE Play!PageStep
  BY <1>3, ChooseInPageHolds, SendsHold DEF Play!PageStep, Choice
<1> QED BY <1>1, <1>2, <1>3, LoadRestores DEF Play!Next

LEMMA PlayStays ==
  ASSUME [ViewsNext]_allVars
  PROVE  [Play!Next]_(Play!vars)
BY DEF ViewsNext, allVars, playVars, Play!vars, ListsStep, PlayStep, HistoryStep, JsonStep,
       SentStep, ScriptStep, OneTabStep, TwoTabsStep, PlayHistoryStep

\* Through creations, deletions, choices and loads in any number of tabs, a tab alone
\* with its storage shows what it will show when it is loaded again, and the page's
\* requests use the variables stored of the active environment
\* (usePlaygroundEnvironment.ts, playground.storage.ts).
THEOREM PlaygroundIsKept == ViewsSpec => []PlaygroundHolds
<1>1. ViewsInit => PlayInv
  BY PlayStarts DEF ViewsInit
<1>2. PlayInv /\ [ViewsNext]_allVars => PlayInv'
  BY PlayStays, PlayKeeps
<1>3. PlayInv => PlaygroundHolds
  BY DEF PlayInv, TabHolds, Restores, UsesStored, PlaygroundHolds, Play!ReloadRestores,
         Play!UsesActive
<1> QED BY <1>1, <1>2, <1>3, PTL DEF ViewsSpec

(***************************************************************************)
(* The lists of the sidebar.                                               *)
(***************************************************************************)

Places == Folders \cup {Root, Gone, Unmade}

Items == [id : Requests, edited : BOOLEAN]

Held(k) ==
  IF k = "collections" THEN [Collections -> Places]
  ELSE IF k = "folders" THEN SUBSET Folders ELSE SUBSET Items

Calls ==
  [do : {"none", "read", "deleteRequest", "rename", "tag", "moveRequest", "save",
         "deleteCollection", "moveCollection", "create", "import", "createFolder",
         "deleteFolder", "clear"},
   id : Collections \cup Requests \cup Folders \cup {Root},
   to : Collections \cup Folders \cup {Root}]

Jobs ==
  [kind : {"none", "one", "bulk", "import", "export"}, todo : SUBSET Calls, call : Calls,
   step : {"next", "sent", "done", "error"}, bad : Nat, chosen : SUBSET Collections,
   rows : SUBSET Items, old : SUBSET Collections]

\* A call is about what its operation is about.
Valid(x) ==
  /\ x \in Calls
  /\ x.do \in {"deleteRequest", "rename", "tag", "moveRequest", "save"} => x.id \in Requests
  /\ x.do \in {"rename", "moveRequest", "save"} => x.to \in Collections
  /\ x.do \in {"read", "deleteCollection", "moveCollection", "create", "import"} =>
       x.id \in Collections
  /\ x.do = "moveCollection" => x.to \in Folders \cup {Root}
  /\ x.do \in {"createFolder", "deleteFolder"} => x.id \in Folders

ListTypes ==
  /\ where \in [Collections -> Places] /\ folders \in SUBSET Folders
  /\ row \in [Requests -> [at : Collections \cup {Gone, Unmade}, edited : BOOLEAN]]
  /\ data = [k \in Lists!Lists |-> data[k]] /\ fetch = [k \in Lists!Lists |-> fetch[k]]
  /\ \A k \in Lists!Lists :
       /\ data[k] \in Held(k) \cup {NotLoaded}
       /\ fetch[k].step \in {"no", "asked", "read"}
       /\ fetch[k].step = "read" => fetch[k].value \in Held(k)
  /\ data["folders"] # NotLoaded
  /\ expanded \in SUBSET Collections
  /\ \A s \in found : s.id \in Requests /\ s.at \in Collections
  /\ job \in Jobs /\ Valid(job.call)

\* What was carried out and is yet to be invalidated.
Pending(k) == job.step = "done" /\ k \in Lists!Invalidated(job.call)

UpToDate(k, v) == v = Lists!Truth(k) \/ k \in stale \cup missed \/ Pending(k)

Existing(k) == k \in Collections => Lists!Kept(k)

\* What a list holds, or an answer that is to arrive, is the server's, or is known not
\* to be; a list on display is fetched unless it is answered and fresh.
ListHolds(k) ==
  /\ Existing(k) =>
       /\ data[k] # NotLoaded => UpToDate(k, data[k])
       /\ fetch[k].step = "read" => UpToDate(k, fetch[k].value)
  /\ Lists!Active(k) /\ (k \in stale \/ data[k] = NotLoaded) =>
       fetch[k].step # "no" \/ k \in failed
  /\ k \in Collections /\ where[k] = Unmade => data[k] = NotLoaded /\ fetch[k].step # "read"

\* A collection is created once, and a request saved once.
CallsHold ==
  /\ \A x \in job.todo : Valid(x) /\ x.do \notin {"none", "create", "import"}
  /\ job.step = "next" => job.call = Lists!NoJob.call
  /\ job.call.do = "read" => job.step = "sent"
  /\ job.step = "sent" /\ job.call.do \in {"create", "import"} => where[job.call.id] = Unmade
  /\ job.call.do = "import" => job.todo = {}
  /\ job.call.do = "save" /\ job.step = "sent" => row[job.call.id].at = Unmade
  /\ \A x \in job.todo : x.do = "save" =>
       /\ row[x.id].at = Unmade
       /\ \A y \in job.todo : y.do = "save" /\ y.id = x.id => y = x
       /\ job.call.do = "save" => x.id # job.call.id

Reads == {Lists!Call("read", c, Root) : c \in job.chosen}

Unread == {x.id : x \in job.todo \cup {job.call}}

\* An export has what the server has of the collections it is done with.
ExportHolds ==
  job.kind = "export" =>
    /\ job.todo \in SUBSET Reads /\ job.call \notin job.todo
    /\ job.step = "next" \/ (job.step = "sent" /\ job.call \in Reads)
    /\ job.old = {} =>
         /\ job.chosen \cap (stale \cup missed) = {}
         /\ (\A c \in job.chosen : Lists!Kept(c)) =>
              job.rows = UNION {Lists!Truth(c) : c \in job.chosen \ Unread}

ListsInv ==
  /\ ListTypes /\ CallsHold /\ ExportHolds
  /\ \A k \in Lists!Lists : ListHolds(k)

LEMMA Keys ==
  /\ Lists!Lists = Collections \cup {"collections", "folders"}
  /\ "collections" \notin Collections /\ "folders" \notin Collections
  /\ Root \notin Collections /\ Gone \notin Collections /\ Unmade \notin Collections
  /\ Gone # Unmade /\ Root # Gone /\ Root # Unmade
  /\ Root \notin Folders /\ Gone \notin Folders /\ Unmade \notin Folders
BY ViewsAssumption DEF Lists!ListsAssumption, Lists!Lists

LEMMA NothingHeld == ASSUME NEW k PROVE NotLoaded \notin Held(k)
BY ViewsAssumption DEF Lists!ListsAssumption, Held, Places, Items

LEMMA TruthIsHeld ==
  ASSUME ListTypes, NEW k \in Lists!Lists
  PROVE  Lists!Truth(k) \in Held(k)
<1>1. ASSUME NEW q \in Requests PROVE Lists!Entry(q) \in Items
  BY DEF ListTypes, Lists!Entry, Items
<1>2. {Lists!Entry(q) : q \in Lists!Page(Lists!Inside(k))} \in SUBSET Items
  BY <1>1 DEF Lists!Page, Lists!Inside
<1> QED BY <1>2, Keys DEF Lists!Truth, Held, ListTypes

LEMMA TruthStays ==
  ASSUME UNCHANGED <<where, folders, row>>, NEW k
  PROVE  Lists!Truth(k)' = Lists!Truth(k) /\ (Existing(k)' <=> Existing(k))
         /\ (Lists!Kept(k)' <=> Lists!Kept(k))
BY DEF Lists!Truth, Lists!Inside, Lists!Page, Lists!Entry, Existing, Lists!Kept, Lists!NoPlace

LEMMA NoJobSays ==
  /\ Lists!NoJob \in Jobs /\ Valid(Lists!NoJob.call) /\ Lists!NoJob.call.do = "none"
  /\ Lists!NoJob.call.id = Root
  /\ Lists!NoJob.step = "next" /\ Lists!NoJob.todo = {} /\ Lists!NoJob.kind = "none"
BY DEF Lists!NoJob, Lists!Call, Jobs, Calls, Valid

\* A step that leaves what the server and the lists hold, asks for more lists or gives
\* them up as failed.
LEMMA QuietKeeps ==
  ASSUME ListsInv, UNCHANGED <<where, folders, row, data, stale, missed>>,
         failed \in SUBSET failed',
         \A k : Pending(k) => Pending(k)',
         fetch' = [k \in Lists!Lists |-> fetch'[k]],
         \A k \in Lists!Lists :
           fetch'[k] = fetch[k] \/ fetch'[k] = Lists!Asked \/ (fetch'[k] = Lists!NoFetch /\ k \in failed'),
         \A k \in Lists!Lists :
           Lists!Active(k)' /\ (k \in stale \/ data[k] = NotLoaded) =>
             Lists!Active(k) \/ fetch'[k].step # "no"
  PROVE  /\ \A k \in Lists!Lists : ListHolds(k)'
         /\ \A k \in Lists!Lists :
              /\ data'[k] \in Held(k) \cup {NotLoaded}
              /\ fetch'[k].step \in {"no", "asked", "read"}
              /\ fetch'[k].step = "read" => fetch'[k].value \in Held(k)
<1> USE DEF ListsInv
<1>1. ASSUME NEW k \in Lists!Lists PROVE ListHolds(k)'
  <2>1. \A v : UpToDate(k, v) =>
          v = Lists!Truth(k)' \/ k \in stale' \cup missed' \/ Pending(k)'
    BY TruthStays DEF UpToDate
  <2>2. fetch'[k].step = "read" => fetch'[k] = fetch[k]
    BY DEF Lists!Asked, Lists!NoFetch
  <2>3. fetch'[k].step = "no" => k \in failed' \/ fetch'[k] = fetch[k]
    BY DEF Lists!Asked
  <2>4. Existing(k)' => (data'[k] # NotLoaded => UpToDate(k, data[k]))
                        /\ (fetch'[k].step = "read" => UpToDate(k, fetch[k].value))
    BY <2>2, TruthStays DEF ListHolds
  <2>5. Existing(k)' =>
          /\ data'[k] # NotLoaded =>
               data'[k] = Lists!Truth(k)' \/ k \in stale' \cup missed' \/ Pending(k)'
          /\ fetch'[k].step = "read" =>
               fetch'[k].value = Lists!Truth(k)' \/ k \in stale' \cup missed' \/ Pending(k)'
    BY <2>1, <2>2, <2>4
  <2>6. Lists!Active(k)' /\ (k \in stale' \/ data'[k] = NotLoaded) =>
          fetch'[k].step # "no" \/ k \in failed'
    BY <2>3 DEF ListHolds
  <2>7. k \in Collections /\ where'[k] = Unmade => data'[k] = NotLoaded /\ fetch'[k].step # "read"
    BY <2>2 DEF ListHolds
  <2> QED BY <2>2, <2>5, <2>6, <2>7 DEF ListHolds, UpToDate
<1>2. ASSUME NEW k \in Lists!Lists
      PROVE  /\ data'[k] \in Held(k) \cup {NotLoaded}
             /\ fetch'[k].step \in {"no", "asked", "read"}
             /\ fetch'[k].step = "read" => fetch'[k].value \in Held(k)
  BY DEF ListTypes, Lists!Asked, Lists!NoFetch
<1> QED BY <1>1, <1>2

\* The job goes on as it was.
LEMMA SameJobKeeps ==
  ASSUME ListsInv, UNCHANGED <<where, folders, row, stale, missed, job>>
  PROVE  CallsHold' /\ ExportHolds' /\ (\A k : Pending(k) => Pending(k)') /\ job' \in Jobs
         /\ Valid(job'.call)
<1>1. CallsHold'
  BY DEF ListsInv, CallsHold
<1>2. ExportHolds'
  <2>1. Unread' = Unread /\ Reads' = Reads
    BY DEF Unread, Reads
  <2>2. UNION {Lists!Truth(c)' : c \in job.chosen \ Unread} =
          UNION {Lists!Truth(c) : c \in job.chosen \ Unread}
    BY TruthStays
  <2>3. \A c \in job.chosen : Lists!Kept(c)' <=> Lists!Kept(c)
    BY TruthStays
  <2> QED BY <2>1, <2>2, <2>3 DEF ListsInv, ExportHolds
<1>3. job' \in Jobs /\ Valid(job'.call)
  BY DEF ListsInv, ListTypes
<1>4. \A k : Pending(k) => Pending(k)'
  BY DEF Pending
<1> QED BY <1>1, <1>2, <1>3, <1>4

LEMMA OpenedSays ==
  ASSUME ListTypes, NEW C
  PROVE  /\ Lists!Opened(C) = [k \in Lists!Lists |-> Lists!Opened(C)[k]]
         /\ \A k \in Lists!Lists :
              /\ Lists!Opened(C)[k] = fetch[k] \/ Lists!Opened(C)[k] = Lists!Asked
              /\ fetch[k].step # "no" => Lists!Opened(C)[k] = fetch[k]
              /\ k \in C /\ (k \in stale \/ data[k] = NotLoaded) =>
                   Lists!Opened(C)[k].step # "no"
BY DEF ListTypes, Lists!Opened, Lists!Asked

LEMMA UserKeeps ==
  ASSUME ListsInv,
         \/ \E c \in Collections : Lists!ToggleExpand(c) \/ Lists!Retry(c)
         \/ Lists!SearchRequests \/ Lists!ClearSelection
         \/ \E x \in Collections \cup Requests : Lists!Select(x)
  PROVE  ListsInv'
<1> USE DEF ListsInv
<1>1. UNCHANGED <<where, folders, row, data, stale, missed, failed, job>>
  BY DEF Lists!ToggleExpand, Lists!Retry, Lists!SearchRequests, Lists!ClearSelection,
         Lists!Select, Lists!server, Lists!cache
<1>2. /\ fetch' = [k \in Lists!Lists |-> fetch'[k]]
      /\ \A k \in Lists!Lists : fetch'[k] = fetch[k] \/ fetch'[k] = Lists!Asked
      /\ expanded' \in SUBSET Collections
      /\ \A k \in Lists!Lists : Lists!Active(k)' /\ (k \in stale \/ data[k] = NotLoaded) =>
           Lists!Active(k) \/ fetch'[k].step # "no"
  <2>1. CASE \E c \in Collections : Lists!ToggleExpand(c)
    <3>1. PICK c \in Collections : Lists!ToggleExpand(c)
      BY <2>1
    <3>2. fetch' = Lists!Opened({c} \ expanded) /\ expanded' \in SUBSET Collections
          /\ expanded' \in SUBSET (expanded \cup ({c} \ expanded))
      BY <3>1 DEF Lists!ToggleExpand, ListTypes
    <3>3. Lists!Listed' = Lists!Listed
      BY <1>1 DEF Lists!Listed, Lists!NoPlace
    <3>4. \A k \in Lists!Lists : Lists!Active(k)' => Lists!Active(k) \/ k \in {c} \ expanded
      BY <3>2, <3>3 DEF Lists!Active
    <3> QED BY <3>2, <3>4, OpenedSays
  <2>2. CASE ~\E c \in Collections : Lists!ToggleExpand(c)
    <3>1. UNCHANGED expanded
      BY <2>2 DEF Lists!Retry, Lists!SearchRequests, Lists!ClearSelection, Lists!Select, Lists!ui
    <3>2. \/ UNCHANGED fetch
          \/ \E c \in Collections : fetch' = [fetch EXCEPT ![c] = IF @.step = "no" THEN Lists!Asked ELSE @]
      BY <2>2 DEF Lists!Retry, Lists!FetchRequests, Lists!SearchRequests, Lists!ClearSelection,
                  Lists!Select, Lists!cache
    <3>3. \A k \in Lists!Lists : Lists!Active(k)' <=> Lists!Active(k)
      BY <1>1, <3>1 DEF Lists!Active, Lists!Listed, Lists!NoPlace
    <3> QED BY <3>1, <3>2, <3>3 DEF ListTypes
  <2> QED BY <2>1, <2>2
<1>3. \A s \in found' : s.id \in Requests /\ s.at \in Collections
  <2>1. ASSUME Lists!SearchRequests, NEW s \in found' PROVE s.id \in Requests /\ s.at \in Collections
    <3>1. PICK q \in Requests : row[q].at \notin Lists!NoPlace /\ s = [id |-> q, at |-> row[q].at]
      BY <2>1 DEF Lists!SearchRequests
    <3> QED BY <3>1 DEF ListTypes, Lists!NoPlace
  <2>2. Lists!SearchRequests \/ UNCHANGED found
    BY DEF Lists!ToggleExpand, Lists!Retry, Lists!ClearSelection, Lists!Select, Lists!ui
  <2> QED BY <2>1, <2>2 DEF ListTypes
<1>4. CallsHold' /\ ExportHolds' /\ (\A k : Pending(k) => Pending(k)') /\ job' \in Jobs
      /\ Valid(job'.call)
  BY <1>1, SameJobKeeps
<1>5. /\ \A k \in Lists!Lists : ListHolds(k)'
      /\ \A k \in Lists!Lists :
           /\ data'[k] \in Held(k) \cup {NotLoaded}
           /\ fetch'[k].step \in {"no", "asked", "read"}
           /\ fetch'[k].step = "read" => fetch'[k].value \in Held(k)
  BY <1>1, <1>2, <1>4, QuietKeeps
<1>6. ListTypes'
  BY <1>1, <1>2, <1>3, <1>4, <1>5 DEF ListTypes
<1> QED BY <1>4, <1>5, <1>6

(***************************************************************************)
(* What the user asks for.                                                 *)
(***************************************************************************)

\* A step that does nothing but change the job.
LEMMA JobKeeps ==
  ASSUME ListsInv, UNCHANGED <<where, folders, row, data, stale, failed, fetch, missed,
                               expanded, found>>,
         job' \in Jobs, Valid(job'.call), \A k : Pending(k) => Pending(k)', CallsHold', ExportHolds'
  PROVE  ListsInv'
<1>1. /\ fetch' = [k \in Lists!Lists |-> fetch'[k]]
      /\ \A k \in Lists!Lists : fetch'[k] = fetch[k]
      /\ \A k \in Lists!Lists : Lists!Active(k)' => Lists!Active(k)
  BY DEF ListsInv, ListTypes, Lists!Active, Lists!Listed, Lists!NoPlace
<1>2. /\ \A k \in Lists!Lists : ListHolds(k)'
      /\ \A k \in Lists!Lists :
           /\ data'[k] \in Held(k) \cup {NotLoaded}
           /\ fetch'[k].step \in {"no", "asked", "read"}
           /\ fetch'[k].step = "read" => fetch'[k].value \in Held(k)
  BY <1>1, QuietKeeps
<1>3. ListTypes'
  BY <1>2 DEF ListsInv, ListTypes
<1> QED BY <1>2, <1>3 DEF ListsInv

\* Calls that a job may begin with, and those it may go on with.
Later(calls) ==
  \A x \in calls :
    /\ Valid(x) /\ x.do \notin {"none", "create", "import"}
    /\ x.do = "save" => /\ row[x.id].at = Unmade
                        /\ \A y \in calls : y.do = "save" /\ y.id = x.id => y = x

FirstOf(calls, x) ==
  /\ Valid(x) /\ x.do \notin {"read", "save"}
  /\ x.do \in {"create", "import"} => where[x.id] = Unmade
  /\ x.do = "import" => calls = {}

LEMMA StartKeeps ==
  ASSUME ListsInv, NEW kind \in {"one", "bulk", "import"}, NEW calls \in SUBSET Calls,
         NEW first, Lists!Start(kind, calls, first), Later(calls), FirstOf(calls, first)
  PROVE  ListsInv'
<1>1. /\ job = Lists!NoJob
      /\ job' = [Lists!NoJob EXCEPT !.kind = kind, !.todo = calls, !.call = first,
                   !.step = IF first = Lists!NoJob.call THEN "next" ELSE "sent"]
      /\ UNCHANGED <<where, folders, row, data, stale, failed, fetch, missed, expanded, found>>
  BY DEF Lists!Start, Lists!server, Lists!cache, Lists!ui
<1>2. /\ job' \in Jobs /\ job'.kind = kind /\ job'.todo = calls /\ job'.call = first
      /\ job'.step \in {"next", "sent"}
      /\ job'.step = "next" => first = Lists!NoJob.call
  BY <1>1, NoJobSays DEF Jobs, FirstOf, Valid
<1>3. \A k : Pending(k) => Pending(k)'
  BY <1>1, NoJobSays DEF Pending
<1>4. CallsHold'
  BY <1>1, <1>2, Zenon DEF CallsHold, Later, FirstOf
<1>5. ExportHolds'
  BY <1>2 DEF ExportHolds
<1> QED BY <1>1, <1>2, <1>3, <1>4, <1>5, JobKeeps DEF FirstOf

LEMMA ShownSays ==
  ASSUME ListsInv, NEW s \in Lists!Shown
  PROVE  s.id \in Requests /\ s.at \in Collections
<1>1. CASE s \in found
  BY <1>1 DEF ListsInv, ListTypes
<1>2. CASE s \notin found
  <2>1. PICK c \in expanded \cap Lists!Listed :
          s \in {[id |-> e.id, at |-> c] : e \in Lists!Loaded(c)}
    BY <1>2 DEF Lists!Shown
  <2>0. PICK e \in Lists!Loaded(c) : s = [id |-> e.id, at |-> c]
    BY <2>1
  <2>2. c \in Collections /\ data[c] \in Held(c) /\ e \in data[c]
    BY <2>0, <2>1, Keys DEF ListsInv, ListTypes, Lists!Loaded
  <2>3. e \in Items
    BY <2>2, Keys DEF Held
  <2> QED BY <2>0, <2>2, <2>3 DEF Items
<1> QED BY <1>1, <1>2

LEMMA ListedSays ==
  ASSUME ListsInv
  PROVE  Lists!Listed \in SUBSET Collections /\ data["folders"] \in SUBSET Folders
BY Keys DEF ListsInv, ListTypes, Lists!Listed, Held

LEMMA Nothing == {} \in SUBSET Calls /\ Later({})
BY DEF Later

LEMMA CallSays ==
  ASSUME NEW op, NEW id, NEW to
  PROVE  /\ Lists!Call(op, id, to).do = op /\ Lists!Call(op, id, to).id = id
         /\ Lists!Call(op, id, to).to = to
BY DEF Lists!Call

LEMMA ValidCalls ==
  /\ \A q \in Requests : Valid(Lists!Call("deleteRequest", q, Root))
  /\ \A q \in Requests, c \in Collections :
       Valid(Lists!Call("moveRequest", q, c)) /\ Valid(Lists!Call("save", q, c))
  /\ \A c \in Collections :
       Valid(Lists!Call("deleteCollection", c, Root)) /\ Valid(Lists!Call("read", c, Root))
  /\ \A c \in Collections, f \in Folders \cup {Root} : Valid(Lists!Call("moveCollection", c, f))
BY DEF Valid, Calls, Lists!Call

\* One call.
LEMMA OneKeeps ==
  ASSUME ListsInv, NEW first, Lists!Start("one", {}, first), FirstOf({}, first)
  PROVE  ListsInv'
BY Nothing, StartKeeps

LEMMA OperateKeeps == ASSUME ListsInv, Lists!Operate PROVE ListsInv'
<1>1. ASSUME NEW s \in Lists!Shown, NEW op \in {"deleteRequest", "rename", "tag"},
             Lists!Start("one", {}, Lists!Call(op, s.id, s.at))
      PROVE  ListsInv'
  <2>1. FirstOf({}, Lists!Call(op, s.id, s.at))
    BY ShownSays DEF FirstOf, Valid, Calls, Lists!Call
  <2> QED BY <1>1, <2>1, OneKeeps
<1>2. ASSUME NEW c \in Lists!Listed, Lists!Start("one", {}, Lists!Call("deleteCollection", c, Root))
      PROVE  ListsInv'
  <2>1. FirstOf({}, Lists!Call("deleteCollection", c, Root))
    BY ListedSays DEF FirstOf, Valid, Calls, Lists!Call
  <2> QED BY <1>2, <2>1, OneKeeps
<1>3. ASSUME NEW c \in Lists!Listed, NEW f \in data["folders"] \cup {Root},
             Lists!Start("one", {}, Lists!Call("moveCollection", c, f))
      PROVE  ListsInv'
  <2>1. FirstOf({}, Lists!Call("moveCollection", c, f))
    BY ListedSays DEF FirstOf, Valid, Calls, Lists!Call
  <2> QED BY <1>3, <2>1, OneKeeps
<1>4. ASSUME NEW f \in data["folders"], Lists!Start("one", {}, Lists!Call("deleteFolder", f, Root))
      PROVE  ListsInv'
  <2>1. FirstOf({}, Lists!Call("deleteFolder", f, Root))
    BY ListedSays DEF FirstOf, Valid, Calls, Lists!Call
  <2> QED BY <1>4, <2>1, OneKeeps
<1>5. ASSUME NEW c \in Collections, NEW op \in {"create", "import"}, where[c] = Unmade,
             Lists!Start("one", {}, Lists!Call(op, c, Root))
      PROVE  ListsInv'
  <2>1. FirstOf({}, Lists!Call(op, c, Root))
    BY <1>5 DEF FirstOf, Valid, Calls, Lists!Call
  <2> QED BY <1>5, <2>1, OneKeeps
<1>6. ASSUME NEW f \in Folders, Lists!Start("one", {}, Lists!Call("createFolder", f, Root))
      PROVE  ListsInv'
  <2>1. FirstOf({}, Lists!Call("createFolder", f, Root))
    BY DEF FirstOf, Valid, Calls, Lists!Call
  <2> QED BY <1>6, <2>1, OneKeeps
<1>7. ASSUME Lists!Start("one", {}, Lists!Call("clear", Root, Root)) PROVE ListsInv'
  <2>1. FirstOf({}, Lists!Call("clear", Root, Root))
    BY DEF FirstOf, Valid, Calls, Lists!Call
  <2> QED BY <1>7, <2>1, OneKeeps
<1> QED BY <1>1, <1>2, <1>3, <1>4, <1>5, <1>6, <1>7 DEF Lists!Operate

\* Many calls, none of which saves a request.
LEMMA BulkKeeps ==
  ASSUME ListsInv, NEW calls, Lists!Start("bulk", calls, Lists!NoJob.call),
         \A x \in calls : Valid(x) /\ x.do \notin {"none", "create", "import", "save"}
  PROVE  ListsInv'
<1>1. calls \in SUBSET Calls /\ Later(calls)
  BY DEF Later, Valid
<1>2. FirstOf(calls, Lists!NoJob.call)
  BY NoJobSays DEF FirstOf
<1> QED BY <1>1, <1>2, StartKeeps

LEMMA BulkStarts ==
  ASSUME ListsInv, Lists!BulkDelete \/ Lists!BulkMove
  PROVE  ListsInv'
<1>1. CASE Lists!BulkDelete
  <2> DEFINE calls == {Lists!Call("deleteRequest", q, Root) : q \in Lists!SelectedRequests}
                        \cup {Lists!Call("deleteCollection", c, Root) :
                                c \in Lists!SelectedCollections}
  <2>1. ASSUME NEW x \in calls PROVE Valid(x) /\ x.do \notin {"none", "create", "import", "save"}
    <3>1. CASE x \in {Lists!Call("deleteRequest", q, Root) : q \in Lists!SelectedRequests}
      <4>1. PICK q \in Lists!SelectedRequests : x = Lists!Call("deleteRequest", q, Root)
        BY <3>1
      <4>2. Valid(Lists!Call("deleteRequest", q, Root))
        BY ValidCalls DEF Lists!SelectedRequests
      <4>3. Lists!Call("deleteRequest", q, Root).do = "deleteRequest"
        BY CallSays
      <4> QED BY <4>1, <4>2, <4>3
    <3>2. CASE x \in {Lists!Call("deleteCollection", c, Root) : c \in Lists!SelectedCollections}
      <4>1. PICK c \in Lists!SelectedCollections : x = Lists!Call("deleteCollection", c, Root)
        BY <3>2
      <4>2. Valid(Lists!Call("deleteCollection", c, Root))
        BY ValidCalls DEF Lists!SelectedCollections
      <4>3. Lists!Call("deleteCollection", c, Root).do = "deleteCollection"
        BY CallSays
      <4> QED BY <4>1, <4>2, <4>3
    <3> QED BY <3>1, <3>2
  <2>2. Lists!Start("bulk", calls, Lists!NoJob.call)
    BY <1>1 DEF Lists!BulkDelete
  <2> HIDE DEF calls
  <2> QED BY <2>1, <2>2, BulkKeeps
<1>2. ASSUME NEW f \in data["folders"] \cup {Root},
             Lists!Start("bulk", {Lists!Call("moveCollection", c, f) :
                                    c \in Lists!SelectedCollections}, Lists!NoJob.call)
      PROVE  ListsInv'
  <2> DEFINE calls == {Lists!Call("moveCollection", c, f) : c \in Lists!SelectedCollections}
  <2>1. ASSUME NEW x \in calls PROVE Valid(x) /\ x.do \notin {"none", "create", "import", "save"}
    <3>1. PICK c \in Lists!SelectedCollections : x = Lists!Call("moveCollection", c, f)
      OBVIOUS
    <3>2. Valid(Lists!Call("moveCollection", c, f))
      BY ListedSays, ValidCalls DEF Lists!SelectedCollections
    <3>3. Lists!Call("moveCollection", c, f).do = "moveCollection"
      BY CallSays
    <3> QED BY <3>1, <3>2, <3>3
  <2> HIDE DEF calls
  <2> QED BY <1>2, <2>1, BulkKeeps DEF calls
<1>3. ASSUME NEW c \in Lists!Listed,
             Lists!Start("bulk", {Lists!Call("moveRequest", q, c) : q \in Lists!SelectedRequests},
                         Lists!NoJob.call)
      PROVE  ListsInv'
  <2> DEFINE calls == {Lists!Call("moveRequest", q, c) : q \in Lists!SelectedRequests}
  <2>1. ASSUME NEW x \in calls PROVE Valid(x) /\ x.do \notin {"none", "create", "import", "save"}
    <3>1. PICK q \in Lists!SelectedRequests : x = Lists!Call("moveRequest", q, c)
      OBVIOUS
    <3>2. Valid(Lists!Call("moveRequest", q, c))
      BY ListedSays, ValidCalls DEF Lists!SelectedRequests
    <3>3. Lists!Call("moveRequest", q, c).do = "moveRequest"
      BY CallSays
    <3> QED BY <3>1, <3>2, <3>3
  <2> HIDE DEF calls
  <2> QED BY <1>3, <2>1, BulkKeeps DEF calls
<1> QED BY <1>1, <1>2, <1>3 DEF Lists!BulkMove

LEMMA ImportStarts == ASSUME ListsInv, Lists!ImportFile PROVE ListsInv'
<1>1. PICK c \in Collections :
        /\ where[c] = Unmade
        /\ Lists!Start("import", {Lists!Call("save", q, c) : q \in Lists!Inside(Unmade)},
                       Lists!Call("create", c, Root))
  BY DEF Lists!ImportFile
<1> DEFINE calls == {Lists!Call("save", q, c) : q \in Lists!Inside(Unmade)}
           first == Lists!Call("create", c, Root)
<1>2. ASSUME NEW x \in calls
      PROVE  /\ Valid(x) /\ x.do \notin {"none", "create", "import"} /\ row[x.id].at = Unmade
             /\ x = Lists!Call("save", x.id, c)
  <2>1. PICK q \in Lists!Inside(Unmade) : x = Lists!Call("save", q, c)
    OBVIOUS
  <2>2. Valid(Lists!Call("save", q, c)) /\ row[q].at = Unmade
    BY ValidCalls DEF Lists!Inside
  <2>3. Lists!Call("save", q, c).do = "save" /\ Lists!Call("save", q, c).id = q
    BY CallSays
  <2> QED BY <2>1, <2>2, <2>3
<1>3. FirstOf(calls, first)
  BY <1>1 DEF FirstOf, Valid, Calls, Lists!Call
<1>4. Lists!Start("import", calls, first)
  BY <1>1
<1> HIDE DEF calls, first
<1>5. Later(calls) /\ calls \in SUBSET Calls
  BY <1>2, Zenon DEF Later, Valid
<1> QED BY <1>3, <1>4, <1>5, StartKeeps

\* The lists taken as they are, are the server's, unless one is old.
LEMMA ExportStarts == ASSUME ListsInv, Lists!BulkExport PROVE ListsInv'
<1> DEFINE homes == {c \in Lists!Listed : \E e \in Lists!Loaded(c) : e.id \in selected}
           chosen == (Lists!SelectedCollections \cap Lists!Listed) \cup homes
           read == {c \in chosen : Lists!Loaded(c) = {}}
           todo == {Lists!Call("read", c, Root) : c \in read}
           taken == UNION {Lists!Loaded(c) : c \in chosen}
           old == chosen \cap (stale \cup missed)
<1> USE DEF ListsInv
<1>1. /\ job = Lists!NoJob
      /\ job' = [Lists!NoJob EXCEPT !.kind = "export", !.chosen = chosen, !.todo = todo,
                   !.rows = taken, !.old = old]
      /\ UNCHANGED <<where, folders, row, data, stale, failed, fetch, missed, expanded, found>>
  BY DEF Lists!BulkExport, Lists!server, Lists!cache, Lists!ui
<1>2. chosen \in SUBSET Collections
  BY ListedSays DEF Lists!SelectedCollections
<1>3. ASSUME NEW c \in chosen PROVE Lists!Loaded(c) \in SUBSET Items
  BY <1>2, Keys DEF Lists!Loaded, ListTypes, Held
<1>4. \A x \in todo : Valid(x) /\ x.do = "read" /\ x.id \in read
  <2> SUFFICES ASSUME NEW x \in todo PROVE Valid(x) /\ x.do = "read" /\ x.id \in read
    OBVIOUS
  <2>1. PICK c \in read : x = Lists!Call("read", c, Root)
    OBVIOUS
  <2>2. c \in Collections
    BY <1>2
  <2>3. Valid(Lists!Call("read", c, Root))
    BY <2>2, ValidCalls
  <2>4. Lists!Call("read", c, Root).do = "read" /\ Lists!Call("read", c, Root).id = c
    BY CallSays
  <2> QED BY <2>1, <2>3, <2>4
<1>5. taken \in SUBSET Items /\ old \in SUBSET Collections /\ todo \in SUBSET Calls
      /\ read \in SUBSET chosen
  BY <1>2, <1>3, <1>4 DEF Valid
<1>6. \A c \in read : Lists!Call("read", c, Root) \in todo /\ Lists!Call("read", c, Root).id = c
  BY DEF Lists!Call
<1>7. ASSUME old = {}, \A c \in chosen : Lists!Kept(c)
      PROVE  taken = UNION {Lists!Truth(c) : c \in chosen \ read}
  <2>1. ASSUME NEW c \in chosen \ read PROVE Lists!Loaded(c) = Lists!Truth(c)
    <3>1. Lists!Loaded(c) = data[c] /\ data[c] # NotLoaded
      BY <2>1 DEF Lists!Loaded
    <3>2. UpToDate(c, data[c]) /\ c \notin stale \cup missed
      BY <1>2, <1>7, <2>1, <3>1, Keys DEF ListHolds, Existing
    <3>3. ~Pending(c)
      BY <1>1, NoJobSays DEF Pending
    <3> QED BY <3>1, <3>2, <3>3 DEF UpToDate
  <2>2. \A c \in read : Lists!Loaded(c) = {}
    OBVIOUS
  <2>3. taken \in SUBSET UNION {Lists!Loaded(c) : c \in chosen \ read}
    BY <2>2
  <2>4. UNION {Lists!Loaded(c) : c \in chosen \ read} \in SUBSET taken
    OBVIOUS
  <2>5. {Lists!Loaded(c) : c \in chosen \ read} = {Lists!Truth(c) : c \in chosen \ read}
    BY <2>1
  <2> QED BY <2>3, <2>4, <2>5
<1> HIDE DEF chosen, read, todo, taken, old
<1>8. /\ job' \in Jobs /\ job'.kind = "export" /\ job'.chosen = chosen /\ job'.todo = todo
      /\ job'.rows = taken /\ job'.old = old /\ job'.step = "next"
      /\ job'.call = Lists!NoJob.call
  BY <1>1, <1>2, <1>5, NoJobSays DEF Jobs
<1>9. \A k : Pending(k) => Pending(k)'
  BY <1>1, NoJobSays DEF Pending
<1>10. CallsHold'
  BY <1>4, <1>8, NoJobSays DEF CallsHold
<1>11. ExportHolds'
  <2>1. Reads' = {Lists!Call("read", c, Root) : c \in chosen}
    BY <1>8 DEF Reads
  <2>2. todo \in SUBSET Reads'
    BY <1>5, <2>1 DEF todo
  <2>3. Unread' = read \cup {Root}
    <3>1. Unread' = {x.id : x \in todo \cup {Lists!NoJob.call}}
      BY <1>8 DEF Unread
    <3> QED BY <3>1, <1>4, <1>6, NoJobSays
  <2>4. job'.call \notin job'.todo
    BY <1>4, <1>8, NoJobSays
  <2>5. chosen \ Unread' = chosen \ read
    BY <1>2, <2>3, Keys
  <2>6. old = {} => chosen \cap (stale \cup missed) = {}
    BY DEF old
  <2>7. \A c : Lists!Truth(c)' = Lists!Truth(c) /\ (Lists!Kept(c)' <=> Lists!Kept(c))
    BY <1>1, TruthStays
  <2>8. {Lists!Truth(c)' : c \in chosen \ read} = {Lists!Truth(c) : c \in chosen \ read}
    BY <2>7
  <2> QED BY <1>1, <1>7, <1>8, <2>2, <2>4, <2>5, <2>6, <2>7, <2>8 DEF ExportHolds
<1> QED BY <1>1, <1>8, <1>9, <1>10, <1>11, NoJobSays, JobKeeps

(***************************************************************************)
(* The calls of a job, and the fetches.                                    *)
(***************************************************************************)

LEMMA JobFields ==
  ASSUME ListsInv
  PROVE  /\ job \in Jobs /\ job.todo \in SUBSET Calls /\ job.call \in Calls
         /\ job.step \in {"next", "sent", "done", "error"} /\ job.chosen \in SUBSET Collections
         /\ job.rows \in SUBSET Items /\ job.old \in SUBSET Collections
BY DEF ListsInv, ListTypes, Jobs

LEMMA NextCallKeeps ==
  ASSUME ListsInv, NEW x \in job.todo, Lists!NextCall(x)
  PROVE  ListsInv'
<1> USE DEF ListsInv
<1>1. /\ job' = [job EXCEPT !.todo = job.todo \ {x}, !.call = x, !.step = "sent"]
      /\ job.step = "next"
      /\ UNCHANGED <<where, folders, row, data, stale, failed, missed, expanded, found>>
  BY DEF Lists!NextCall, Lists!server, Lists!cache, Lists!ui
<1>2. /\ job' \in Jobs /\ job'.kind = job.kind /\ job'.todo = job.todo \ {x} /\ job'.call = x
      /\ job'.step = "sent" /\ job'.chosen = job.chosen /\ job'.rows = job.rows
      /\ job'.old = job.old
  BY <1>1, JobFields DEF Jobs
<1>3. Valid(x) /\ x.do \notin {"none", "create", "import"} /\ job.call = Lists!NoJob.call
  BY <1>1 DEF CallsHold
<1>4. /\ fetch' = [k \in Lists!Lists |-> fetch'[k]]
      /\ \A k \in Lists!Lists : fetch'[k] = fetch[k] \/ fetch'[k] = Lists!Asked
  <2>1. \/ UNCHANGED fetch
        \/ fetch' = [fetch EXCEPT ![x.id] = IF @.step = "no" THEN Lists!Asked ELSE @]
    BY DEF Lists!NextCall, Lists!FetchRequests, Lists!cache
  <2> QED BY <2>1 DEF ListTypes
<1>5. \A k : Pending(k) => Pending(k)'
  BY <1>1 DEF Pending
<1>6. /\ \A k \in Lists!Lists : ListHolds(k)'
      /\ \A k \in Lists!Lists :
           /\ data'[k] \in Held(k) \cup {NotLoaded}
           /\ fetch'[k].step \in {"no", "asked", "read"}
           /\ fetch'[k].step = "read" => fetch'[k].value \in Held(k)
  <2>1. \A k \in Lists!Lists : Lists!Active(k)' => Lists!Active(k)
    BY <1>1 DEF Lists!Active, Lists!Listed, Lists!NoPlace
  <2> QED BY <1>1, <1>4, <1>5, <2>1, QuietKeeps
<1>7. ListTypes'
  BY <1>1, <1>2, <1>3, <1>4, <1>6 DEF ListTypes
<1>8. CallsHold'
  <2>1. x.do = "save" => row[x.id].at = Unmade
    BY DEF CallsHold
  <2>2. \A y \in job'.todo : y.do = "save" /\ x.do = "save" => y.id # x.id
    BY <1>2 DEF CallsHold
  <2> QED BY <1>1, <1>2, <1>3, <2>1, <2>2 DEF CallsHold
<1>9. ExportHolds'
  <2> SUFFICES ASSUME job.kind = "export" PROVE ExportHolds'
    BY <1>2 DEF ExportHolds
  <2>1. Reads' = Reads /\ job.todo \in SUBSET Reads
    BY <1>2 DEF Reads, ExportHolds
  <2>2. job.chosen \ Unread' = job.chosen \ Unread
    <3>1. Unread' = {y.id : y \in job.todo}
      BY <1>2 DEF Unread
    <3>2. Unread = {y.id : y \in job.todo} \cup {Root}
      BY <1>3, NoJobSays DEF Unread
    <3> QED BY <3>1, <3>2, Keys, JobFields
  <2>3. \A c : Lists!Truth(c)' = Lists!Truth(c) /\ (Lists!Kept(c)' <=> Lists!Kept(c))
    BY <1>1, TruthStays
  <2>4. {Lists!Truth(c)' : c \in job.chosen \ Unread} = {Lists!Truth(c) : c \in job.chosen \ Unread}
    BY <2>3
  <2> QED BY <1>1, <1>2, <2>1, <2>2, <2>3, <2>4 DEF ExportHolds
<1> QED BY <1>6, <1>7, <1>8, <1>9

\* The job is over, or goes on to the next call.
LEMMA EndKeeps ==
  ASSUME ListsInv, Lists!Failed \/ Lists!Finish
  PROVE  ListsInv'
<1> USE DEF ListsInv
<1>1. /\ UNCHANGED <<where, folders, row, data, stale, failed, fetch, missed, expanded, found>>
      /\ job.step \in {"next", "error"}
  BY DEF Lists!Failed, Lists!Finish, Lists!server, Lists!cache, Lists!ui
<1>2. \A k : Pending(k) => Pending(k)'
  BY <1>1 DEF Pending
<1>3. CASE job' = Lists!NoJob
  <2>1. CallsHold' /\ ExportHolds'
    BY <1>3, NoJobSays DEF CallsHold, ExportHolds
  <2> QED BY <1>1, <1>2, <1>3, <2>1, NoJobSays, JobKeeps
<1>4. CASE job' # Lists!NoJob
  <2>1. /\ job' = [job EXCEPT !.step = "next", !.call = Lists!NoJob.call, !.bad = job.bad + 1]
        /\ job.step = "error" /\ job.kind = "import"
    BY <1>4 DEF Lists!Failed, Lists!Finish
  <2>2. /\ job' \in Jobs /\ job'.todo = job.todo /\ job'.call = Lists!NoJob.call
        /\ job'.step = "next" /\ job'.kind = "import"
    <3>1. job.bad + 1 \in Nat /\ Lists!NoJob.call \in Calls
      BY JobFields, NoJobSays DEF Jobs, Valid
    <3> QED BY <2>1, <3>1, JobFields DEF Jobs
  <2>3. CallsHold' /\ ExportHolds'
    BY <1>1, <2>2, NoJobSays DEF CallsHold, ExportHolds
  <2> QED BY <1>1, <1>2, <2>2, <2>3, NoJobSays, JobKeeps
<1> QED BY <1>3, <1>4

LEMMA ReadsKeep ==
  ASSUME ListsInv, NEW k \in Lists!Lists, Lists!FetchReads(k)
  PROVE  ListsInv'
<1> USE DEF ListsInv
<1>1. /\ fetch' = [fetch EXCEPT ![k] = [step |-> "read", value |-> Lists!Truth(k)]]
      /\ UNCHANGED <<where, folders, row, data, stale, failed, missed, job, expanded, found>>
      /\ k \in Collections => Lists!Kept(k)
  BY DEF Lists!FetchReads, Lists!server, Lists!ui
<1>2. CallsHold' /\ ExportHolds' /\ (\A j : Pending(j) <=> Pending(j)')
  BY <1>1, SameJobKeeps DEF Pending
<1>3. fetch'[k] = [step |-> "read", value |-> Lists!Truth(k)] /\ \A j \in Lists!Lists \ {k} : fetch'[j] = fetch[j]
  BY <1>1 DEF ListTypes
<1>4. ListTypes'
  <2>1. Lists!Truth(k) \in Held(k)
    BY TruthIsHeld
  <2> QED BY <1>1, <1>3, <2>1 DEF ListTypes
<1>5. ASSUME NEW j \in Lists!Lists PROVE ListHolds(j)'
  <2>1. Lists!Active(j)' <=> Lists!Active(j)
    BY <1>1 DEF Lists!Active, Lists!Listed, Lists!NoPlace
  <2>2. \A v : UpToDate(j, v) <=> v = Lists!Truth(j)' \/ j \in stale' \cup missed' \/ Pending(j)'
    BY <1>1, <1>2, TruthStays DEF UpToDate
  <2>3. Existing(j)' <=> Existing(j)
    BY <1>1, TruthStays
  <2>4. CASE j # k
    BY <1>1, <1>3, <2>1, <2>2, <2>3, <2>4 DEF ListHolds, UpToDate
  <2>5. CASE j = k
    <3>1. fetch'[j].step = "read" /\ UpToDate(j, fetch'[j].value)
      BY <1>3, <2>5 DEF UpToDate
    <3>2. ~(j \in Collections /\ where'[j] = Unmade)
      BY <1>1, <2>5 DEF Lists!Kept, Lists!NoPlace
    <3> QED BY <1>1, <2>1, <2>2, <2>3, <3>1, <3>2 DEF ListHolds, UpToDate
  <2> QED BY <2>4, <2>5
<1> QED BY <1>2, <1>4, <1>5

LEMMA FailsKeep ==
  ASSUME ListsInv, NEW k \in Lists!Lists, Lists!FetchFails(k)
  PROVE  ListsInv'
<1> USE DEF ListsInv
<1>1. /\ fetch' = [fetch EXCEPT ![k] = Lists!NoFetch] /\ failed' = failed \cup {k}
      /\ job' = (IF job.call.do = "read" /\ job.call.id = k THEN Lists!NoJob ELSE job)
      /\ UNCHANGED <<where, folders, row, data, stale, missed, expanded, found>>
  BY DEF Lists!FetchFails, Lists!server, Lists!ui
<1>2. CallsHold' /\ ExportHolds' /\ (\A j : Pending(j) => Pending(j)') /\ job' \in Jobs
      /\ Valid(job'.call)
  <2>1. CASE job' = job
    BY <1>1, <2>1, SameJobKeeps
  <2>2. CASE job' # job
    <3>1. job' = Lists!NoJob /\ job.call.do = "read"
      BY <1>1, <2>2
    <3>2. job.step = "sent"
      BY <3>1 DEF CallsHold
    <3> QED BY <3>1, <3>2, NoJobSays DEF CallsHold, ExportHolds, Pending
  <2> QED BY <2>1, <2>2
<1>3. /\ fetch' = [j \in Lists!Lists |-> fetch'[j]]
      /\ \A j \in Lists!Lists : fetch'[j] = fetch[j] \/ (fetch'[j] = Lists!NoFetch /\ j \in failed')
  BY <1>1 DEF ListTypes
<1>4. \A j \in Lists!Lists : Lists!Active(j)' => Lists!Active(j)
  BY <1>1 DEF Lists!Active, Lists!Listed, Lists!NoPlace
<1>5. /\ \A j \in Lists!Lists : ListHolds(j)'
      /\ \A j \in Lists!Lists :
           /\ data'[j] \in Held(j) \cup {NotLoaded}
           /\ fetch'[j].step \in {"no", "asked", "read"}
           /\ fetch'[j].step = "read" => fetch'[j].value \in Held(j)
  BY <1>1, <1>2, <1>3, <1>4, QuietKeeps
<1>6. ListTypes'
  BY <1>1, <1>2, <1>3, <1>5 DEF ListTypes
<1> QED BY <1>2, <1>5, <1>6

\* What arrives is the server's, or the list goes on to be known as old.
LEMMA ArrivesKeeps ==
  ASSUME ListsInv, NEW k \in Lists!Lists, Lists!FetchArrives(k)
  PROVE  ListsInv'
<1> DEFINE v == fetch[k].value
           hit == job.call.do = "read" /\ job.call.id = k
           fresh == {c \in Collections : k = "collections" /\ v[c] \notin Lists!NoPlace}
           more1 == Lists!Opened(expanded \cap (fresh \ Lists!Listed))
<1> USE DEF ListsInv
<1>1. /\ fetch[k].step = "read" /\ data' = [data EXCEPT ![k] = v]
      /\ stale' = stale \ {k} /\ failed' = failed \ {k}
      /\ fetch' = [more1 EXCEPT ![k] = Lists!NoFetch]
      /\ missed' = (IF v = Lists!Truth(k) THEN missed \ {k}
                    ELSE IF k \in stale THEN missed \cup {k} ELSE missed)
      /\ UNCHANGED <<where, folders, row, expanded, found>>
  BY DEF Lists!FetchArrives, Lists!server, Lists!ui
<1>2. IF hit THEN job' = [job EXCEPT !.rows = job.rows \cup v, !.step = "next",
                                    !.call = Lists!NoJob.call]
             ELSE job' = job
  BY DEF Lists!FetchArrives
<1>3. v \in Held(k) /\ v # NotLoaded
  BY <1>1, NothingHeld DEF ListTypes
<1>4. /\ data'[k] = v /\ \A j \in Lists!Lists \ {k} : data'[j] = data[j]
      /\ data' = [j \in Lists!Lists |-> data'[j]]
  BY <1>1 DEF ListTypes
<1>5. /\ fetch' = [j \in Lists!Lists |-> fetch'[j]] /\ fetch'[k] = Lists!NoFetch
      /\ \A j \in Lists!Lists \ {k} : fetch'[j] = more1[j]
      /\ \A j \in Lists!Lists \ {k} : fetch'[j] = fetch[j] \/ fetch'[j] = Lists!Asked
      /\ \A j \in Lists!Lists \ {k} : fetch[j].step # "no" => fetch'[j] = fetch[j]
      /\ \A j \in Lists!Lists \ {k} :
           j \in expanded \cap (fresh \ Lists!Listed) /\ (j \in stale \/ data[j] = NotLoaded) =>
             fetch'[j].step # "no"
  <2> DEFINE C == expanded \cap (fresh \ Lists!Listed)
  <2>1. /\ more1 = [j \in Lists!Lists |-> more1[j]]
        /\ \A j \in Lists!Lists :
             /\ more1[j] = fetch[j] \/ more1[j] = Lists!Asked
             /\ fetch[j].step # "no" => more1[j] = fetch[j]
             /\ j \in C /\ (j \in stale \/ data[j] = NotLoaded) => more1[j].step # "no"
    <3> HIDE DEF C
    <3> QED BY OpenedSays DEF C
  <2> HIDE DEF more1
  <2>2. /\ fetch' = [j \in Lists!Lists |-> fetch'[j]] /\ fetch'[k] = Lists!NoFetch
        /\ \A j \in Lists!Lists \ {k} : fetch'[j] = more1[j]
    BY <1>1, <2>1
  <2> QED BY <2>1, <2>2 DEF more1
<1>6. hit => k \in Collections /\ job.step = "sent" /\ v \in SUBSET Items
  <2>1. hit => k \in Collections
    BY DEF ListTypes, Valid
  <2> QED BY <1>3, <2>1, Keys DEF CallsHold, Held
<1> HIDE DEF hit, more1
<1>7. /\ job' \in Jobs /\ Valid(job'.call) /\ job'.todo = job.todo
      /\ job'.kind = job.kind /\ job'.chosen = job.chosen /\ job'.old = job.old
      /\ hit => job'.rows = job.rows \cup v /\ job'.step = "next" /\ job'.call = Lists!NoJob.call
  <2>1. CASE hit
    <3> DEFINE both == job.rows \cup v
    <3>1. /\ Lists!NoJob.call \in Calls /\ Valid(Lists!NoJob.call)
          /\ both \in SUBSET Items
      BY <1>6, <2>1, JobFields, NoJobSays DEF Valid
    <3>2. job' = [job EXCEPT !.rows = both, !.step = "next", !.call = Lists!NoJob.call]
      BY <1>2, <2>1
    <3> HIDE DEF both
    <3>3. /\ job' \in Jobs /\ job'.todo = job.todo /\ job'.kind = job.kind
          /\ job'.chosen = job.chosen /\ job'.old = job.old
          /\ job'.rows = both /\ job'.step = "next" /\ job'.call = Lists!NoJob.call
      BY <3>1, <3>2, JobFields DEF Jobs
    <3> QED BY <3>1, <3>3 DEF both
  <2>2. CASE ~hit
    BY <1>2, <2>2 DEF ListTypes
  <2> QED BY <2>1, <2>2
<1>8. \A j : (Pending(j) <=> Pending(j)') /\ (hit => ~Pending(j))
  <2>1. CASE hit
    BY <1>6, <1>7, <2>1 DEF Pending
  <2>2. CASE ~hit
    BY <1>2, <2>2 DEF Pending
  <2> QED BY <2>1, <2>2
<1>9. data'["folders"] # NotLoaded
  BY <1>3, <1>4, Keys DEF ListTypes
<1>10. ListTypes'
  <2>1. ASSUME NEW j \in Lists!Lists
        PROVE  /\ data'[j] \in Held(j) \cup {NotLoaded}
               /\ fetch'[j].step \in {"no", "asked", "read"}
               /\ fetch'[j].step = "read" => fetch'[j].value \in Held(j)
    <3>1. CASE j = k
      BY <1>3, <1>4, <1>5, <3>1 DEF Lists!NoFetch
    <3>2. CASE j # k
      BY <1>4, <1>5, <3>2 DEF ListTypes, Lists!Asked
    <3> QED BY <3>1, <3>2
  <2> QED BY <1>1, <1>4, <1>5, <1>7, <1>9, <2>1 DEF ListTypes
<1>11. CallsHold'
  <2>1. CASE hit
    BY <1>1, <1>7, <2>1, NoJobSays DEF CallsHold
  <2>2. CASE ~hit
    BY <1>1, <1>2, <2>2 DEF CallsHold
  <2> QED BY <2>1, <2>2
<1>12. \A j \in Lists!Lists :
         Lists!Active(j)' => Lists!Active(j) \/ j \in expanded \cap (fresh \ Lists!Listed)
  <2>1. CASE k = "collections"
    <3>1. Lists!Listed' \in SUBSET fresh
      BY <1>4, <2>1 DEF Lists!Listed, Lists!NoPlace
    <3> QED BY <1>1, <3>1 DEF Lists!Active
  <2>2. CASE k # "collections"
    <3>1. Lists!Listed' = Lists!Listed
      BY <1>4, <2>2, Keys DEF Lists!Listed, Lists!NoPlace
    <3> QED BY <1>1, <3>1 DEF Lists!Active
  <2> QED BY <2>1, <2>2
<1>13. ASSUME NEW j \in Lists!Lists PROVE ListHolds(j)'
  <2>1. Lists!Truth(j)' = Lists!Truth(j) /\ (Existing(j)' <=> Existing(j))
    BY <1>1, TruthStays
  <2>2. CASE j # k
    <3>1. (j \in stale' <=> j \in stale) /\ (j \in missed' <=> j \in missed)
          /\ (j \in failed' <=> j \in failed)
      BY <1>1, <2>2
    <3>2. fetch'[j].step = "read" => fetch'[j] = fetch[j]
      BY <1>5, <2>2 DEF Lists!Asked
    <3>3. \A w : UpToDate(j, w) <=>
            w = Lists!Truth(j)' \/ j \in stale' \cup missed' \/ Pending(j)'
      BY <1>8, <2>1, <3>1 DEF UpToDate
    <3>4. Lists!Active(j)' /\ (j \in stale' \/ data'[j] = NotLoaded) =>
            fetch'[j].step # "no" \/ j \in failed'
      BY <1>4, <1>5, <1>12, <2>2, <3>1 DEF ListHolds
    <3> QED BY <1>1, <1>4, <2>1, <2>2, <3>2, <3>3, <3>4 DEF ListHolds, UpToDate
  <2>3. CASE j = k
    <3>1. Existing(j) => UpToDate(j, v)
      BY <1>1, <2>3 DEF ListHolds
    <3>2. Existing(j) => v = Lists!Truth(j)' \/ j \in stale' \cup missed' \/ Pending(j)'
      BY <1>1, <1>8, <2>1, <2>3, <3>1 DEF UpToDate
    <3>3. j \notin stale' /\ data'[j] = v /\ fetch'[j].step = "no" /\ v # NotLoaded
      BY <1>1, <1>3, <1>4, <1>5, <2>3 DEF Lists!NoFetch
    <3>4. ~(j \in Collections /\ where'[j] = Unmade)
      BY <1>1, <2>3 DEF ListHolds
    <3> QED BY <2>1, <3>2, <3>3, <3>4 DEF ListHolds, UpToDate
  <2> QED BY <2>2, <2>3
<1>14. ExportHolds'
  <2> SUFFICES ASSUME job.kind = "export" PROVE ExportHolds'
    BY <1>7 DEF ExportHolds
  <2>1. /\ job.todo \in SUBSET Reads /\ job.call \notin job.todo
        /\ job.step = "next" \/ (job.step = "sent" /\ job.call \in Reads)
        /\ Reads' = Reads
    BY <1>7 DEF ExportHolds, Reads
  <2>2. job.old = {} => job.chosen \cap (stale' \cup missed') = {}
    BY <1>1 DEF ExportHolds
  <2>3. \A c : Lists!Truth(c)' = Lists!Truth(c) /\ (Lists!Kept(c)' <=> Lists!Kept(c))
    BY <1>1, TruthStays
  <2>4. CASE ~hit
    <3>1. Unread' = Unread /\ job' = job
      BY <1>2, <2>4 DEF Unread
    <3>2. {Lists!Truth(c)' : c \in job.chosen \ Unread} = {Lists!Truth(c) : c \in job.chosen \ Unread}
      BY <2>3
    <3> QED BY <2>1, <2>2, <2>3, <3>1, <3>2 DEF ExportHolds
  <2>5. CASE hit
    <3>1. /\ job.call \in Reads /\ k \in job.chosen
          /\ \A x \in job.todo : x.id # k
      <4>1. job.call \in Reads
        BY <1>6, <2>1, <2>5
      <4>2. \A x \in Reads : x = Lists!Call("read", x.id, Root) /\ x.id \in job.chosen
        <5> SUFFICES ASSUME NEW x \in Reads
                     PROVE  x = Lists!Call("read", x.id, Root) /\ x.id \in job.chosen
          OBVIOUS
        <5>1. PICK c \in job.chosen : x = Lists!Call("read", c, Root)
          BY DEF Reads
        <5>2. Lists!Call("read", c, Root).id = c
          BY CallSays
        <5> QED BY <5>1, <5>2
      <4>3. job.call.id = k
        BY <2>5 DEF hit
      <4> QED BY <2>1, <4>1, <4>2, <4>3
    <3>2. job.chosen \ Unread' = (job.chosen \ Unread) \cup {k}
      <4>1. Unread' = {x.id : x \in job.todo} \cup {Root}
        BY <1>7, <2>5, NoJobSays DEF Unread
      <4>2. Unread = {x.id : x \in job.todo} \cup {k}
        BY <2>5 DEF Unread, hit
      <4>3. Root \notin job.chosen
        BY JobFields, Keys
      <4> QED BY <3>1, <4>1, <4>2, <4>3
    <3>3. ASSUME job.old = {}, \A c \in job.chosen : Lists!Kept(c)
          PROVE  job'.rows = UNION {Lists!Truth(c) : c \in job.chosen \ Unread'}
      <4>1. job.rows = UNION {Lists!Truth(c) : c \in job.chosen \ Unread}
        BY <3>3 DEF ExportHolds
      <4>2. v = Lists!Truth(k)
        <5>1. UpToDate(k, v)
          BY <1>1, <3>1, <3>3 DEF ListHolds, Existing
        <5>2. k \notin stale \cup missed
          BY <3>1, <3>3 DEF ExportHolds
        <5> QED BY <1>8, <2>5, <5>1, <5>2 DEF UpToDate
      <4>3. job'.rows = job.rows \cup v
        BY <1>7, <2>5
      <4> HIDE DEF v
      <4>4. {Lists!Truth(c) : c \in job.chosen \ Unread'} =
              {Lists!Truth(c) : c \in job.chosen \ Unread} \cup {Lists!Truth(k)}
        BY <3>2
      <4> QED BY <4>1, <4>2, <4>3, <4>4
    <3>4. {Lists!Truth(c)' : c \in job.chosen \ Unread'} = {Lists!Truth(c) : c \in job.chosen \ Unread'}
      BY <2>3
    <3>5. job'.call \notin job'.todo
      <4>1. job'.call.do = "none" /\ \A x \in job.todo : x.do # "none"
        BY <1>7, <2>5, NoJobSays DEF CallsHold
      <4> QED BY <1>7, <4>1
    <3> QED BY <1>7, <2>1, <2>2, <2>3, <2>5, <3>3, <3>4, <3>5 DEF ExportHolds
  <2> QED BY <2>4, <2>5
<1> QED BY <1>10, <1>11, <1>13, <1>14

LEMMA SucceededKeeps == ASSUME ListsInv, Lists!Succeeded PROVE ListsInv'
<1> DEFINE new == IF job.call.do = "create" THEN {job.call.id} ELSE {}
           K == Lists!Invalidated(job.call)
           C == new \cap Lists!Listed
           opened1 == Lists!Opened(C)
<1> USE DEF ListsInv
<1>1. /\ job.step = "done" /\ expanded' = expanded \cup new
      /\ job' = [job EXCEPT !.step = "next", !.call = Lists!NoJob.call]
      /\ UNCHANGED <<where, folders, row, data, failed, missed, found>>
      /\ stale' = stale \cup {k \in K : data[k] # NotLoaded \/ fetch[k].step # "no"}
      /\ fetch' = Lists!Refetched({k \in K : Lists!Active(k)}, opened1)
  BY DEF Lists!Succeeded, Lists!Invalidate, Lists!server
<1>2. /\ job' \in Jobs /\ job'.todo = job.todo /\ job'.kind = job.kind /\ job'.step = "next"
      /\ job'.call = Lists!NoJob.call
  <2>1. Lists!NoJob.call \in Calls
    BY NoJobSays DEF Valid
  <2> QED BY <1>1, <2>1, JobFields DEF Jobs
<1>3. new \in SUBSET Collections /\ (new # {} => K = {"collections"})
  BY DEF ListTypes, Valid, Lists!Invalidated
<1>4. \A k : (Pending(k) <=> k \in K) /\ ~Pending(k)'
  BY <1>1, <1>2 DEF Pending
<1>5. /\ opened1 = [k \in Lists!Lists |-> opened1[k]]
      /\ \A k \in Lists!Lists :
           /\ opened1[k] = fetch[k] \/ opened1[k] = Lists!Asked
           /\ fetch[k].step # "no" => opened1[k] = fetch[k]
           /\ k \in C /\ (k \in stale \/ data[k] = NotLoaded) => opened1[k].step # "no"
  <2> HIDE DEF C
  <2> QED BY OpenedSays
<1> HIDE DEF opened1, K
<1>6. /\ fetch' = [k \in Lists!Lists |-> fetch'[k]]
      /\ \A k \in Lists!Lists :
           fetch'[k] = IF k \in K /\ Lists!Active(k) /\ ~(opened1[k].step # "no" /\ data[k] = NotLoaded)
                       THEN Lists!Asked ELSE opened1[k]
  BY <1>1 DEF Lists!Refetched
<1>7. \A k \in Lists!Lists : fetch'[k] = fetch[k] \/ fetch'[k] = Lists!Asked
  BY <1>5, <1>6
<1>8. ListTypes'
  <2>1. ASSUME NEW k \in Lists!Lists
        PROVE  /\ data'[k] \in Held(k) \cup {NotLoaded}
               /\ fetch'[k].step \in {"no", "asked", "read"}
               /\ fetch'[k].step = "read" => fetch'[k].value \in Held(k)
    BY <1>1, <1>7 DEF ListTypes, Lists!Asked
  <2> QED BY <1>1, <1>2, <1>3, <1>6, <2>1, NoJobSays DEF ListTypes
<1>9. CallsHold' /\ ExportHolds'
  <2>1. job.kind # "export"
    BY <1>1 DEF ExportHolds
  <2> QED BY <1>1, <1>2, <2>1, NoJobSays DEF CallsHold, ExportHolds
<1>10. ASSUME NEW k \in Lists!Lists PROVE ListHolds(k)'
  <2>1. Lists!Truth(k)' = Lists!Truth(k) /\ (Existing(k)' <=> Existing(k))
    BY <1>1, TruthStays
  <2>2. fetch'[k].step = "read" => fetch'[k] = fetch[k]
    BY <1>7 DEF Lists!Asked
  <2>3. ASSUME NEW v, UpToDate(k, v), data[k] # NotLoaded \/ fetch[k].step # "no"
        PROVE  v = Lists!Truth(k)' \/ k \in stale' \cup missed' \/ Pending(k)'
    BY <1>1, <1>4, <2>1, <2>3 DEF UpToDate
  <2>4. Existing(k)' =>
          /\ data'[k] # NotLoaded =>
               data'[k] = Lists!Truth(k)' \/ k \in stale' \cup missed' \/ Pending(k)'
          /\ fetch'[k].step = "read" =>
               fetch'[k].value = Lists!Truth(k)' \/ k \in stale' \cup missed' \/ Pending(k)'
    BY <1>1, <2>1, <2>2, <2>3 DEF ListHolds
  <2>5. Lists!Active(k)' => Lists!Active(k) \/ k \in C
    BY <1>1 DEF Lists!Active, Lists!Listed, Lists!NoPlace
  <2>6. Lists!Active(k)' /\ (k \in stale' \/ data'[k] = NotLoaded) =>
          fetch'[k].step # "no" \/ k \in failed'
    <3>1. CASE k \in K /\ Lists!Active(k)
      BY <1>6, <3>1 DEF Lists!Asked
    <3>2. CASE k \notin K
      <4>1. fetch'[k] = opened1[k] /\ (k \in stale' <=> k \in stale)
        BY <1>1, <1>6, <3>2
      <4> QED BY <1>1, <1>5, <2>5, <4>1 DEF ListHolds
    <3>3. CASE k \in K /\ ~Lists!Active(k)
      <4>1. k \notin C
        BY <1>3, <3>3, Keys
      <4> QED BY <2>5, <3>3, <4>1
    <3> QED BY <3>1, <3>2, <3>3
  <2>7. k \in Collections /\ where'[k] = Unmade => data'[k] = NotLoaded /\ fetch'[k].step # "read"
    BY <1>1, <2>2 DEF ListHolds
  <2> QED BY <2>4, <2>6, <2>7 DEF ListHolds, UpToDate
<1> QED BY <1>8, <1>9, <1>10

(***************************************************************************)
(* A call is carried out.                                                  *)
(***************************************************************************)

LEMMA ApplyTypes ==
  ASSUME ListTypes, NEW x, Valid(x), Lists!Apply(x)
  PROVE  /\ where' \in [Collections -> Places] /\ folders' \in SUBSET Folders
         /\ row' \in [Requests -> [at : Collections \cup {Gone, Unmade}, edited : BOOLEAN]]
<1>1. where' \in [Collections -> Places]
  BY SMTT(30) DEF ListTypes, Valid, Lists!Apply, Places
<1>2. folders' \in SUBSET Folders
  BY DEF ListTypes, Valid, Lists!Apply
<1>3. row' \in [Requests -> [at : Collections \cup {Gone, Unmade}, edited : BOOLEAN]]
  <2> USE DEF ListTypes, Valid, Lists!Apply
  <2>1. CASE x.do = "clear"
    BY <2>1
  <2>2. CASE x.do = "deleteRequest"
    BY <2>2
  <2>3. CASE x.do = "deleteCollection"
    BY <2>3
  <2>4. CASE x.do = "import"
    BY <2>4
  <2>5. CASE x.do = "tag"
    BY <2>5
  <2>6. CASE x.do = "rename"
    BY <2>6
  <2>7. CASE x.do = "moveRequest"
    BY <2>7
  <2>8. CASE x.do = "save"
    BY <2>8
  <2>9. CASE x.do \notin {"clear", "deleteRequest", "deleteCollection", "import", "tag", "rename",
                          "moveRequest", "save"}
    BY <2>9
  <2> QED BY <2>1, <2>2, <2>3, <2>4, <2>5, <2>6, <2>7, <2>8, <2>9
<1> QED BY <1>1, <1>2, <1>3

\* The rows of a collection are what they were.
LEMMA RowsSay ==
  ASSUME NEW k \in Collections,
         \A q \in Requests : /\ row'[q].at = k <=> row[q].at = k
                             /\ row[q].at = k => row'[q].edited = row[q].edited
  PROVE  Lists!Truth(k)' = Lists!Truth(k)
<1>1. Lists!Inside(k)' = Lists!Inside(k)
  BY DEF Lists!Inside
<1>2. Lists!Page(Lists!Inside(k))' = Lists!Page(Lists!Inside(k))
  BY <1>1 DEF Lists!Page
<1>3. \A q \in Lists!Page(Lists!Inside(k)) : Lists!Entry(q)' = Lists!Entry(q)
  BY DEF Lists!Page, Lists!Inside, Lists!Entry
<1>4. {Lists!Entry(q)' : q \in Lists!Page(Lists!Inside(k))} =
        {Lists!Entry(q) : q \in Lists!Page(Lists!Inside(k))}
  BY <1>3
<1> QED BY <1>2, <1>4, Keys DEF Lists!Truth

\* What a call changes, its mutation is to invalidate.
LEMMA ChangesSay ==
  ASSUME ListTypes, NEW x, Valid(x), Lists!Applies(x), Lists!Apply(x),
         x.do = "save" => row[x.id].at = Unmade, NEW k \in Lists!Lists, Existing(k)'
  PROVE  Lists!Truth(k)' = Lists!Truth(k) \/ k \in Lists!Invalidated(x)
<1>1. CASE k = "collections"
  <2>1. where' = where \/ x.do \in {"clear", "create", "import", "moveCollection",
                                    "deleteCollection", "deleteFolder"}
    BY DEF Lists!Apply
  <2> QED BY <1>1, <2>1, Keys DEF Lists!Truth, Lists!Invalidated
<1>2. CASE k = "folders"
  <2>1. folders' = folders \/ x.do \in {"clear", "createFolder", "deleteFolder"}
    BY DEF Lists!Apply
  <2> QED BY <1>2, <2>1, Keys DEF Lists!Truth, Lists!Invalidated
<1>3. CASE k \in Collections
  <2>1. CASE x.do \in {"clear", "import", "tag", "deleteRequest", "rename", "moveRequest"}
    BY <1>3, <2>1 DEF Lists!Invalidated
  <2>2. CASE x.do = "save"
    <3>1. row' = [row EXCEPT ![x.id] = [at |-> x.to, edited |-> FALSE]]
      BY <2>2 DEF Lists!Apply
    <3>2. CASE k = x.to
      BY <2>2, <3>2 DEF Lists!Invalidated
    <3>3. CASE k # x.to
      <4>1. ASSUME NEW q \in Requests
            PROVE  /\ row'[q].at = k <=> row[q].at = k
                   /\ row[q].at = k => row'[q].edited = row[q].edited
        BY <1>3, <2>2, <3>1, <3>3, Keys DEF ListTypes, Valid
      <4> QED BY <1>3, <4>1, RowsSay
    <3> QED BY <3>2, <3>3
  <2>3. CASE x.do = "deleteCollection"
    <3>1. /\ where' = [where EXCEPT ![x.id] = Gone]
          /\ row' = [q \in Requests |-> IF row[q].at = x.id THEN [row[q] EXCEPT !.at = Gone]
                                        ELSE row[q]]
      BY <2>3 DEF Lists!Apply
    <3>2. k # x.id
      BY <1>3, <2>3, <3>1 DEF ListTypes, Valid, Existing, Lists!Kept, Lists!NoPlace
    <3>3. ASSUME NEW q \in Requests
          PROVE  /\ row'[q].at = k <=> row[q].at = k
                 /\ row[q].at = k => row'[q].edited = row[q].edited
      BY <1>3, <3>1, <3>2, Keys DEF ListTypes
    <3> QED BY <1>3, <3>3, RowsSay
  <2>4. CASE x.do \notin {"clear", "import", "tag", "deleteRequest", "rename", "moveRequest",
                          "save", "deleteCollection"}
    <3>1. row' = row
      BY <2>4 DEF Lists!Apply
    <3> QED BY <1>3, <3>1, RowsSay
  <2> QED BY <2>1, <2>2, <2>3, <2>4
<1> QED BY <1>1, <1>2, <1>3 DEF Lists!Lists

\* A collection comes to exist by being made, and no place becomes that of what was
\* not created.
LEMMA PlacesSay ==
  ASSUME ListTypes, NEW x, Valid(x), Lists!Applies(x), Lists!Apply(x),
         x.do \in {"create", "import"} => where[x.id] = Unmade, NEW c \in Collections
  PROVE  /\ Lists!Kept(c)' => Lists!Kept(c) \/ where[c] = Unmade
         /\ where'[c] = Unmade => where[c] = Unmade
<1> USE DEF ListTypes, Valid, Lists!Kept, Lists!NoPlace
<1>1. CASE x.do = "clear"
  BY <1>1, Keys DEF Lists!Apply
<1>2. CASE x.do \in {"create", "import"}
  BY <1>2, Keys DEF Lists!Apply
<1>3. CASE x.do = "moveCollection"
  <2>1. where' = [where EXCEPT ![x.id] = x.to] /\ Lists!Kept(x.id)
    BY <1>3 DEF Lists!Apply, Lists!Applies
  <2> QED BY <1>3, <2>1, Keys
<1>4. CASE x.do = "deleteCollection"
  BY <1>4, Keys DEF Lists!Apply
<1>5. CASE x.do = "deleteFolder"
  <2>1. where' = [d \in Collections |-> IF where[d] = x.id THEN Root ELSE where[d]]
    BY <1>5 DEF Lists!Apply
  <2> QED BY <1>5, <2>1, Keys
<1>6. CASE x.do \notin {"clear", "create", "import", "moveCollection", "deleteCollection",
                        "deleteFolder"}
  BY <1>6 DEF Lists!Apply
<1> QED BY <1>1, <1>2, <1>3, <1>4, <1>5, <1>6

\* A request that was not made is made by the call that saves it.
LEMMA UnmadeSays ==
  ASSUME ListTypes, NEW x, Valid(x), Lists!Applies(x), Lists!Apply(x), x.do # "import",
         NEW q \in Requests, row[q].at = Unmade, x.do = "save" => q # x.id
  PROVE  row'[q].at = Unmade
<1> USE DEF ListTypes, Valid
<1>1. CASE x.do = "clear"
  BY <1>1 DEF Lists!Apply
<1>2. CASE x.do = "deleteRequest"
  BY <1>2 DEF Lists!Apply, Lists!Applies, Lists!NoPlace
<1>3. CASE x.do = "deleteCollection"
  BY <1>3, Keys DEF Lists!Apply
<1>4. CASE x.do = "tag"
  BY <1>4 DEF Lists!Apply, Lists!Applies, Lists!NoPlace
<1>5. CASE x.do \in {"rename", "moveRequest"}
  BY <1>5 DEF Lists!Apply, Lists!Applies, Lists!NoPlace
<1>6. CASE x.do = "save"
  BY <1>6 DEF Lists!Apply
<1>7. CASE x.do \notin {"clear", "deleteRequest", "deleteCollection", "tag", "rename",
                        "moveRequest", "save"}
  BY <1>7 DEF Lists!Apply
<1> QED BY <1>1, <1>2, <1>3, <1>4, <1>5, <1>6, <1>7

LEMMA ServedKeeps == ASSUME ListsInv, Lists!Served PROVE ListsInv'
<1> USE DEF ListsInv
<1>1. /\ job.step = "sent" /\ job.call.do # "read"
      /\ UNCHANGED <<data, stale, fetch, failed, expanded, found>>
  BY DEF Lists!Served, Lists!cache, Lists!ui
<1>2. PICK s \in {"done", "error"} : job' = [job EXCEPT !.step = s]
  BY DEF Lists!Served
<1>3. /\ job' \in Jobs /\ job'.kind = job.kind /\ job'.todo = job.todo /\ job'.call = job.call
      /\ job'.step = s
  BY <1>2, JobFields DEF Jobs
<1>4. job.kind # "export"
  <2>1. \A x \in Reads : x.do = "read"
    BY CallSays DEF Reads
  <2> QED BY <1>1, <2>1 DEF ExportHolds
<1>5. ExportHolds' /\ Valid(job'.call) /\ \A k : ~Pending(k)
  BY <1>1, <1>3, <1>4 DEF ExportHolds, ListTypes, Pending
<1>6. CASE UNCHANGED <<where, folders, row, missed>>
  <2>1. CallsHold'
    BY <1>1, <1>3, <1>6 DEF CallsHold
  <2> QED BY <1>1, <1>3, <1>5, <1>6, <2>1, JobKeeps
<1>7. CASE ~UNCHANGED <<where, folders, row, missed>>
  <2>1. /\ Lists!Applies(job.call) /\ Lists!Apply(job.call)
        /\ missed' = (IF s = "done" THEN missed ELSE missed \cup Lists!Changed)
    <3>1. \/ /\ Lists!Applies(job.call) /\ Lists!Apply(job.call)
             /\ job' = [job EXCEPT !.step = "done"] /\ missed' = missed
          \/ /\ Lists!Applies(job.call) /\ Lists!Apply(job.call)
             /\ job' = [job EXCEPT !.step = "error"] /\ missed' = missed \cup Lists!Changed
      BY <1>7 DEF Lists!Served, Lists!server
    <3>2. [job EXCEPT !.step = "done"].step = "done" /\ [job EXCEPT !.step = "error"].step = "error"
      BY JobFields DEF Jobs
    <3> QED BY <1>3, <3>1, <3>2
  <2>2. Valid(job.call)
    BY DEF ListTypes
  <2>3. /\ where' \in [Collections -> Places] /\ folders' \in SUBSET Folders
        /\ row' \in [Requests -> [at : Collections \cup {Gone, Unmade}, edited : BOOLEAN]]
    BY <2>1, <2>2, ApplyTypes
  <2>4. ListTypes'
    BY <1>1, <1>3, <1>5, <2>3 DEF ListTypes
  <2>5. CallsHold'
    <3>1. ASSUME NEW x \in job.todo, x.do = "save" PROVE row'[x.id].at = Unmade
      <4>1. /\ x.id \in Requests /\ row[x.id].at = Unmade /\ job.call.do # "import"
            /\ job.call.do = "save" => x.id # job.call.id
        BY <3>1 DEF CallsHold, Valid
      <4> QED BY <2>1, <2>2, <4>1, UnmadeSays
    <3> QED BY <1>1, <1>3, <3>1 DEF CallsHold
  <2>6. ASSUME NEW k \in Lists!Lists PROVE ListHolds(k)'
    <3>1. Existing(k)' => Lists!Truth(k)' = Lists!Truth(k) \/ k \in Lists!Invalidated(job.call)
      BY <1>1, <2>1, <2>2, ChangesSay DEF CallsHold
    <3>2. Existing(k)' => Existing(k) \/ (k \in Collections /\ where[k] = Unmade)
      BY <1>1, <2>1, <2>2, PlacesSay DEF CallsHold, Existing
    <3>3. k \in Collections /\ where'[k] = Unmade => where[k] = Unmade
      BY <1>1, <2>1, <2>2, PlacesSay DEF CallsHold
    <3>4. ASSUME NEW v, UpToDate(k, v), Existing(k)'
          PROVE  v = Lists!Truth(k)' \/ k \in stale' \cup missed' \/ Pending(k)'
      <4>1. k \in stale \cup missed => k \in stale' \cup missed'
        BY <1>1, <2>1
      <4>2. CASE Lists!Truth(k)' = Lists!Truth(k)
        BY <1>5, <3>4, <4>1, <4>2 DEF UpToDate
      <4>3. CASE Lists!Truth(k)' # Lists!Truth(k)
        <5>1. CASE s = "done"
          BY <1>3, <3>1, <3>4, <4>3, <5>1 DEF Pending
        <5>2. CASE s = "error"
          BY <2>1, <4>3, <5>2 DEF Lists!Changed
        <5> QED BY <5>1, <5>2
      <4> QED BY <4>2, <4>3
    <3>5. Existing(k)' =>
            /\ data'[k] # NotLoaded =>
                 data'[k] = Lists!Truth(k)' \/ k \in stale' \cup missed' \/ Pending(k)'
            /\ fetch'[k].step = "read" =>
                 fetch'[k].value = Lists!Truth(k)' \/ k \in stale' \cup missed' \/ Pending(k)'
      BY <1>1, <3>2, <3>4 DEF ListHolds
    <3>6. Lists!Active(k)' <=> Lists!Active(k)
      BY <1>1 DEF Lists!Active, Lists!Listed, Lists!NoPlace
    <3> QED BY <1>1, <3>3, <3>5, <3>6 DEF ListHolds, UpToDate
  <2> QED BY <1>5, <2>4, <2>5, <2>6
<1> QED BY <1>6, <1>7

(***************************************************************************)
(* What every behaviour keeps.                                             *)
(***************************************************************************)

LEMMA ListsStart == ASSUME Lists!Init PROVE ListsInv
<1>1. /\ folders = Folders /\ stale = {} /\ failed = {} /\ missed = {}
      /\ expanded = {} /\ found = {} /\ job = Lists!NoJob
      /\ fetch = [k \in Lists!Lists |-> Lists!NoFetch]
  BY DEF Lists!Init
<1>2. where \in [Collections -> {Root, Unmade}]
  BY DEF Lists!Init
<1>3. row \in [Requests -> [at : Collections \cup {Gone, Unmade}, edited : BOOLEAN]]
  BY DEF Lists!Init
<1>4. /\ data = [k \in Lists!Lists |-> data[k]]
      /\ \A k \in Lists!Lists : data[k] = IF k \in Collections THEN NotLoaded ELSE Lists!Truth(k)
  <2>1. data = [k \in Lists!Lists |-> IF k \in Collections THEN NotLoaded
                                      ELSE IF k = "folders" THEN folders ELSE where]
    BY DEF Lists!Init
  <2> QED BY <2>1, Keys DEF Lists!Truth
<1>5. ASSUME NEW k \in Lists!Lists
      PROVE  data[k] \in Held(k) \cup {NotLoaded} /\ fetch[k].step = "no"
             /\ (k \notin Collections => data[k] \in Held(k))
  <2>1. k \notin Collections => Lists!Truth(k) \in Held(k)
    BY <1>1, <1>2, Keys DEF Lists!Truth, Held, Places
  <2> QED BY <1>1, <1>4, <2>1 DEF Lists!NoFetch
<1>6. ListTypes
  <2>1. data["folders"] # NotLoaded
    BY <1>5, Keys, NothingHeld
  <2> QED BY <1>1, <1>2, <1>3, <1>4, <1>5, <2>1, NoJobSays DEF ListTypes, Places
<1>7. CallsHold /\ ExportHolds
  BY <1>1, NoJobSays DEF CallsHold, ExportHolds
<1>8. ASSUME NEW k \in Lists!Lists PROVE ListHolds(k)
  <2>1. k \notin Collections => data[k] = Lists!Truth(k) /\ data[k] # NotLoaded
    BY <1>4, <1>5, NothingHeld
  <2>2. Lists!Active(k) => k \notin Collections
    BY <1>1, Keys DEF Lists!Active
  <2> QED BY <1>1, <1>4, <1>5, <2>1, <2>2 DEF ListHolds, UpToDate
<1> QED BY <1>6, <1>7, <1>8 DEF ListsInv

LEMMA ListsKeep == ASSUME ListsInv, [Lists!Next]_(Lists!vars) PROVE ListsInv'
<1>1. CASE Lists!UserStep
  BY <1>1, UserKeeps, OperateKeeps, BulkStarts, ImportStarts, ExportStarts DEF Lists!UserStep
<1>2. CASE \E k \in Lists!Lists : Lists!FetchReads(k) \/ Lists!FetchArrives(k) \/ Lists!FetchFails(k)
  BY <1>2, ReadsKeep, ArrivesKeeps, FailsKeep
<1>3. CASE \E x \in job.todo : Lists!NextCall(x)
  BY <1>3, NextCallKeeps
<1>4. CASE Lists!Served
  BY <1>4, ServedKeeps
<1>5. CASE Lists!Succeeded
  BY <1>5, SucceededKeeps
<1>6. CASE Lists!Failed \/ Lists!Finish
  BY <1>6, EndKeeps
<1>7. CASE UNCHANGED Lists!vars
  <2>1. UNCHANGED <<where, folders, row, data, stale, failed, fetch, missed, expanded, found, job>>
    BY <1>7 DEF Lists!vars, Lists!server, Lists!cache, Lists!ui
  <2>2. CallsHold' /\ ExportHolds' /\ (\A k : Pending(k) => Pending(k)') /\ job' \in Jobs
        /\ Valid(job'.call)
    BY <2>1, SameJobKeeps
  <2> QED BY <2>1, <2>2, JobKeeps
<1> QED BY <1>1, <1>2, <1>3, <1>4, <1>5, <1>6, <1>7 DEF Lists!Next

LEMMA ListsStay == [ViewsNext]_allVars => [Lists!Next]_(Lists!vars)
BY DEF ViewsNext, allVars, ListsStep, WideStep, DeepStep, PlayStep, HistoryStep, JsonStep,
       SentStep, ScriptStep, listVars, Lists!vars, Lists!server, Lists!cache, Lists!ui

LEMMA ListsRest == ListsInv => ListsCatchUp
<1> SUFFICES ASSUME ListsInv, job = Lists!NoJob, \A k \in Lists!Lists : fetch[k] = Lists!NoFetch,
                    NEW k \in Lists!Lists, Lists!Active(k), k \in Collections => Lists!Kept(k)
             PROVE  data[k] = Lists!Truth(k) \/ k \in failed \cup missed
  BY DEF ListsCatchUp, Lists!ListsCatchUp
<1>1. fetch[k].step = "no" /\ ~Pending(k)
  BY NoJobSays DEF Lists!NoFetch, Pending
<1> QED BY <1>1 DEF ListsInv, ListHolds, Existing, UpToDate

LEMMA ExportEnds == ASSUME ListsInv PROVE Lists!Exported
<1> SUFFICES ASSUME job.kind = "export", Lists!Finish, job.old = {},
                    \A c \in job.chosen : Lists!Kept(c)
             PROVE  job.rows = UNION {Lists!Truth(c) : c \in job.chosen}
  BY DEF Lists!Exported
<1>1. job.todo = {} /\ job.call = Lists!NoJob.call
  BY DEF ListsInv, CallsHold, Lists!Finish
<1>2. job.chosen \ Unread = job.chosen
  <2>1. Unread = {Root}
    BY <1>1, NoJobSays DEF Unread
  <2> QED BY <2>1, JobFields, Keys
<1> QED BY <1>2 DEF ListsInv, ExportHolds

\* With no job and no fetch under way, every list on display that shows no error holds
\* what the server has, whatever was created, moved, deleted or imported before and
\* whichever answers were late: the mutations of hooks/queries/useCollections.ts
\* invalidate all that they change, and what was opened stale is fetched.
THEOREM ListsAreCurrent == ViewsSpec => []ListsCatchUp
<1>1. ViewsInit => ListsInv
  BY ListsStart DEF ViewsInit, ListsInit
<1>2. ListsInv /\ [ViewsNext]_allVars => ListsInv'
  BY ListsStay, ListsKeep
<1> QED BY <1>1, <1>2, ListsRest, PTL DEF ViewsSpec

\* Exporting a selection (handleBulkExport of CollectionsSidebar.tsx) ends with every
\* request of the collections chosen as the server has it, in every behaviour, unless
\* one of their lists was known to be old as it began or a collection is gone.
THEOREM ExportsAreCurrent == ViewsSpec => ExportIsCurrent
<1>1. ViewsInit => ListsInv
  BY ListsStart DEF ViewsInit, ListsInit
<1>2. ListsInv /\ [ViewsNext]_allVars => ListsInv'
  BY ListsStay, ListsKeep
<1>3. ListsInv /\ [ViewsNext]_allVars => [Lists!Exported]_(Lists!vars)
  BY ExportEnds
<1> QED BY <1>1, <1>2, <1>3, PTL DEF ViewsSpec, ExportIsCurrent, Lists!ExportIsCurrent

(***************************************************************************)
(* What a script leaves.                                                   *)
(***************************************************************************)

\* Two items are not taken for one.
Distinct(q) == q \in Seq(Script!Item) /\ ~Script!Repeats(q)

\* The script's list begins with the request's names, as long as it removed nothing.
Begins(q, w) ==
  Len(q) <= Len(w) /\ \A i \in 1 .. Len(q) : w[i].name = q[i].name

ScriptInv ==
  /\ original \in Seq(Script!Item)
  /\ program # "builder" /\ ended => scripted = work
  /\ program = "builder" /\ ~removed /\ ~repeated =>
       /\ Distinct(work) /\ Begins(original, work)
       /\ ended => scripted = work

\* Of a list without repetitions, the first item of a name is the one of that name.
LEMMA FirstIsOnly ==
  ASSUME NEW w, Distinct(w), NEW i \in 1 .. Len(w), NEW n, Script!Same(w[i].name, n)
  PROVE  Script!Holds(w, n) /\ Script!FirstOf(w, n) = i
<1>1. i \in DOMAIN w /\ DOMAIN w = 1 .. Len(w)
  BY DEF Distinct
<1>2. ASSUME NEW j \in DOMAIN w, Script!Same(w[j].name, n) PROVE j = i
  <2>1. Script!Same(w[j].name, w[i].name)
    BY <1>2 DEF Script!Same
  <2> QED BY <1>1, <2>1 DEF Distinct, Script!Repeats
<1>3. \A j \in 1 .. i - 1 : ~Script!Same(w[j].name, n)
  BY <1>1, <1>2
<1>4. \A j \in DOMAIN w :
        Script!Same(w[j].name, n) /\ (\A k \in 1 .. j - 1 : ~Script!Same(w[k].name, n)) <=> j = i
  BY <1>1, <1>2, <1>3
<1> QED BY <1>1, <1>4 DEF Script!Holds, Script!FirstOf

\* The builder sends the script's list.
LEMMA MergedIsWork ==
  ASSUME NEW q \in Seq(Script!Item), NEW w, Distinct(w), Begins(q, w)
  PROVE  Script!Merged(q, w) = w
<1> DEFINE N == Len(w)
           L == Len(q)
           base == Script!Valued(q, w)
           Upto(i) == [j \in 1 .. (IF i < L THEN L ELSE i) |-> w[j]]
           Step(s, i) == IF Script!Holds(s, w[i].name) THEN s ELSE Append(s, w[i])
           Loop(g) == g = [i \in 0 .. N |-> IF i = 0 THEN base ELSE Step(g[i - 1], i)]
<1>1. /\ N \in Nat /\ L \in Nat /\ L <= N /\ w \in Seq(Script!Item)
      /\ DOMAIN q = 1 .. L /\ DOMAIN w = 1 .. N
      /\ \A i \in 1 .. N : w[i] \in Script!Item
  BY DEF Distinct, Begins
<1>2. base = Upto(0)
  <2>1. ASSUME NEW i \in 1 .. L
        PROVE  /\ Script!Holds(w, q[i].name) /\ Script!FirstOf(w, q[i].name) = i
               /\ [q[i] EXCEPT !.value = w[i].value] = w[i]
    <3>1. i \in 1 .. N /\ w[i].name = q[i].name /\ q[i] \in Script!Item /\ w[i] \in Script!Item
      BY <1>1 DEF Begins
    <3>2. Script!Same(w[i].name, q[i].name)
      BY <3>1 DEF Script!Same
    <3> QED BY <3>1, <3>2, FirstIsOnly DEF Script!Item
  <2>2. base = [i \in 1 .. L |-> w[i]]
    BY <1>1, <2>1 DEF Script!Valued
  <2> QED BY <1>1, <2>2
<1>3. ASSUME NEW i \in 1 .. N PROVE Step(Upto(i - 1), i) = Upto(i)
  <2>1. CASE i <= L
    <3>1. Upto(i - 1) = [j \in 1 .. L |-> w[j]] /\ Upto(i) = [j \in 1 .. L |-> w[j]]
      <4>1. i - 1 < L
        BY <1>1, <2>1
      <4>2. i < L \/ i = L
        <5>1. i \in Nat /\ L \in Nat
          BY <1>1
        <5> QED BY <2>1, <5>1
      <4>3. (IF i < L THEN L ELSE i) = L
        BY <4>2, Zenon
      <4> QED BY <4>1, <4>3, Zenon
    <3>2. Script!Holds([j \in 1 .. L |-> w[j]], w[i].name)
      <4>1. i \in 1 .. L /\ i \in DOMAIN [j \in 1 .. L |-> w[j]]
            /\ [j \in 1 .. L |-> w[j]][i] = w[i]
        BY <1>1, <2>1
      <4>2. Script!Same(w[i].name, w[i].name)
        BY DEF Script!Same
      <4> QED BY <4>1, <4>2 DEF Script!Holds
    <3> QED BY <3>1, <3>2
  <2>2. CASE i > L
    <3>1. Upto(i - 1) = [j \in 1 .. i - 1 |-> w[j]] /\ Upto(i) = [j \in 1 .. i |-> w[j]]
      <4>1. ~(i - 1 < L) /\ ~(i < L)
        BY <1>1, <2>2
      <4> QED BY <4>1, Zenon
    <3>2. ~Script!Holds([j \in 1 .. i - 1 |-> w[j]], w[i].name)
      <4> SUFFICES ASSUME NEW j \in 1 .. i - 1, Script!Same(w[j].name, w[i].name) PROVE FALSE
        BY DEF Script!Holds
      <4>1. j \in DOMAIN w /\ i \in DOMAIN w /\ j # i
        BY <1>1
      <4> QED BY <4>1 DEF Distinct, Script!Repeats
    <3>3. Append([j \in 1 .. i - 1 |-> w[j]], w[i]) = [j \in 1 .. i |-> w[j]]
      <4>1. [j \in 1 .. i - 1 |-> w[j]] \in Seq(Script!Item)
            /\ Len([j \in 1 .. i - 1 |-> w[j]]) = i - 1
        BY <1>1
      <4> QED BY <4>1
    <3> QED BY <3>1, <3>2, <3>3
  <2> QED BY <1>1, <2>1, <2>2
<1>4. \E g : Loop(g)
  <2> DEFINE g == [i \in 0 .. N |-> Upto(i)]
  <2>1. \A i \in 0 .. N : g[i] = IF i = 0 THEN base ELSE Step(g[i - 1], i)
    <3> HIDE DEF Upto, Step, base
    <3>1. \A i \in 1 .. N : i \in 0 .. N /\ i - 1 \in 0 .. N
      BY <1>1
    <3> QED BY <1>2, <1>3, <3>1
  <2> HIDE DEF Upto, Step, base
  <2> QED BY <2>1
<1>5. Script!Merged(q, w) = (CHOOSE g : Loop(g))[N]
  BY DEF Script!Merged
<1>6. PICK f : f = (CHOOSE g : Loop(g)) /\ Loop(f)
  <2> HIDE DEF Loop
  <2> QED BY <1>4
<1>7. \A i \in Nat : i <= N => f[i] = Upto(i)
  <2> DEFINE S == {i \in Nat : i <= N => f[i] = Upto(i)}
  <2> HIDE DEF base, Upto, Step
  <2>1. 0 \in S
    BY <1>1, <1>2, <1>6
  <2>2. ASSUME NEW i \in Nat, i \in S PROVE i + 1 \in S
    <3> SUFFICES ASSUME i + 1 <= N PROVE f[i + 1] = Upto(i + 1)
      OBVIOUS
    <3>1. i + 1 \in 1 .. N /\ i + 1 \in 0 .. N /\ (i + 1) - 1 = i /\ i <= N /\ i + 1 # 0
      BY <1>1
    <3>2. f[i] = Upto(i)
      BY <2>2, <3>1
    <3>3. f[i + 1] = Step(f[i], i + 1)
      BY <1>6, <3>1
    <3>4. Step(Upto((i + 1) - 1), i + 1) = Upto(i + 1)
      BY <1>3, <3>1
    <3> QED BY <3>1, <3>2, <3>3, <3>4
  <2> HIDE DEF S
  <2>3. \A i \in Nat : i \in S
    BY <2>1, <2>2, Induction
  <2> QED BY <2>3 DEF S
<1>8. Upto(N) = w
  <2>1. ~(N < L)
    BY <1>1
  <2>2. [j \in 1 .. N |-> w[j]] = w
    BY <1>1
  <2> QED BY <2>1, <2>2, Zenon
<1>9. f[N] = Upto(N)
  <2> HIDE DEF Upto
  <2> QED BY <1>1, <1>7
<1> HIDE DEF Upto, Loop
<1> QED BY <1>5, <1>6, <1>8, <1>9

LEMMA ScriptStarts == Script!Init => ScriptInv
<1> SUFFICES ASSUME Script!Init PROVE ScriptInv
  OBVIOUS
<1>1. original \in Seq(Script!Item)
  <2>1. PICK n \in 0 .. MaxItems : original \in [1 .. n -> Script!Item]
    BY DEF Script!Init
  <2>2. n \in Nat
    BY ViewsAssumption DEF Script!ItemsAssumption
  <2> QED BY <2>1, <2>2
<1> QED BY <1>1 DEF Script!Init, ScriptInv, Distinct, Begins

LEMMA AddsKeep == ASSUME ScriptInv, NEW item \in Script!Item, Script!Add(item) PROVE ScriptInv'
<1>1. /\ work' = Script!With(work, item) /\ removed' = removed /\ ~ended
      /\ repeated' = (repeated \/ Script!Repeats(work'))
      /\ UNCHANGED <<program, list, original, scripted, ended>>
  BY DEF Script!Add, Script!Edit
<1> SUFFICES ASSUME program = "builder", ~removed, ~repeated, ~Script!Repeats(work')
             PROVE  work' \in Seq(Script!Item) /\ Begins(original, work')
  BY <1>1 DEF ScriptInv, Distinct, Script!Repeats, Script!Same
<1>2. Distinct(work) /\ Begins(original, work) /\ original \in Seq(Script!Item)
  BY DEF ScriptInv
<1>3. CASE work' = Append(work, item)
  BY <1>2, <1>3 DEF Distinct, Begins
<1>4. CASE work' # Append(work, item)
  <2>1. Script!Holds(work, item.name)
        /\ work' = [work EXCEPT ![Script!FirstOf(work, item.name)].value = item.value]
    BY <1>1, <1>4 DEF Script!With
  <2>2. PICK i \in DOMAIN work : Script!Same(work[i].name, item.name)
    BY <2>1 DEF Script!Holds
  <2>3. i \in 1 .. Len(work) /\ Script!FirstOf(work, item.name) = i
    BY <1>2, <2>2, FirstIsOnly DEF Distinct
  <2>4. work' = [work EXCEPT ![i].value = item.value]
    BY <2>1, <2>3
  <2>5. work \in Seq(Script!Item) /\ item.value \in ItemValues
    BY <1>2 DEF Distinct, Script!Item
  <2> DEFINE valued == [work[i] EXCEPT !.value = item.value]
  <2>6. valued \in Script!Item /\ valued.name = work[i].name
    <3>1. work[i] \in [name : ItemNames, value : ItemValues]
      <4>1. work[i] \in Script!Item
        BY <2>3, <2>5
      <4> QED BY <4>1 DEF Script!Item
    <3>2. valued = [name |-> work[i].name, value |-> item.value]
      BY <3>1
    <3> HIDE DEF valued
    <3> QED BY <2>5, <3>1, <3>2 DEF Script!Item
  <2>7. work' = [work EXCEPT ![i] = valued]
    BY <2>4
  <2> HIDE DEF valued
  <2>8. work' \in Seq(Script!Item) /\ Len(work') = Len(work)
        /\ \A j \in 1 .. Len(work) : work'[j].name = work[j].name
    BY <2>3, <2>5, <2>6, <2>7
  <2> QED BY <1>2, <2>8 DEF Begins
<1> QED BY <1>3, <1>4

\* Names compare as before while the list is of the same kind.
LEMMA ListedAlike ==
  UNCHANGED <<list, original, work>> =>
    (Distinct(work)' <=> Distinct(work)) /\ (Begins(original, work)' <=> Begins(original, work))
BY DEF Distinct, Begins, Script!Repeats, Script!Same

LEMMA ScriptKeeps == ScriptInv /\ [Script!Next]_(Script!requestVars) => ScriptInv'
<1> SUFFICES ASSUME ScriptInv, [Script!Next]_(Script!requestVars) PROVE ScriptInv'
  OBVIOUS
<1>1. CASE \E item \in Script!Item : Script!Add(item)
  BY <1>1, AddsKeep
<1>2. ASSUME NEW n \in ItemNames, Script!Discard(n) PROVE ScriptInv'
  <2>1. /\ ~ended /\ UNCHANGED <<program, list, original, scripted, ended>>
        /\ repeated' = (repeated \/ Script!Repeats(work'))
        /\ removed' \/ UNCHANGED <<work, removed>>
    BY <1>2 DEF Script!Discard, Script!Edit
  <2>2. CASE removed'
    BY <2>1, <2>2 DEF ScriptInv
  <2>3. CASE UNCHANGED <<work, removed>> /\ ~repeated'
    <3>1. ~repeated
      BY <2>1, <2>3
    <3>2. UNCHANGED <<program, list, original, scripted, ended, work, removed>>
      BY <2>1, <2>3
    <3> QED BY <3>1, <3>2, ListedAlike, Zenon DEF ScriptInv
  <2>4. CASE repeated' /\ UNCHANGED <<work, removed>>
    BY <2>1, <2>4 DEF ScriptInv
  <2> QED BY <2>1, <2>2, <2>3, <2>4
<1>3. CASE Script!End
  <2>1. /\ scripted' = IF program = "builder" THEN Script!Merged(original, work) ELSE work
        /\ UNCHANGED <<program, list, original, work, removed, repeated>>
    BY <1>3 DEF Script!End
  <2>2. program = "builder" /\ ~removed /\ ~repeated => Script!Merged(original, work) = work
    BY MergedIsWork DEF ScriptInv
  <2>3. program # "builder" \/ (~removed /\ ~repeated) => scripted' = work'
    BY <2>1, <2>2
  <2> QED BY <2>1, <2>3, ListedAlike, Zenon DEF ScriptInv
<1>4. CASE UNCHANGED Script!requestVars
  <2>1. UNCHANGED <<program, list, original, scripted, ended, work, removed, repeated>>
    BY <1>4 DEF Script!requestVars
  <2> QED BY <2>1, ListedAlike, Zenon DEF ScriptInv
<1> QED BY <1>1, <1>2, <1>3, <1>4 DEF Script!Next

LEMMA ScriptStays == [ViewsNext]_allVars => [Script!Next]_(Script!requestVars)
BY DEF ViewsNext, allVars, ListsStep, WideStep, DeepStep, PlayStep, HistoryStep, JsonStep,
       SentStep, ScriptStep, scriptVars, Script!requestVars

\* What a script leaves in pm.request is what is sent, for lists of any length and any
\* number of edits: the merge of runPreRequestScript (hooks/useScriptRunner.ts) gives
\* the script's list back, unless the script removed an item or a name repeats.
THEOREM ScriptedIsSent == ViewsSpec => []SentAsLeft
<1>1. ViewsInit => ScriptInv
  BY ScriptStarts DEF ViewsInit, ScriptInit
<1>2. ScriptInv /\ [ViewsNext]_allVars => ScriptInv'
  BY ScriptStays, ScriptKeeps
<1>3. ScriptInv => SentAsLeft
  BY DEF ScriptInv, SentAsLeft, Script!SentAsLeft
<1> QED BY <1>1, <1>2, <1>3, PTL DEF ViewsSpec

(***************************************************************************)
(* The response tree.                                                      *)
(***************************************************************************)

(* A function that takes its values from earlier ones: from item to item of a list, *)
(* or from a node's parent.                                                         *)

Grows(f, b, N, base, up, turn) ==
  f[b] = base /\ \A i \in b + 1 .. N : f[i] = turn[i][f[up[i]]]

Ups(b, N) == {up \in [b + 1 .. N -> b .. N] : \A i \in b + 1 .. N : up[i] < i}

LEMMA GrowsOne ==
  ASSUME NEW b \in Nat, NEW N \in Nat, b <= N, NEW X, NEW base \in X, NEW up \in Ups(b, N),
         NEW turn \in [b + 1 .. N -> [X -> X]]
  PROVE  \E f : f \in [b .. N -> X] /\ Grows(f, b, N, base, up, turn)
<1> DEFINE Upto(f, k) == /\ f \in [b .. b + k -> X] /\ f[b] = base
                         /\ \A i \in b + 1 .. b + k : f[i] = turn[i][f[up[i]]]
           S == {k \in Nat : b + k <= N => \E f : Upto(f, k)}
<1>1. 0 \in S
  <2>1. Upto([i \in b .. b + 0 |-> base], 0)
    OBVIOUS
  <2> QED BY <2>1
<1>2. ASSUME NEW k \in Nat, k \in S PROVE k + 1 \in S
  <2> SUFFICES ASSUME b + (k + 1) <= N PROVE \E f : Upto(f, k + 1)
    OBVIOUS
  <2>1. PICK f : Upto(f, k)
    BY <1>2
  <2> DEFINE m == b + (k + 1)
             g == [i \in b .. m |-> IF i = m THEN turn[m][f[up[m]]] ELSE f[i]]
  <2>2. m \in b + 1 .. N /\ up[m] \in b .. b + k /\ m \notin b .. b + k
    BY DEF Ups
  <2>3. f[up[m]] \in X /\ turn[m] \in [X -> X]
    BY <2>1, <2>2
  <2>4. turn[m][f[up[m]]] \in X
    BY <2>3
  <2>5. \A i \in b .. m : i = m \/ i \in b .. b + k
    OBVIOUS
  <2>6. g \in [b .. m -> X]
    BY <2>1, <2>4, <2>5
  <2>7. g[m] = turn[m][f[up[m]]] /\ \A i \in b .. b + k : g[i] = f[i]
    <3>1. m \in b .. m /\ \A i \in b .. b + k : i \in b .. m /\ i # m
      OBVIOUS
    <3> QED BY <3>1
  <2> HIDE DEF g
  <2>8. ASSUME NEW i \in b + 1 .. m PROVE g[i] = turn[i][g[up[i]]]
    <3>1. up[i] \in b .. b + k /\ g[up[i]] = f[up[i]]
      <4>1. i \in b + 1 .. N /\ up[i] \in b .. N /\ up[i] < i
        BY <2>2 DEF Ups
      <4>2. up[i] \in b .. b + k
        BY <4>1
      <4> QED BY <4>2, <2>7
    <3>2. CASE i = m
      BY <2>7, <3>1, <3>2
    <3>3. CASE i # m
      <4>1. i \in b + 1 .. b + k /\ i \in b .. b + k
        BY <3>3
      <4> QED BY <2>1, <2>7, <3>1, <4>1
    <3> QED BY <3>2, <3>3
  <2>9. g[b] = base
    <3>1. b \in b .. b + k
      OBVIOUS
    <3> QED BY <2>1, <2>7, <3>1
  <2>10. Upto(g, k + 1)
    BY <2>6, <2>8, <2>9
  <2> QED BY <2>10
<1> HIDE DEF S
<1>3. \A k \in Nat : k \in S
  BY <1>1, <1>2, Induction
<1>4. N - b \in Nat /\ b + (N - b) = N
  OBVIOUS
<1>5. \E f : Upto(f, N - b)
  <2>1. N - b \in S /\ b + (N - b) <= N
    BY <1>3, <1>4
  <2> HIDE DEF Upto
  <2> QED BY <2>1 DEF S
<1> QED BY <1>4, <1>5 DEF Grows

(* What holds of the first and of whatever the one before it holds of. *)
LEMMA Onward ==
  ASSUME NEW b \in Nat, NEW N \in Nat, NEW up \in Ups(b, N), NEW S, b \in S,
         \A i \in b + 1 .. N : up[i] \in S => i \in S
  PROVE  b .. N \subseteq S
<1> DEFINE T == {k \in Nat : \A i \in b .. b + k : i <= N => i \in S}
<1>1. 0 \in T
  OBVIOUS
<1>2. ASSUME NEW k \in Nat, k \in T PROVE k + 1 \in T
  <2> SUFFICES ASSUME NEW i \in b .. b + (k + 1), i <= N PROVE i \in S
    OBVIOUS
  <2>1. CASE i \in b .. b + k
    BY <1>2, <2>1
  <2>2. CASE i \notin b .. b + k
    <3>1. i \in b + 1 .. N /\ up[i] \in b .. N /\ up[i] < i
      BY <2>2 DEF Ups
    <3>2. up[i] \in b .. b + k /\ up[i] <= N
      BY <3>1
    <3>3. up[i] \in S
      BY <1>2, <3>2
    <3> QED BY <3>1, <3>3
  <2> QED BY <2>1, <2>2
<1> HIDE DEF T
<1>3. \A k \in Nat : k \in T
  BY <1>1, <1>2, Induction
<1>4. ASSUME NEW i \in b .. N PROVE i \in S
  <2>1. N - b \in Nat /\ i \in b .. b + (N - b) /\ i <= N
    OBVIOUS
  <2>2. N - b \in T
    BY <1>3, <2>1
  <2> QED BY <2>1, <2>2 DEF T
<1> QED BY <1>4

(* Documents. *)

IsDocument(d, n) ==
  /\ n \in 1 .. MaxNodes
  /\ Json!Nodes(d) = 1 .. n
  /\ \A c \in 2 .. n : d.parent[c] \in 1 .. n /\ d.parent[c] < c
  /\ \A c \in 2 .. n : d.key[c] \in Json!Keys
  /\ Json!WellFormed(d)

LEMMA DocumentIs ==
  ASSUME NEW n \in Nat \ {0}, n <= MaxNodes, NEW d \in Json!Documents(n) PROVE IsDocument(d, n)
<1>1. n \in 1 .. MaxNodes
  BY ViewsAssumption DEF Json!JsonAssumption
<1> DEFINE P == {p \in [1 .. n -> 1 .. n] : p[1] = 1 /\ \A c \in 2 .. n : p[c] < c}
           K == {k \in [1 .. n -> Json!Keys] : k[1] = Digits[1]}
           A == [1 .. n -> Json!Kinds]
<1>2. d \in [kind : A, parent : P, key : K] /\ Json!WellFormed(d)
  BY Zenon DEF Json!Documents
<1> HIDE DEF P, K, A
<1>3. d.kind \in A /\ d.parent \in P /\ d.key \in K
  BY <1>2
<1>4. /\ DOMAIN d.kind = 1 .. n
      /\ \A c \in 2 .. n : d.parent[c] \in 1 .. n /\ d.parent[c] < c
      /\ \A c \in 2 .. n : d.key[c] \in Json!Keys
  <2>1. \A c \in 2 .. n : c \in 1 .. n
    OBVIOUS
  <2> QED BY <1>3, <2>1 DEF P, K, A
<1> QED BY <1>1, <1>2, <1>4 DEF IsDocument, Json!Nodes

LEMMA ParentsUp ==
  ASSUME NEW d, NEW n, IsDocument(d, n)
  PROVE  /\ n \in Nat \ {0} /\ 1 <= n
         /\ [c \in 1 + 1 .. n |-> d.parent[c]] \in Ups(1, n)
<1>1. n \in Nat \ {0} /\ 1 <= n
  BY ViewsAssumption DEF IsDocument, Json!JsonAssumption
<1>2. \A c \in 1 + 1 .. n : d.parent[c] \in 1 .. n /\ d.parent[c] < c
  BY <1>1 DEF IsDocument
<1> QED BY <1>1, <1>2 DEF Ups

LEMMA CardinalityIs == \A S : Json!Cardinality(S) = Cardinality(S)
BY Zenon DEF Json!Cardinality, Cardinality, Json!IsFiniteSet, IsFiniteSet

(* An index is one of those with digits, and tells the items of an array apart. *)
LEMMA IndexIs ==
  ASSUME NEW d, NEW n, IsDocument(d, n), NEW c \in 2 .. n
  PROVE  /\ Json!Index(d, c) \in Nat
         /\ Json!Index(d, c) + 1 \in DOMAIN Digits
         /\ \A b \in 2 .. n : d.parent[b] = d.parent[c] /\ Json!Index(d, b) = Json!Index(d, c) => b = c
<1> DEFINE Before(b) == {a \in 2 .. n : d.parent[a] = d.parent[b] /\ a < b}
<1>1. n \in Nat /\ n <= MaxNodes /\ MaxNodes \in Nat
  BY ViewsAssumption DEF IsDocument, Json!JsonAssumption
<1>2. ASSUME NEW b \in 2 .. n PROVE Json!Index(d, b) = Cardinality(Before(b))
  <2>1. {a \in Json!Children(d, d.parent[b]) : a < b} = Before(b)
    BY <1>1 DEF Json!Children, IsDocument
  <2> QED BY <2>1, CardinalityIs, Zenon DEF Json!Index
<1>3. ASSUME NEW b \in 2 .. n
      PROVE  /\ IsFiniteSet(Before(b)) /\ Cardinality(Before(b)) \in Nat
             /\ Cardinality(Before(b)) <= b - 2
  <2>1. IsFiniteSet(2 .. b - 1) /\ Cardinality(2 .. b - 1) = b - 2
    BY <1>1, FS_Interval
  <2>2. Before(b) \subseteq 2 .. b - 1
    BY <1>1
  <2> HIDE DEF Before
  <2> QED BY <2>1, <2>2, FS_Subset, FS_CardinalityType
<1>4. ASSUME NEW a \in 2 .. n, NEW b \in 2 .. n, d.parent[a] = d.parent[b], a < b
      PROVE  Cardinality(Before(a)) # Cardinality(Before(b))
  <2>1. Before(a) \subseteq Before(b) /\ a \in Before(b) /\ a \notin Before(a)
    BY <1>1, <1>4
  <2> HIDE DEF Before
  <2> QED BY <1>3, <2>1, FS_Subset
<1> HIDE DEF Before
<1>5. Json!Index(d, c) + 1 \in DOMAIN Digits
  <2>1. Digits \in Seq(STRING) /\ Len(Digits) >= MaxNodes - 1
    BY ViewsAssumption DEF Json!JsonAssumption
  <2>2. DOMAIN Digits = 1 .. Len(Digits) /\ Len(Digits) \in Nat
    BY <2>1
  <2> QED BY <1>1, <1>2, <1>3, <2>1, <2>2
<1>6. ASSUME NEW b \in 2 .. n, d.parent[b] = d.parent[c], Json!Index(d, b) = Json!Index(d, c)
      PROVE  b = c
  <2>1. ~(b < c) /\ ~(c < b)
    BY <1>2, <1>4, <1>6
  <2> QED BY <1>1, <2>1
<1> QED BY <1>2, <1>3, <1>5, <1>6

Pieces == [name : STRING, indices : Seq(Nat)]

LEMMA IndexedPiece ==
  ASSUME NEW x \in Pieces, NEW i \in Nat
  PROVE  /\ [x EXCEPT !.indices = Append(x.indices, i)] \in Pieces
         /\ [x EXCEPT !.indices = Append(x.indices, i)].name = x.name
         /\ [x EXCEPT !.indices = Append(x.indices, i)].indices = Append(x.indices, i)
<1>1. x = [name |-> x.name, indices |-> x.indices] /\ x.name \in STRING /\ x.indices \in Seq(Nat)
  BY DEF Pieces
<1>2. Append(x.indices, i) \in Seq(Nat)
  BY <1>1
<1>3. ASSUME NEW y PROVE [x EXCEPT !.indices = y] = [name |-> x.name, indices |-> y]
  BY DEF Pieces
<1> QED BY <1>1, <1>2, <1>3 DEF Pieces

LEMMA BuiltIs ==
  ASSUME NEW d, NEW n, IsDocument(d, n), NEW c \in 2 .. n, NEW path \in Seq(Pieces)
  PROVE  Json!BuildPath(d, path, c) \in Seq(Pieces) /\ Json!BuildPath(d, path, c) # <<>>
<1>1. \A s \in STRING : Json!Part(s) \in Pieces
  BY DEF Json!Part, Pieces
<1>2. CASE ~Json!InArray(d, c)
  <2>1. Json!AsParts(d.key[c]) \in Seq(Pieces) /\ Json!AsParts(d.key[c]) # <<>>
    <3>1. CASE d.key[c] \in Dotted
      <4> DEFINE q == PartsOf[d.key[c]]
      <4>1. q \in Seq(STRING) /\ q # <<>>
        BY <3>1, ViewsAssumption DEF Json!JsonAssumption
      <4>2. Json!AsParts(d.key[c]) = [i \in DOMAIN q |-> Json!Part(q[i])]
        BY <3>1 DEF Json!AsParts
      <4> HIDE DEF q
      <4>3. [i \in DOMAIN q |-> Json!Part(q[i])] \in Seq(Pieces)
        <5>1. DOMAIN q = 1 .. Len(q) /\ Len(q) \in Nat
          BY <4>1
        <5>2. \A i \in 1 .. Len(q) : Json!Part(q[i]) \in Pieces
          <6>1. \A i \in 1 .. Len(q) : q[i] \in STRING
            BY <4>1
          <6> QED BY <1>1, <6>1
        <5>3. [i \in 1 .. Len(q) |-> Json!Part(q[i])] \in Seq(Pieces)
          BY <5>1, <5>2
        <5> QED BY <5>1, <5>3
      <4>4. [i \in DOMAIN q |-> Json!Part(q[i])] # <<>>
        BY <4>1
      <4> QED BY <4>2, <4>3, <4>4
    <3>2. CASE d.key[c] \notin Dotted
      <4>1. d.key[c] \in STRING
        BY <3>2, ViewsAssumption DEF Json!JsonAssumption, IsDocument, Json!Keys, Json!Words
      <4>2. Json!AsParts(d.key[c]) = <<Json!Part(d.key[c])>>
        BY <3>2 DEF Json!AsParts
      <4> DEFINE e == Json!Part(d.key[c])
      <4>3. e \in Pieces
        BY <1>1, <4>1
      <4> HIDE DEF e
      <4>4. <<e>> \in Seq(Pieces) /\ <<e>> # <<>>
        BY <4>3
      <4> QED BY <4>2, <4>4 DEF e
    <3> QED BY <3>1, <3>2
  <2>2. Json!BuildPath(d, path, c) = path \o Json!AsParts(d.key[c])
    BY <1>2 DEF Json!BuildPath
  <2> QED BY <2>1, <2>2
<1>3. CASE Json!InArray(d, c) /\ path = <<>>
  <2>1. Digits[Json!Index(d, c) + 1] \in STRING
    BY IndexIs, ViewsAssumption DEF Json!JsonAssumption
  <2>2. Json!BuildPath(d, path, c) = <<Json!Part(Digits[Json!Index(d, c) + 1])>>
    BY <1>3 DEF Json!BuildPath
  <2> DEFINE e == Json!Part(Digits[Json!Index(d, c) + 1])
  <2>3. e \in Pieces
    BY <1>1, <2>1
  <2> HIDE DEF e
  <2>4. <<e>> \in Seq(Pieces) /\ <<e>> # <<>>
    BY <2>3
  <2> QED BY <2>2, <2>4 DEF e
<1>4. CASE Json!InArray(d, c) /\ path # <<>>
  <2> DEFINE L == path[Len(path)]
             longer == [L EXCEPT !.indices = Append(L.indices, Json!Index(d, c))]
  <2>1. L \in Pieces /\ Len(path) \in 1 .. Len(path) /\ Json!Index(d, c) \in Nat
    BY <1>4, IndexIs
  <2>2. longer \in Pieces
    <3> HIDE DEF L
    <3> QED BY <2>1, IndexedPiece
  <2>3. Json!BuildPath(d, path, c) = [path EXCEPT ![Len(path)] = longer]
    BY <1>4, Zenon DEF Json!BuildPath, Json!WithIndex
  <2> HIDE DEF longer
  <2>4. [path EXCEPT ![Len(path)] = longer] \in Seq(Pieces)
    BY <2>1, <2>2, ExceptSeq
  <2>5. [path EXCEPT ![Len(path)] = longer] # <<>>
    BY <1>4
  <2> QED BY <2>3, <2>4, <2>5
<1> QED BY <1>2, <1>3, <1>4

(* The path of a node continues the path of its parent. *)
LEMMA PathIs ==
  ASSUME NEW d, NEW n, IsDocument(d, n)
  PROVE  /\ Json!PathOf(d)[1] = <<>>
         /\ \A c \in 2 .. n : Json!PathOf(d)[c] = Json!BuildPath(d, Json!PathOf(d)[d.parent[c]], c)
         /\ \A c \in 1 .. n : Json!PathOf(d)[c] \in Seq(Pieces)
<1> DEFINE X == Seq(Pieces)
           up == [c \in 1 + 1 .. n |-> d.parent[c]]
           turn == [c \in 1 + 1 .. n |-> [w \in X |-> Json!BuildPath(d, w, c)]]
           Loop(f) == f = [c \in Json!Nodes(d) |-> IF c = 1 THEN <<>> ELSE Json!BuildPath(d, f[d.parent[c]], c)]
<1>1. n \in Nat /\ 1 <= n /\ up \in Ups(1, n) /\ Json!Nodes(d) = 1 .. n /\ 2 = 1 + 1
  BY ParentsUp DEF IsDocument
<1>2. <<>> \in X
  OBVIOUS
<1>3. turn \in [1 + 1 .. n -> [X -> X]]
  <2>1. ASSUME NEW c \in 1 + 1 .. n, NEW w \in X PROVE Json!BuildPath(d, w, c) \in X
    BY <1>1, BuiltIs
  <2> HIDE DEF X
  <2> QED BY <2>1, Zenon
<1>4. PICK f : f \in [1 .. n -> X] /\ Grows(f, 1, n, <<>>, up, turn)
  <2> HIDE DEF X, up, turn
  <2> QED BY <1>1, <1>2, <1>3, GrowsOne
<1>5. f[1] = <<>> /\ \A c \in 2 .. n : f[c] = Json!BuildPath(d, f[d.parent[c]], c)
  <2>1. ASSUME NEW c \in 1 + 1 .. n PROVE f[c] = Json!BuildPath(d, f[d.parent[c]], c)
    <3>1. d.parent[c] \in 1 .. n /\ f[d.parent[c]] \in X
      BY <1>1, <1>4 DEF IsDocument
    <3>2. f[c] = turn[c][f[up[c]]] /\ up[c] = d.parent[c]
      BY <1>4 DEF Grows
    <3> HIDE DEF X, up
    <3> QED BY <3>1, <3>2, Zenon
  <2> QED BY <1>1, <1>4, <2>1 DEF Grows
<1>6. Loop(f)
  <2>1. ASSUME NEW c \in 1 .. n PROVE f[c] = IF c = 1 THEN <<>> ELSE Json!BuildPath(d, f[d.parent[c]], c)
    <3>1. CASE c = 1
      BY <1>5, <3>1, Zenon
    <3>2. CASE c # 1
      <4>1. c \in 2 .. n
        BY <3>2
      <4> QED BY <1>5, <3>2, <4>1, Zenon
    <3> QED BY <3>1, <3>2
  <2>2. f = [c \in 1 .. n |-> f[c]]
    BY <1>4
  <2> QED BY <1>1, <2>1, <2>2, Zenon
<1>7. Json!PathOf(d) = (CHOOSE g : Loop(g))
  BY Zenon DEF Json!PathOf
<1>8. PICK g : g = (CHOOSE h : Loop(h)) /\ Loop(g)
  <2> HIDE DEF Loop
  <2> QED BY <1>6
<1>9. g[1] = <<>> /\ \A c \in 2 .. n : g[c] = Json!BuildPath(d, g[d.parent[c]], c)
  <2>1. \A c \in 2 .. n : c \in 1 .. n /\ c # 1
    BY <1>1
  <2>2. 1 \in 1 .. n
    BY <1>1
  <2> QED BY <1>1, <1>8, <2>1, <2>2, Zenon
<1>10. \A c \in 1 .. n : g[c] \in X
  <2> DEFINE S == {c \in 1 .. n : g[c] \in X}
  <2>1. 1 \in S
    <3>1. 1 \in 1 .. n
      BY <1>1
    <3> HIDE DEF X
    <3> QED BY <1>2, <1>9, <3>1
  <2>2. ASSUME NEW c \in 1 + 1 .. n, up[c] \in S PROVE c \in S
    <3>1. c \in 2 .. n /\ c \in 1 .. n /\ up[c] = d.parent[c]
      BY <1>1
    <3>2. g[d.parent[c]] \in X
      BY <2>2, <3>1
    <3>3. turn[c] \in [X -> X] /\ turn[c][g[d.parent[c]]] = Json!BuildPath(d, g[d.parent[c]], c)
      BY <1>3, <3>2
    <3>4. Json!BuildPath(d, g[d.parent[c]], c) \in X
      <4> HIDE DEF X, turn
      <4> QED BY <3>2, <3>3
    <3> QED BY <1>9, <3>1, <3>4
  <2> HIDE DEF S, up
  <2>3. 1 .. n \subseteq S
    BY <1>1, <2>1, <2>2, Onward
  <2> QED BY <2>3 DEF S
<1> HIDE DEF Loop, X
<1> QED BY <1>7, <1>8, <1>9, <1>10 DEF X

(* So does the way to it, by one key or index. *)

Steps == [kind : {"text", "number"}, text : STRING \cup {Json!Unknown}, number : Nat]

StepTo(d, c) ==
  IF Json!InArray(d, c) THEN Json!Number(Json!Index(d, c)) ELSE Json!Text(d.key[c])

LEMMA StepIs == ASSUME NEW d, NEW n, IsDocument(d, n), NEW c \in 2 .. n PROVE StepTo(d, c) \in Steps
<1>1. Json!Index(d, c) \in Nat
  BY IndexIs
<1>2. d.key[c] \in STRING
  BY ViewsAssumption DEF IsDocument, Json!JsonAssumption, Json!Keys, Json!Words
<1>3. ASSUME NEW i \in Nat PROVE Json!Number(i) \in Steps
  BY DEF Steps, Json!Number, Json!Unknown
<1>4. Json!Text(d.key[c]) \in Steps
  BY <1>2 DEF Steps, Json!Text
<1> QED BY <1>1, <1>3, <1>4, Zenon DEF StepTo

LEMMA WayIs ==
  ASSUME NEW d, NEW n, IsDocument(d, n)
  PROVE  /\ Json!Way(d)[1] = <<>>
         /\ \A c \in 2 .. n : Json!Way(d)[c] = Append(Json!Way(d)[d.parent[c]], StepTo(d, c))
         /\ \A c \in 1 .. n : Json!Way(d)[c] \in Seq(Steps)
<1> DEFINE X == Seq(Steps)
           up == [c \in 1 + 1 .. n |-> d.parent[c]]
           turn == [c \in 1 + 1 .. n |-> [w \in X |-> Append(w, StepTo(d, c))]]
           Loop(f) == f = [c \in Json!Nodes(d) |-> IF c = 1 THEN <<>> ELSE Append(f[d.parent[c]], StepTo(d, c))]
<1>1. n \in Nat /\ 1 <= n /\ up \in Ups(1, n) /\ Json!Nodes(d) = 1 .. n /\ 2 = 1 + 1
  BY ParentsUp DEF IsDocument
<1>2. <<>> \in X
  OBVIOUS
<1>3. turn \in [1 + 1 .. n -> [X -> X]]
  <2>1. ASSUME NEW c \in 1 + 1 .. n, NEW w \in X PROVE Append(w, StepTo(d, c)) \in X
    BY <1>1, StepIs
  <2> HIDE DEF X
  <2> QED BY <2>1, Zenon
<1>4. PICK f : f \in [1 .. n -> X] /\ Grows(f, 1, n, <<>>, up, turn)
  <2> HIDE DEF X, up, turn
  <2> QED BY <1>1, <1>2, <1>3, GrowsOne
<1>5. f[1] = <<>> /\ \A c \in 2 .. n : f[c] = Append(f[d.parent[c]], StepTo(d, c))
  <2>1. ASSUME NEW c \in 1 + 1 .. n PROVE f[c] = Append(f[d.parent[c]], StepTo(d, c))
    <3>1. d.parent[c] \in 1 .. n /\ f[d.parent[c]] \in X
      BY <1>1, <1>4 DEF IsDocument
    <3>2. f[c] = turn[c][f[up[c]]] /\ up[c] = d.parent[c]
      BY <1>4 DEF Grows
    <3> HIDE DEF X, up
    <3> QED BY <3>1, <3>2, Zenon
  <2> QED BY <1>1, <1>4, <2>1 DEF Grows
<1>6. Loop(f)
  <2>1. ASSUME NEW c \in 1 .. n PROVE f[c] = IF c = 1 THEN <<>> ELSE Append(f[d.parent[c]], StepTo(d, c))
    <3>1. CASE c = 1
      BY <1>5, <3>1, Zenon
    <3>2. CASE c # 1
      <4>1. c \in 2 .. n
        BY <3>2
      <4> QED BY <1>5, <3>2, <4>1, Zenon
    <3> QED BY <3>1, <3>2
  <2>2. f = [c \in 1 .. n |-> f[c]]
    BY <1>4
  <2> QED BY <1>1, <2>1, <2>2, Zenon
<1>7. Json!Way(d) = (CHOOSE g : Loop(g))
  BY Zenon DEF Json!Way, StepTo
<1>8. PICK g : g = (CHOOSE h : Loop(h)) /\ Loop(g)
  <2> HIDE DEF Loop
  <2> QED BY <1>6
<1>9. g[1] = <<>> /\ \A c \in 2 .. n : g[c] = Append(g[d.parent[c]], StepTo(d, c))
  <2>1. \A c \in 2 .. n : c \in 1 .. n /\ c # 1
    BY <1>1
  <2>2. 1 \in 1 .. n
    BY <1>1
  <2> QED BY <1>1, <1>8, <2>1, <2>2, Zenon
<1>10. \A c \in 1 .. n : g[c] \in X
  <2> DEFINE S == {c \in 1 .. n : g[c] \in X}
  <2>1. 1 \in S
    <3>1. 1 \in 1 .. n
      BY <1>1
    <3> HIDE DEF X
    <3> QED BY <1>2, <1>9, <3>1
  <2>2. ASSUME NEW c \in 1 + 1 .. n, up[c] \in S PROVE c \in S
    <3>1. c \in 2 .. n /\ c \in 1 .. n /\ up[c] = d.parent[c]
      BY <1>1
    <3>2. g[d.parent[c]] \in X
      BY <2>2, <3>1
    <3>3. turn[c] \in [X -> X] /\ turn[c][g[d.parent[c]]] = Append(g[d.parent[c]], StepTo(d, c))
      BY <1>3, <3>2
    <3>4. Append(g[d.parent[c]], StepTo(d, c)) \in X
      <4> HIDE DEF X, turn
      <4> QED BY <3>2, <3>3
    <3> QED BY <1>9, <3>1, <3>4
  <2> HIDE DEF S, up
  <2>3. 1 .. n \subseteq S
    BY <1>1, <2>1, <2>2, Onward
  <2> QED BY <2>3 DEF S
<1> HIDE DEF Loop, X
<1> QED BY <1>7, <1>8, <1>9, <1>10 DEF X

(* But for an array at the root, the hook's walks build the same paths. *)
LEMMA WalkedIs ==
  ASSUME NEW d, NEW n, IsDocument(d, n), d.kind[1] # "array", NEW c \in 1 .. n
  PROVE  Json!Walked(d)[c] = Json!PathOf(d)[c]
<1> DEFINE up == [a \in 1 + 1 .. n |-> d.parent[a]]
           Loop(f) == f = [a \in Json!Nodes(d) |->
                             IF a = 1 THEN <<>> ELSE Json!WalkPath(d, f[d.parent[a]], a)]
           P == Json!PathOf(d)
           Q == [a \in 1 .. n |-> P[a]]
<1>1. n \in Nat /\ 1 <= n /\ up \in Ups(1, n) /\ Json!Nodes(d) = 1 .. n /\ 2 = 1 + 1
  BY ParentsUp DEF IsDocument
<1>2. /\ P[1] = <<>>
      /\ \A a \in 2 .. n : P[a] = Json!BuildPath(d, P[d.parent[a]], a)
      /\ \A a \in 1 .. n : P[a] \in Seq(Pieces)
  BY PathIs
<1> HIDE DEF P
<1>3. ASSUME NEW a \in 2 .. n
      PROVE  /\ d.parent[a] \in 1 .. n /\ d.parent[a] < a
             /\ P[a] = Json!WalkPath(d, P[d.parent[a]], a)
  <2>1. d.parent[a] \in 1 .. n /\ d.parent[a] < a
    BY <1>1 DEF IsDocument
  <2>2. P[a] = Json!BuildPath(d, P[d.parent[a]], a)
    BY <1>2
  <2>3. ~(Json!InArray(d, a) /\ P[d.parent[a]] = <<>>)
    <3> SUFFICES ASSUME Json!InArray(d, a) PROVE P[d.parent[a]] # <<>>
      OBVIOUS
    <3>1. d.parent[a] # 1
      BY DEF Json!InArray
    <3> DEFINE b == d.parent[a]
    <3>2. b \in 2 .. n
      BY <1>1, <2>1, <3>1
    <3>3. d.parent[b] \in 1 .. n
      BY <3>2 DEF IsDocument
    <3> HIDE DEF b
    <3>4. P[b] = Json!BuildPath(d, P[d.parent[b]], b) /\ P[d.parent[b]] \in Seq(Pieces)
      BY <1>2, <3>2, <3>3
    <3>5. P[b] # <<>>
      BY <3>2, <3>4, BuiltIs
    <3> QED BY <3>5 DEF b
  <2> QED BY <2>1, <2>2, <2>3, Zenon DEF Json!WalkPath
<1>4. Loop(Q)
  <2>1. ASSUME NEW a \in 1 .. n
        PROVE  Q[a] = IF a = 1 THEN <<>> ELSE Json!WalkPath(d, Q[d.parent[a]], a)
    <3>1. CASE a = 1
      BY <1>1, <1>2, <3>1
    <3>2. CASE a # 1
      <4>1. a \in 2 .. n
        BY <3>2
      <4>2. Q[a] = P[a] /\ Q[d.parent[a]] = P[d.parent[a]]
        BY <1>3, <4>1
      <4> HIDE DEF Q
      <4> QED BY <1>3, <3>2, <4>1, <4>2, Zenon
    <3> QED BY <3>1, <3>2
  <2>2. Q = [a \in 1 .. n |-> Q[a]]
    OBVIOUS
  <2> HIDE DEF Q
  <2> QED BY <1>1, <2>1, <2>2, Zenon
<1>5. Json!Walked(d) = (CHOOSE f : Loop(f))
  BY Zenon DEF Json!Walked
<1>6. PICK g : g = (CHOOSE f : Loop(f)) /\ Loop(g)
  <2> HIDE DEF Loop, Q
  <2> QED BY <1>4
<1>7. g[1] = <<>> /\ \A a \in 2 .. n : g[a] = Json!WalkPath(d, g[d.parent[a]], a)
  <2>1. \A a \in 2 .. n : a \in 1 .. n /\ a # 1
    BY <1>1
  <2>2. 1 \in 1 .. n
    BY <1>1
  <2> QED BY <1>1, <1>6, <2>1, <2>2, Zenon
<1> DEFINE S == {a \in 1 .. n : g[a] = P[a]}
<1>8. 1 \in S
  BY <1>1, <1>2, <1>7
<1>9. ASSUME NEW a \in 1 + 1 .. n, up[a] \in S PROVE a \in S
  <2>1. a \in 2 .. n /\ a \in 1 .. n /\ up[a] = d.parent[a]
    BY <1>1
  <2>2. g[d.parent[a]] = P[d.parent[a]]
    BY <1>9, <2>1
  <2>3. g[a] = P[a]
    BY <1>3, <1>7, <2>1, <2>2, Zenon
  <2> QED BY <2>1, <2>3
<1> HIDE DEF S, up
<1>10. 1 .. n \subseteq S
  BY <1>1, <1>8, <1>9, Onward
<1> HIDE DEF Loop
<1> QED BY <1>5, <1>6, <1>10 DEF S, P

(* What is read of one part of a path. *)
LEMMA PartRead == ASSUME NEW x \in Pieces PROVE Json!SegmentsOf(x) \in Seq(Steps)
<1>1. x.name \in STRING /\ x.indices \in Seq(Nat)
  BY DEF Pieces
<1>2. ASSUME NEW s \in STRING \cup {Json!Unknown} PROVE Json!Text(s) \in Steps
  BY DEF Steps, Json!Text
<1>3. ASSUME NEW i \in Nat PROVE Json!Number(i) \in Steps
  BY DEF Steps, Json!Number
<1>4. ASSUME NEW e \in Steps PROVE <<e>> \in Seq(Steps)
  OBVIOUS
<1> DEFINE name == Json!Text(x.name)
           lost == Json!Text(Json!Unknown)
           ns == [i \in DOMAIN x.indices |-> Json!Number(x.indices[i])]
<1>5. name \in Steps /\ lost \in Steps
  BY <1>1, <1>2
<1>6. ns \in Seq(Steps)
  <2>1. DOMAIN x.indices = 1 .. Len(x.indices) /\ Len(x.indices) \in Nat
        /\ \A i \in DOMAIN x.indices : x.indices[i] \in Nat
    BY <1>1
  <2>2. \A i \in 1 .. Len(x.indices) : Json!Number(x.indices[i]) \in Steps
    BY <1>3, <2>1
  <2>3. [i \in 1 .. Len(x.indices) |-> Json!Number(x.indices[i])] \in Seq(Steps)
    BY <2>1, <2>2
  <2> QED BY <2>1, <2>3
<1> HIDE DEF name, lost, ns
<1>7. CASE x.name \in Json!Words
  <2>1. Json!SegmentsOf(x) = <<name>> \o ns
    BY <1>7, Zenon DEF Json!SegmentsOf, name, ns
  <2> QED BY <1>4, <1>5, <1>6, <2>1
<1>8. CASE x.name \notin Json!Words /\ x.name # Json!Bare
  <2>1. Json!SegmentsOf(x) = <<name>> \/ Json!SegmentsOf(x) = <<lost>>
    BY <1>8, Zenon DEF Json!SegmentsOf, name, lost
  <2> QED BY <1>4, <1>5, <2>1
<1>9. CASE x.name \notin Json!Words /\ x.name = Json!Bare /\ Len(x.indices) = 1
  <2>1. Json!SegmentsOf(x) = <<Json!Number(x.indices[1])>>
    BY <1>9, Zenon DEF Json!SegmentsOf
  <2>2. x.indices[1] \in Nat
    BY <1>1, <1>9
  <2>3. Json!Number(x.indices[1]) \in Steps
    BY <1>3, <2>2
  <2> QED BY <1>4, <2>1, <2>3
<1>10. CASE x.name \notin Json!Words /\ x.name = Json!Bare /\ Len(x.indices) # 1
  <2>1. Json!SegmentsOf(x) = <<lost>>
    BY <1>10, Zenon DEF Json!SegmentsOf, lost
  <2> QED BY <1>4, <1>5, <2>1
<1> QED BY <1>7, <1>8, <1>9, <1>10

(* A path is read part by part. *)
ReadBy(f, q) ==
  f[0] = <<>> /\ \A i \in 1 .. Len(q) : f[i] = f[i - 1] \o Json!SegmentsOf(q[i])

LEMMA SegmentsRun ==
  ASSUME NEW q \in Seq(Pieces)
  PROVE  \E f : ReadBy(f, q) /\ Json!Segments(q) = f[Len(q)] /\ f[Len(q)] \in Seq(Steps)
<1> DEFINE N == Len(q)
           X == Seq(Steps)
           up == [i \in 0 + 1 .. N |-> i - 1]
           turn == [i \in 0 + 1 .. N |-> [w \in X |-> w \o Json!SegmentsOf(q[i])]]
           Loop(f) == f = [i \in 0 .. N |-> IF i = 0 THEN <<>> ELSE f[i - 1] \o Json!SegmentsOf(q[i])]
<1>1. N \in Nat /\ 0 \in 0 .. N /\ 0 <= N /\ 0 + 1 = 1
  OBVIOUS
<1>2. up \in Ups(0, N)
  BY <1>1 DEF Ups
<1>3. <<>> \in X
  OBVIOUS
<1>4. turn \in [0 + 1 .. N -> [X -> X]]
  <2>1. ASSUME NEW i \in 0 + 1 .. N, NEW w \in X PROVE w \o Json!SegmentsOf(q[i]) \in X
    <3>1. q[i] \in Pieces
      BY <1>1
    <3> HIDE DEF X
    <3> QED BY <3>1, PartRead DEF X
  <2> HIDE DEF X, N
  <2> QED BY <2>1, Zenon
<1>5. PICK h : h \in [0 .. N -> X] /\ Grows(h, 0, N, <<>>, up, turn)
  <2> HIDE DEF X, up, turn, N
  <2> QED BY <1>1, <1>2, <1>3, <1>4, GrowsOne
<1>6. ASSUME NEW i \in 1 .. N PROVE i - 1 \in 0 .. N /\ h[i - 1] \in X /\ h[i] = h[i - 1] \o Json!SegmentsOf(q[i])
  <2>1. i - 1 \in 0 .. N /\ up[i] = i - 1 /\ i \in 0 + 1 .. N
    BY <1>1
  <2>2. h[i - 1] \in X /\ h[i] = turn[i][h[i - 1]]
    BY <1>5, <2>1 DEF Grows
  <2> HIDE DEF X, N, up
  <2> QED BY <2>1, <2>2, Zenon
<1>7. h[0] = <<>>
  BY <1>5 DEF Grows
<1>8. Loop(h)
  <2>1. ASSUME NEW i \in 0 .. N PROVE h[i] = IF i = 0 THEN <<>> ELSE h[i - 1] \o Json!SegmentsOf(q[i])
    <3>1. CASE i = 0
      BY <1>7, <3>1, Zenon
    <3>2. CASE i # 0
      <4>1. i \in 1 .. N
        BY <1>1, <3>2
      <4> QED BY <1>6, <3>2, <4>1, Zenon
    <3> QED BY <3>1, <3>2
  <2>2. h = [i \in 0 .. N |-> h[i]]
    BY <1>5
  <2> HIDE DEF N
  <2> QED BY <2>1, <2>2, Zenon
<1>9. Json!Segments(q) = (CHOOSE g : Loop(g))[N]
  BY Zenon DEF Json!Segments
<1>10. PICK g : g = (CHOOSE f : Loop(f)) /\ Loop(g)
  <2> HIDE DEF Loop
  <2> QED BY <1>8
<1>11. ReadBy(g, q)
  <2>1. \A i \in 1 .. N : i \in 0 .. N /\ i # 0
    BY <1>1
  <2>2. g[0] = <<>> /\ \A i \in 1 .. N : g[i] = g[i - 1] \o Json!SegmentsOf(q[i])
    <3> HIDE DEF N
    <3> QED BY <1>1, <1>10, <2>1, Zenon
  <2> QED BY <2>2 DEF ReadBy
<1>12. \A i \in 0 .. N : g[i] = h[i]
  <2> DEFINE S == {i \in 0 .. N : g[i] = h[i]}
  <2>1. 0 \in S
    BY <1>1, <1>7, <1>11 DEF ReadBy
  <2>2. ASSUME NEW i \in 0 + 1 .. N, up[i] \in S PROVE i \in S
    <3>1. i \in 1 .. N /\ up[i] = i - 1 /\ i \in 0 .. N
      BY <1>1
    <3>2. g[i - 1] = h[i - 1] /\ h[i] = h[i - 1] \o Json!SegmentsOf(q[i]) /\ g[i] = g[i - 1] \o Json!SegmentsOf(q[i])
      BY <1>6, <1>11, <2>2, <3>1, Zenon DEF ReadBy
    <3>3. g[i] = h[i]
      BY <3>2, Zenon
    <3> QED BY <3>1, <3>3
  <2> HIDE DEF S, up
  <2>3. 0 .. N \subseteq S
    BY <1>1, <1>2, <2>1, <2>2, Onward
  <2> QED BY <2>3 DEF S
<1>13. g[N] \in X
  <2>1. N \in 0 .. N
    BY <1>1
  <2> HIDE DEF X
  <2> QED BY <1>5, <1>12, <2>1
<1> HIDE DEF Loop, X
<1> QED BY <1>9, <1>10, <1>11, <1>13 DEF X

(* What comes at the end of a list is done last. *)
LEMMA SegmentsOneMore ==
  ASSUME NEW q \in Seq(Pieces), NEW x \in Pieces
  PROVE  LET w == Json!Segments(q) IN Json!Segments(Append(q, x)) = w \o Json!SegmentsOf(x)
<1> DEFINE N == Len(q)
           r == Append(q, x)
           up == [i \in 0 + 1 .. N |-> i - 1]
<1>1. N \in Nat /\ 0 \in 0 .. N /\ 0 <= N /\ 0 + 1 = 1
  OBVIOUS
<1>2. /\ r \in Seq(Pieces) /\ Len(r) = N + 1 /\ r[N + 1] = x
      /\ \A i \in 1 .. N : r[i] = q[i]
  OBVIOUS
<1>3. up \in Ups(0, N)
  BY <1>1 DEF Ups
<1>4. PICK f : ReadBy(f, q) /\ Json!Segments(q) = f[Len(q)]
  BY SegmentsRun
<1> HIDE DEF r
<1>5. PICK g : ReadBy(g, r) /\ Json!Segments(r) = g[Len(r)]
  BY <1>2, SegmentsRun
<1>6. f[N] = g[N]
  <2> DEFINE S == {i \in 0 .. N : g[i] = f[i]}
  <2>1. 0 \in S
    BY <1>1, <1>4, <1>5 DEF ReadBy
  <2>2. ASSUME NEW i \in 0 + 1 .. N, up[i] \in S PROVE i \in S
    <3>1. i \in 1 .. N /\ up[i] = i - 1 /\ i \in 0 .. N /\ i \in 1 .. Len(r)
      BY <1>1, <1>2
    <3>2. g[i - 1] = f[i - 1] /\ r[i] = q[i]
      BY <1>2, <2>2, <3>1
    <3>3. f[i] = f[i - 1] \o Json!SegmentsOf(q[i]) /\ g[i] = g[i - 1] \o Json!SegmentsOf(r[i])
      BY <1>4, <1>5, <3>1, Zenon DEF ReadBy
    <3>4. g[i] = f[i]
      BY <3>2, <3>3, Zenon
    <3> QED BY <3>1, <3>4
  <2> HIDE DEF S, up
  <2>3. 0 .. N \subseteq S
    BY <1>1, <1>3, <2>1, <2>2, Onward
  <2>4. N \in 0 .. N
    BY <1>1
  <2> QED BY <2>3, <2>4 DEF S
<1>7. Len(r) \in 1 .. Len(r) /\ Len(r) - 1 = N /\ r[Len(r)] = x
  BY <1>1, <1>2
<1>8. g[Len(r)] = g[Len(r) - 1] \o Json!SegmentsOf(r[Len(r)])
  BY <1>5, <1>7, Zenon DEF ReadBy
<1> QED BY <1>4, <1>5, <1>6, <1>7, <1>8, Zenon DEF r

LEMMA FollowIs ==
  ASSUME NEW d, NEW w, NEW s PROVE UNION {Json!Follow(d, m, s) : m \in w} \in SUBSET Json!Nodes(d)
BY DEF Json!Follow, Json!Children

(* A path read is followed key by key. *)
FollowedBy(d, f, q) ==
  f[0] = {1} /\ \A i \in 1 .. Len(q) : f[i] = UNION {Json!Follow(d, m, q[i]) : m \in f[i - 1]}

LEMMA FoundRun ==
  ASSUME NEW d, NEW n, IsDocument(d, n), NEW q \in Seq(Steps)
  PROVE  \E f : FollowedBy(d, f, q) /\ Json!Found(d, q) = f[Len(q)] /\ f[Len(q)] \in SUBSET Json!Nodes(d)
<1> DEFINE N == Len(q)
           X == SUBSET Json!Nodes(d)
           up == [i \in 0 + 1 .. N |-> i - 1]
           turn == [i \in 0 + 1 .. N |-> [w \in X |-> UNION {Json!Follow(d, m, q[i]) : m \in w}]]
           Loop(f) == f = [i \in 0 .. N |-> IF i = 0 THEN {1} ELSE UNION {Json!Follow(d, m, q[i]) : m \in f[i - 1]}]
<1>1. N \in Nat /\ 0 \in 0 .. N /\ 0 <= N /\ 0 + 1 = 1
  OBVIOUS
<1>2. up \in Ups(0, N)
  BY <1>1 DEF Ups
<1>3. {1} \in X
  BY ParentsUp DEF IsDocument
<1>4. turn \in [0 + 1 .. N -> [X -> X]]
  <2>1. ASSUME NEW i \in 0 + 1 .. N, NEW w \in X PROVE UNION {Json!Follow(d, m, q[i]) : m \in w} \in X
    <3>1. q[i] \in Steps
      BY <1>1
    <3> HIDE DEF X
    <3> QED BY <3>1, FollowIs DEF X
  <2> HIDE DEF X, N
  <2> QED BY <2>1, Zenon
<1>5. PICK h : h \in [0 .. N -> X] /\ Grows(h, 0, N, {1}, up, turn)
  <2> HIDE DEF X, up, turn, N
  <2> QED BY <1>1, <1>2, <1>3, <1>4, GrowsOne
<1>6. ASSUME NEW i \in 1 .. N PROVE i - 1 \in 0 .. N /\ h[i - 1] \in X /\ h[i] = UNION {Json!Follow(d, m, q[i]) : m \in h[i - 1]}
  <2>1. i - 1 \in 0 .. N /\ up[i] = i - 1 /\ i \in 0 + 1 .. N
    BY <1>1
  <2>2. h[i - 1] \in X /\ h[i] = turn[i][h[i - 1]]
    BY <1>5, <2>1 DEF Grows
  <2> HIDE DEF X, N, up
  <2> QED BY <2>1, <2>2, Zenon
<1>7. h[0] = {1}
  BY <1>5 DEF Grows
<1>8. Loop(h)
  <2>1. ASSUME NEW i \in 0 .. N PROVE h[i] = IF i = 0 THEN {1} ELSE UNION {Json!Follow(d, m, q[i]) : m \in h[i - 1]}
    <3>1. CASE i = 0
      BY <1>7, <3>1, Zenon
    <3>2. CASE i # 0
      <4>1. i \in 1 .. N
        BY <1>1, <3>2
      <4> QED BY <1>6, <3>2, <4>1, Zenon
    <3> QED BY <3>1, <3>2
  <2>2. h = [i \in 0 .. N |-> h[i]]
    BY <1>5
  <2> HIDE DEF N
  <2> QED BY <2>1, <2>2, Zenon
<1>9. Json!Found(d, q) = (CHOOSE g : Loop(g))[N]
  BY Zenon DEF Json!Found
<1>10. PICK g : g = (CHOOSE f : Loop(f)) /\ Loop(g)
  <2> HIDE DEF Loop
  <2> QED BY <1>8
<1>11. FollowedBy(d, g, q)
  <2>1. \A i \in 1 .. N : i \in 0 .. N /\ i # 0
    BY <1>1
  <2>2. g[0] = {1} /\ \A i \in 1 .. N : g[i] = UNION {Json!Follow(d, m, q[i]) : m \in g[i - 1]}
    <3> HIDE DEF N
    <3> QED BY <1>1, <1>10, <2>1, Zenon
  <2> QED BY <2>2 DEF FollowedBy
<1>12. \A i \in 0 .. N : g[i] = h[i]
  <2> DEFINE S == {i \in 0 .. N : g[i] = h[i]}
  <2>1. 0 \in S
    BY <1>1, <1>7, <1>11 DEF FollowedBy
  <2>2. ASSUME NEW i \in 0 + 1 .. N, up[i] \in S PROVE i \in S
    <3>1. i \in 1 .. N /\ up[i] = i - 1 /\ i \in 0 .. N
      BY <1>1
    <3>2. g[i - 1] = h[i - 1] /\ h[i] = UNION {Json!Follow(d, m, q[i]) : m \in h[i - 1]} /\ g[i] = UNION {Json!Follow(d, m, q[i]) : m \in g[i - 1]}
      BY <1>6, <1>11, <2>2, <3>1, Zenon DEF FollowedBy
    <3>3. g[i] = h[i]
      BY <3>2, Zenon
    <3> QED BY <3>1, <3>3
  <2> HIDE DEF S, up
  <2>3. 0 .. N \subseteq S
    BY <1>1, <1>2, <2>1, <2>2, Onward
  <2> QED BY <2>3 DEF S
<1>13. g[N] \in X
  <2>1. N \in 0 .. N
    BY <1>1
  <2> HIDE DEF X
  <2> QED BY <1>5, <1>12, <2>1
<1> HIDE DEF Loop, X
<1> QED BY <1>9, <1>10, <1>11, <1>13 DEF X

(* So is what is followed last. *)
LEMMA FoundOneMore ==
  ASSUME NEW d, NEW n, IsDocument(d, n), NEW q \in Seq(Steps), NEW x \in Steps
  PROVE  LET w == Json!Found(d, q) IN Json!Found(d, Append(q, x)) = UNION {Json!Follow(d, m, x) : m \in w}
<1> DEFINE N == Len(q)
           r == Append(q, x)
           up == [i \in 0 + 1 .. N |-> i - 1]
<1>1. N \in Nat /\ 0 \in 0 .. N /\ 0 <= N /\ 0 + 1 = 1
  OBVIOUS
<1>2. /\ r \in Seq(Steps) /\ Len(r) = N + 1 /\ r[N + 1] = x
      /\ \A i \in 1 .. N : r[i] = q[i]
  OBVIOUS
<1>3. up \in Ups(0, N)
  BY <1>1 DEF Ups
<1>4. PICK f : FollowedBy(d, f, q) /\ Json!Found(d, q) = f[Len(q)]
  BY FoundRun
<1> HIDE DEF r
<1>5. PICK g : FollowedBy(d, g, r) /\ Json!Found(d, r) = g[Len(r)]
  BY <1>2, FoundRun
<1>6. f[N] = g[N]
  <2> DEFINE S == {i \in 0 .. N : g[i] = f[i]}
  <2>1. 0 \in S
    BY <1>1, <1>4, <1>5 DEF FollowedBy
  <2>2. ASSUME NEW i \in 0 + 1 .. N, up[i] \in S PROVE i \in S
    <3>1. i \in 1 .. N /\ up[i] = i - 1 /\ i \in 0 .. N /\ i \in 1 .. Len(r)
      BY <1>1, <1>2
    <3>2. g[i - 1] = f[i - 1] /\ r[i] = q[i]
      BY <1>2, <2>2, <3>1
    <3>3. f[i] = UNION {Json!Follow(d, m, q[i]) : m \in f[i - 1]} /\ g[i] = UNION {Json!Follow(d, m, r[i]) : m \in g[i - 1]}
      BY <1>4, <1>5, <3>1, Zenon DEF FollowedBy
    <3>4. g[i] = f[i]
      BY <3>2, <3>3, Zenon
    <3> QED BY <3>1, <3>4
  <2> HIDE DEF S, up
  <2>3. 0 .. N \subseteq S
    BY <1>1, <1>3, <2>1, <2>2, Onward
  <2>4. N \in 0 .. N
    BY <1>1
  <2> QED BY <2>3, <2>4 DEF S
<1>7. Len(r) \in 1 .. Len(r) /\ Len(r) - 1 = N /\ r[Len(r)] = x
  BY <1>1, <1>2
<1>8. g[Len(r)] = UNION {Json!Follow(d, m, r[Len(r)]) : m \in g[Len(r) - 1]}
  BY <1>5, <1>7, Zenon DEF FollowedBy
<1> QED BY <1>4, <1>5, <1>6, <1>7, <1>8, Zenon DEF r

LEMMA NothingRead ==
  ASSUME NEW d, NEW n, IsDocument(d, n)
  PROVE  Json!Segments(<<>>) = <<>> /\ Json!Found(d, <<>>) = {1}
<1> DEFINE q == <<>>
<1>1. q \in Seq(Pieces) /\ q \in Seq(Steps) /\ Len(q) = 0
  OBVIOUS
<1> HIDE DEF q
<1>2. Json!Segments(q) = <<>>
  <2>1. PICK f : ReadBy(f, q) /\ Json!Segments(q) = f[Len(q)]
    BY <1>1, SegmentsRun
  <2> QED BY <1>1, <2>1 DEF ReadBy
<1>3. Json!Found(d, q) = {1}
  <2>1. PICK f : FollowedBy(d, f, q) /\ Json!Found(d, q) = f[Len(q)]
    BY <1>1, FoundRun
  <2> QED BY <1>1, <2>1 DEF FollowedBy
<1> QED BY <1>2, <1>3 DEF q

(* A step leads to one child. *)
LEMMA FollowsTo ==
  ASSUME NEW d, NEW n, IsDocument(d, n), NEW c \in 2 .. n
  PROVE  /\ Json!Follow(d, d.parent[c], StepTo(d, c)) = {c}
         /\ Json!InArray(d, c) =>
              Json!Follow(d, d.parent[c], Json!Text(Digits[Json!Index(d, c) + 1])) = {c}
<1> DEFINE p == d.parent[c]
<1>1. Json!Children(d, p) = {b \in 2 .. n : d.parent[b] = p}
  <2>1. n \in Nat
    BY ParentsUp
  <2> QED BY <2>1 DEF Json!Children, IsDocument
<1>2. \A b \in Json!Children(d, p) : Json!InArray(d, b) = Json!InArray(d, c)
  BY <1>1 DEF Json!InArray
<1>3. c \in Json!Children(d, p)
  BY <1>1
<1>4. ASSUME NEW b \in Json!Children(d, p), Json!Index(d, b) = Json!Index(d, c) PROVE b = c
  BY <1>1, <1>4, IndexIs
<1>5. ASSUME NEW b \in Json!Children(d, p), ~Json!InArray(d, c), d.key[b] = d.key[c] PROVE b = c
  <2>1. Json!WellFormed(d) /\ b \in Json!Nodes(d) \ {1} /\ c \in Json!Nodes(d) \ {1}
    BY <1>1, <1>3 DEF IsDocument, Json!Children
  <2> QED BY <1>1, <1>2, <1>5, <2>1, Zenon DEF Json!WellFormed
<1>6. ASSUME NEW b \in Json!Children(d, p),
             Digits[Json!Index(d, b) + 1] = Digits[Json!Index(d, c) + 1]
      PROVE  b = c
  <2>1. /\ Json!Index(d, b) + 1 \in DOMAIN Digits /\ Json!Index(d, b) \in Nat
        /\ Json!Index(d, c) + 1 \in DOMAIN Digits /\ Json!Index(d, c) \in Nat
    BY <1>1, IndexIs
  <2>2. Json!Index(d, b) + 1 = Json!Index(d, c) + 1
    BY <1>6, <2>1, ViewsAssumption, Zenon DEF Json!JsonAssumption
  <2>3. Json!Index(d, b) = Json!Index(d, c)
    BY <2>1, <2>2
  <2> QED BY <1>4, <2>3
<1>7. \A i : Json!Number(i).kind = "number" /\ Json!Number(i).number = i
  BY DEF Json!Number
<1>8. \A t : Json!Text(t).kind # "number" /\ Json!Text(t).text = t
  BY DEF Json!Text
<1>9. CASE Json!InArray(d, c)
  <2>1. Json!Follow(d, p, StepTo(d, c)) = {b \in Json!Children(d, p) : Json!Index(d, b) = Json!Index(d, c)}
    BY <1>2, <1>7, <1>9, Zenon DEF Json!Follow, StepTo
  <2> DEFINE t == Digits[Json!Index(d, c) + 1]
  <2>2. Json!Follow(d, p, Json!Text(t)) = {b \in Json!Children(d, p) : Digits[Json!Index(d, b) + 1] = t}
    <3> HIDE DEF t
    <3> QED BY <1>2, <1>8, <1>9, Zenon DEF Json!Follow
  <2>3. {b \in Json!Children(d, p) : Json!Index(d, b) = Json!Index(d, c)} = {c}
    BY <1>3, <1>4
  <2>4. {b \in Json!Children(d, p) : Digits[Json!Index(d, b) + 1] = t} = {c}
    BY <1>3, <1>6
  <2> QED BY <2>1, <2>2, <2>3, <2>4
<1>10. CASE ~Json!InArray(d, c)
  <2>1. Json!Follow(d, p, StepTo(d, c)) = {b \in Json!Children(d, p) : d.key[b] = d.key[c]}
    BY <1>2, <1>8, <1>10, Zenon DEF Json!Follow, StepTo
  <2>2. {b \in Json!Children(d, p) : d.key[b] = d.key[c]} = {c}
    BY <1>3, <1>5, <1>10
  <2> QED BY <1>10, <2>1, <2>2
<1> QED BY <1>9, <1>10

(* A name alone is read as a text, and an index after a word as a number. *)
LEMMA NameRead ==
  ASSUME NEW k \in Json!Words \cup Odd PROVE Json!SegmentsOf(Json!Part(k)) = <<Json!Text(k)>>
<1> DEFINE x == Json!Part(k)
           e == Json!Text(k)
<1>1. x.name = k /\ x.indices = <<>>
  BY DEF Json!Part
<1>2. k # Json!Bare
  BY ViewsAssumption DEF Json!JsonAssumption
<1> HIDE DEF x, e
<1>3. CASE k \in Json!Words
  <2>1. Json!SegmentsOf(x) = <<e>> \o [i \in DOMAIN x.indices |-> Json!Number(x.indices[i])]
    BY <1>1, <1>3, Zenon DEF Json!SegmentsOf, e
  <2>2. [i \in DOMAIN x.indices |-> Json!Number(x.indices[i])] = <<>>
    BY <1>1
  <2>3. <<e>> \o <<>> = <<e>>
    OBVIOUS
  <2> QED BY <2>1, <2>2, <2>3, Zenon DEF e, x
<1>4. CASE k \notin Json!Words
  <2>1. Json!SegmentsOf(x) = <<e>>
    BY <1>1, <1>2, <1>4, Zenon DEF Json!SegmentsOf, e
  <2> QED BY <2>1 DEF e, x
<1> QED BY <1>3, <1>4

LEMMA IndexRead ==
  ASSUME NEW x \in Pieces, x.name \in Json!Words, NEW i \in Nat, NEW y \in Pieces,
         y.name = x.name, y.indices = Append(x.indices, i)
  PROVE  Json!SegmentsOf(y) = Append(Json!SegmentsOf(x), Json!Number(i))
<1> DEFINE ns(z) == [j \in DOMAIN z |-> Json!Number(z[j])]
           e == Json!Text(x.name)
<1>1. Json!SegmentsOf(x) = <<e>> \o ns(x.indices) /\ Json!SegmentsOf(y) = <<e>> \o ns(y.indices)
  BY Zenon DEF Json!SegmentsOf
<1> HIDE DEF e
<1>2. x.indices \in Seq(Nat)
  BY DEF Pieces
<1>3. ASSUME NEW z \in Seq(Nat)
      PROVE  /\ ns(z) \in Seq(Steps) /\ Len(ns(z)) = Len(z)
             /\ ns(Append(z, i)) = Append(ns(z), Json!Number(i))
  <2>1. \A j \in Nat : Json!Number(j) \in Steps
    BY DEF Steps, Json!Number
  <2>2. DOMAIN z = 1 .. Len(z) /\ Len(z) \in Nat /\ \A j \in 1 .. Len(z) : z[j] \in Nat
    OBVIOUS
  <2>3. ns(z) \in Seq(Steps) /\ Len(ns(z)) = Len(z)
    <3>1. \A j \in 1 .. Len(z) : Json!Number(z[j]) \in Steps
      BY <2>1, <2>2
    <3>2. [j \in 1 .. Len(z) |-> Json!Number(z[j])] \in Seq(Steps)
          /\ Len([j \in 1 .. Len(z) |-> Json!Number(z[j])]) = Len(z)
      BY <2>2, <3>1
    <3> QED BY <2>2, <3>2
  <2>4. ns(Append(z, i)) = Append(ns(z), Json!Number(i))
    <3> DEFINE w == Append(z, i)
    <3>1. DOMAIN w = 1 .. Len(z) + 1 /\ w[Len(z) + 1] = i /\ \A j \in 1 .. Len(z) : w[j] = z[j]
      OBVIOUS
    <3> DEFINE m == Json!Number(i)
               v == Append(ns(z), m)
    <3>2. \A j \in 1 .. Len(z) : ns(z)[j] = Json!Number(z[j])
      BY <2>2
    <3> HIDE DEF ns, m, w
    <3>3. v = [j \in 1 .. Len(z) + 1 |-> IF j = Len(z) + 1 THEN m ELSE ns(z)[j]]
      <4>1. m \in Steps
        BY <2>1 DEF m
      <4>2. v \in Seq(Steps) /\ Len(v) = Len(z) + 1 /\ v[Len(z) + 1] = m
            /\ \A j \in 1 .. Len(z) : v[j] = ns(z)[j]
        BY <2>2, <2>3, <4>1
      <4> HIDE DEF v
      <4>3. v = [j \in 1 .. Len(z) + 1 |-> v[j]]
        BY <4>2
      <4>4. \A j \in 1 .. Len(z) + 1 : v[j] = IF j = Len(z) + 1 THEN m ELSE ns(z)[j]
        <5>1. ASSUME NEW j \in 1 .. Len(z) + 1, j # Len(z) + 1 PROVE j \in 1 .. Len(z)
          BY <2>2, <5>1
        <5> QED BY <4>2, <5>1
      <4> QED BY <4>3, <4>4, Zenon
    <3>4. \A j \in 1 .. Len(z) + 1 : Json!Number(w[j]) = IF j = Len(z) + 1 THEN m ELSE ns(z)[j]
      <4>1. ASSUME NEW j \in 1 .. Len(z) + 1, j # Len(z) + 1 PROVE j \in 1 .. Len(z)
        BY <2>2, <4>1
      <4> QED BY <3>1, <3>2, <4>1, Zenon DEF m
    <3>5. ns(w) = [j \in 1 .. Len(z) + 1 |-> Json!Number(w[j])]
      BY <3>1 DEF ns
    <3> HIDE DEF v
    <3> QED BY <3>3, <3>4, <3>5, Zenon DEF v, w, m
  <2> QED BY <2>3, <2>4
<1>4. ns(y.indices) = Append(ns(x.indices), Json!Number(i)) /\ ns(x.indices) \in Seq(Steps)
  BY <1>2, <1>3
<1> DEFINE t == ns(x.indices)
           m == Json!Number(i)
<1>5. e \in Steps /\ m \in Steps
  <2>1. x.name \in STRING
    BY DEF Pieces
  <2> QED BY <2>1 DEF Steps, Json!Number, Json!Text, e
<1> HIDE DEF ns, t, m
<1>6. t \in Seq(Steps) => <<e>> \o Append(t, m) = Append(<<e>> \o t, m)
  BY <1>5
<1> QED BY <1>1, <1>4, <1>6 DEF t, m

(* What a path is read as, and where it leads. *)

Led(d, n, c) ==
  /\ Json!Found(d, Json!Segments(Json!PathOf(d)[c])) = {c}
  /\ d.kind[1] # "array" => Json!Segments(Json!PathOf(d)[c]) = Json!Way(d)[c]

\* The last part of a path: a word, or the key that comes last on the way.
Last(d, c, front, x) ==
  /\ front \in Seq(Pieces) /\ x \in Pieces
  /\ Json!PathOf(d)[c] = Append(front, x)
  /\ \/ x.name \in Json!Words
     \/ x.name \in Odd /\ x.indices = <<>>
        /\ Json!Way(d)[c][Len(Json!Way(d)[c])].text = x.name

(* A node whose parent is lost is lost, and so is one on a key with a dot. *)
LEMMA LostIs ==
  ASSUME NEW d, NEW n, IsDocument(d, n), NEW c \in 2 .. n, c \notin Json!Lost(d)
  PROVE  /\ d.parent[c] \in 1 .. n /\ d.parent[c] \notin Json!Lost(d)
         /\ ~Json!InArray(d, c) => d.key[c] \in Json!Words \cup Odd
         /\ Json!Way(d)[c][Len(Json!Way(d)[c])] = StepTo(d, c)
         /\ Json!InArray(d, c) /\ d.parent[c] # 1 =>
              LET W == Json!Way(d)[d.parent[c]] IN W[Len(W)].text \notin Odd
<1> DEFINE p == d.parent[c]
           e == StepTo(d, c)
           W == Json!Way(d)[p]
           V == Json!Way(d)[c]
           Bad(w, i) == \/ w[i].text \in Dotted
                        \/ w[i].kind = "number" /\ i > 1 /\ w[i - 1].text \in Odd
<1>1. n \in Nat /\ p \in 1 .. n /\ Json!Nodes(d) = 1 .. n /\ c \in 1 .. n
  BY ParentsUp DEF IsDocument
<1>2. W \in Seq(Steps) /\ V = Append(W, e) /\ e \in Steps
  BY <1>1, WayIs, StepIs
<1>3. \A m \in 1 .. n : m \in Json!Lost(d) <=>
        \E i \in DOMAIN Json!Way(d)[m] : Bad(Json!Way(d)[m], i)
  BY <1>1, Zenon DEF Json!Lost
<1>4. p # 1 => W # <<>>
  <2> SUFFICES ASSUME p # 1 PROVE W # <<>>
    OBVIOUS
  <2>1. p \in 2 .. n
    BY <1>1
  <2> HIDE DEF p
  <2>2. d.parent[p] \in 1 .. n
    BY <2>1 DEF IsDocument
  <2>3. Json!Way(d)[p] = Append(Json!Way(d)[d.parent[p]], StepTo(d, p)) /\ Json!Way(d)[d.parent[p]] \in Seq(Steps)
    BY <2>1, <2>2, WayIs
  <2> QED BY <2>3
<1> HIDE DEF e, W, V
<1>5. /\ V[Len(V)] = e /\ Len(V) \in DOMAIN V /\ Len(V) = Len(W) + 1 /\ Len(W) \in Nat
      /\ DOMAIN W = 1 .. Len(W) /\ DOMAIN V = 1 .. Len(W) + 1
      /\ \A i \in 1 .. Len(W) : V[i] = W[i]
  BY <1>2
<1>6. \A i \in DOMAIN V : ~Bad(V, i)
  BY <1>1, <1>3 DEF V
<1>7. p \notin Json!Lost(d)
  <2>1. ASSUME NEW i \in DOMAIN W, Bad(W, i) PROVE FALSE
    <3>1. i \in DOMAIN V /\ i \in 1 .. Len(W) /\ (i > 1 => i - 1 \in 1 .. Len(W))
      BY <1>5
    <3>2. Bad(V, i)
      BY <1>5, <2>1, <3>1
    <3> QED BY <1>6, <3>1, <3>2
  <2> HIDE DEF Bad
  <2> QED BY <1>1, <1>3, <2>1 DEF W
<1>8. ASSUME ~Json!InArray(d, c) PROVE d.key[c] \in Json!Words \cup Odd
  <2>1. e.text = d.key[c]
    BY <1>8 DEF e, StepTo, Json!Text
  <2>2. d.key[c] \notin Dotted
    BY <1>5, <1>6, <2>1
  <2> QED BY <2>2 DEF IsDocument, Json!Keys, Json!Words
<1>9. ASSUME Json!InArray(d, c), p # 1 PROVE W[Len(W)].text \notin Odd
  <2>1. e.kind = "number"
    BY <1>9 DEF e, StepTo, Json!Number
  <2>2. Len(W) > 0
    BY <1>2, <1>4, <1>9
  <2>3. Len(V) > 1 /\ Len(V) - 1 = Len(W) /\ V[Len(V) - 1] = W[Len(W)]
    BY <1>5, <2>2
  <2> QED BY <1>5, <1>6, <2>1, <2>3
<1> QED BY <1>1, <1>5, <1>7, <1>8, <1>9 DEF e, W, V

(* The last part of the path of a node, and how much more is read of it. *)
LEMMA OneStep ==
  ASSUME NEW d, NEW n, IsDocument(d, n), NEW c \in 2 .. n, c \notin Json!Lost(d),
         d.parent[c] # 1 => \E front, x : Last(d, d.parent[c], front, x)
  PROVE  /\ \E front, x : Last(d, c, front, x)
         /\ \E s \in Steps :
              /\ Json!Segments(Json!PathOf(d)[c]) = Append(Json!Segments(Json!PathOf(d)[d.parent[c]]), s)
              /\ Json!Follow(d, d.parent[c], s) = {c}
              /\ d.kind[1] # "array" => s = StepTo(d, c)
<1> DEFINE p == d.parent[c]
           P == Json!PathOf(d)
           ix == Json!Index(d, c)
<1>1. p \in 1 .. n /\ p \notin Json!Lost(d) /\ n \in Nat
  BY LostIs, ParentsUp
<1>2. /\ P[1] = <<>> /\ P[p] \in Seq(Pieces)
      /\ P[c] = Json!BuildPath(d, P[p], c)
  BY <1>1, PathIs
<1>3. ix \in Nat /\ ix + 1 \in DOMAIN Digits
  BY IndexIs
<1>4. StepTo(d, c) \in Steps /\ Json!Follow(d, p, StepTo(d, c)) = {c}
  BY StepIs, FollowsTo
<1>5. Json!Words \cup Odd \subseteq STRING
  BY ViewsAssumption DEF Json!JsonAssumption
<1>6. ASSUME NEW k \in Json!Words \cup Odd, P[c] = Append(P[p], Json!Part(k))
      PROVE  /\ Json!Part(k) \in Pieces /\ Json!Part(k).name = k /\ Json!Part(k).indices = <<>>
             /\ Json!Text(k) \in Steps /\ Json!Text(k).text = k
             /\ Json!Segments(P[c]) = Append(Json!Segments(P[p]), Json!Text(k))
  <2>1. k \in STRING
    BY <1>5
  <2>2. Json!Part(k) \in Pieces /\ Json!Part(k).name = k /\ Json!Part(k).indices = <<>>
    BY <2>1 DEF Json!Part, Pieces
  <2>3. Json!Text(k) \in Steps /\ Json!Text(k).text = k
    BY <2>1 DEF Json!Text, Steps
  <2>4. Json!Segments(P[p]) \in Seq(Steps)
    BY <1>2, SegmentsRun
  <2>5. Json!Segments(P[c]) = Json!Segments(P[p]) \o <<Json!Text(k)>>
    <3> HIDE DEF P, p
    <3> QED BY <1>2, <1>6, <2>2, SegmentsOneMore, NameRead
  <2>6. ASSUME NEW w \in Seq(Steps), NEW e \in Steps PROVE w \o <<e>> = Append(w, e)
    OBVIOUS
  <2> QED BY <2>2, <2>3, <2>4, <2>5, <2>6
<1>7. CASE ~Json!InArray(d, c)
  <2> DEFINE k == d.key[c]
  <2>1. k \in Json!Words \cup Odd
    BY <1>7, LostIs
  <2>2. P[c] = Append(P[p], Json!Part(k))
    <3>1. k \notin Dotted
      BY <2>1, ViewsAssumption DEF Json!JsonAssumption
    <3>2. P[c] = P[p] \o <<Json!Part(k)>>
      BY <1>2, <1>7, <3>1, Zenon DEF Json!BuildPath, Json!AsParts
    <3>3. Json!Part(k) \in Pieces
      BY <1>5, <2>1 DEF Json!Part, Pieces
    <3>4. ASSUME NEW w \in Seq(Pieces), NEW e \in Pieces PROVE w \o <<e>> = Append(w, e)
      OBVIOUS
    <3> QED BY <1>2, <3>2, <3>3, <3>4
  <2>3. StepTo(d, c) = Json!Text(k)
    BY <1>7 DEF StepTo
  <2>4. Json!Way(d)[c][Len(Json!Way(d)[c])] = StepTo(d, c)
    BY LostIs
  <2>5. Last(d, c, P[p], Json!Part(k))
    <3>1. /\ Json!Part(k) \in Pieces /\ Json!Part(k).name = k /\ Json!Part(k).indices = <<>>
          /\ Json!Way(d)[c][Len(Json!Way(d)[c])].text = k
      BY <1>6, <2>1, <2>2, <2>3, <2>4
    <3> HIDE DEF k, p
    <3> QED BY <1>2, <2>1, <2>2, <3>1, Zenon DEF Last
  <2>6. Json!Segments(P[c]) = Append(Json!Segments(P[p]), StepTo(d, c))
    BY <1>6, <2>1, <2>2, <2>3
  <2> HIDE DEF P, p, k
  <2>7. \E front, x : Last(d, c, front, x)
    BY <2>5
  <2>8. \E s \in Steps : /\ Json!Segments(P[c]) = Append(Json!Segments(P[p]), s)
                         /\ Json!Follow(d, p, s) = {c}
                         /\ d.kind[1] # "array" => s = StepTo(d, c)
    BY <1>4, <2>6
  <2> QED BY <2>7, <2>8 DEF P, p
<1>8. CASE Json!InArray(d, c) /\ p = 1
  <2> DEFINE k == Digits[ix + 1]
  <2>1. k \in Json!Words
    BY <1>3 DEF Json!Words
  <2>2. P[c] = Append(P[p], Json!Part(k))
    <3>1. P[c] = <<Json!Part(k)>> /\ P[p] = <<>>
      BY <1>2, <1>8 DEF Json!BuildPath
    <3>2. Json!Part(k) \in Pieces
      BY <1>5, <2>1 DEF Json!Part, Pieces
    <3>3. ASSUME NEW e \in Pieces PROVE <<e>> = Append(<<>>, e)
      OBVIOUS
    <3> QED BY <3>1, <3>2, <3>3
  <2>3. Json!Follow(d, p, Json!Text(k)) = {c}
    BY <1>8, FollowsTo
  <2>4. d.kind[1] = "array"
    BY <1>8 DEF Json!InArray
  <2>5. Last(d, c, P[p], Json!Part(k))
    <3>1. Json!Part(k) \in Pieces /\ Json!Part(k).name = k
      BY <1>6, <2>1, <2>2
    <3> HIDE DEF k, p
    <3> QED BY <1>2, <2>1, <2>2, <3>1, Zenon DEF Last
  <2>6. Json!Segments(P[c]) = Append(Json!Segments(P[p]), Json!Text(k)) /\ Json!Text(k) \in Steps
    BY <1>6, <2>1, <2>2
  <2> HIDE DEF P, p, k
  <2>7. \E front, x : Last(d, c, front, x)
    BY <2>5
  <2>8. \E s \in Steps : /\ Json!Segments(P[c]) = Append(Json!Segments(P[p]), s)
                         /\ Json!Follow(d, p, s) = {c}
                         /\ d.kind[1] # "array" => s = StepTo(d, c)
    BY <2>3, <2>4, <2>6
  <2> QED BY <2>7, <2>8 DEF P, p
<1>9. CASE Json!InArray(d, c) /\ p # 1
  <2>1. PICK front, x : Last(d, p, front, x)
    BY <1>9
  <2> DEFINE y == [x EXCEPT !.indices = Append(x.indices, ix)]
  <2>2. front \in Seq(Pieces) /\ x \in Pieces /\ P[p] = Append(front, x) /\ x.name \in Json!Words
    <3>1. x.name \notin Odd \/ Json!Way(d)[p][Len(Json!Way(d)[p])].text # x.name
      BY <1>9, LostIs
    <3> HIDE DEF P, p
    <3> QED BY <2>1, <3>1, Zenon DEF Last, P
  <2>3. y \in Pieces /\ y.name = x.name /\ y.indices = Append(x.indices, ix)
    BY <1>3, <2>2, IndexedPiece
  <2>4. P[c] = Append(front, y)
    <3>1. P[p] # <<>>
      BY <2>2
    <3>2. P[c] = [P[p] EXCEPT ![Len(P[p])].indices = Append(@, ix)]
      BY <1>2, <1>9, <3>1, Zenon DEF Json!BuildPath, Json!WithIndex
    <3> DEFINE q == Append(front, x)
    <3>3. q \in Seq(Pieces) /\ q[Len(q)] = x /\ Len(q) = Len(front) + 1 /\ Len(front) \in Nat
      BY <2>2
    <3>4. P[c] = [q EXCEPT ![Len(q)] = y]
      <4>1. P[c] = [q EXCEPT ![Len(q)].indices = Append(@, ix)]
        BY <2>2, <3>2
      <4> HIDE DEF q, P
      <4> QED BY <3>3, <4>1
    <3> HIDE DEF y, P
    <3>5. [q EXCEPT ![Len(q)] = y] = Append(front, y)
      <4> DEFINE r == Append(front, y)
                 t == [q EXCEPT ![Len(q)] = y]
                 N == Len(front) + 1
      <4>1. \A j \in 1 .. Len(front) : q[j] = front[j]
        BY <2>2
      <4>2. r \in Seq(Pieces) /\ Len(r) = N /\ r[N] = y /\ \A j \in 1 .. Len(front) : r[j] = front[j]
        BY <2>2, <2>3
      <4> HIDE DEF q, r
      <4>3. t \in Seq(Pieces) /\ Len(t) = N /\ \A j \in 1 .. N : t[j] = IF j = Len(q) THEN y ELSE q[j]
        <5>1. Len(q) \in 1 .. Len(q)
          BY <3>3
        <5> QED BY <2>3, <3>3, <5>1, ExceptSeq
      <4> HIDE DEF t
      <4>4. \A j \in 1 .. N : t[j] = r[j]
        <5>1. ASSUME NEW j \in 1 .. N, j # N PROVE j \in 1 .. Len(front)
          BY <3>3, <5>1
        <5>2. N \in 1 .. N /\ Len(q) = N
          BY <3>3
        <5> QED BY <4>1, <4>2, <4>3, <5>1, <5>2
      <4>5. t = r
        BY <4>2, <4>3, <4>4
      <4> QED BY <4>5 DEF t, r
    <3> QED BY <3>4, <3>5
  <2> HIDE DEF y
  <2>5. Json!Segments(P[c]) = Append(Json!Segments(P[p]), StepTo(d, c))
    <3> DEFINE w == Json!Segments(front)
               e == Json!SegmentsOf(x)
               m == Json!Number(ix)
    <3>1. w \in Seq(Steps) /\ e \in Seq(Steps)
      BY <2>2, SegmentsRun, PartRead
    <3>2. Json!Segments(P[p]) = w \o e
      BY <2>2, SegmentsOneMore
    <3>3. Json!Segments(P[c]) = w \o Append(e, m)
      <4>1. Json!Segments(P[c]) = w \o Json!SegmentsOf(y)
        BY <2>2, <2>3, <2>4, SegmentsOneMore
      <4>2. Json!SegmentsOf(y) = Append(e, m)
        BY <1>3, <2>2, <2>3, IndexRead
      <4> QED BY <4>1, <4>2
    <3>4. StepTo(d, c) = m /\ m \in Steps
      BY <1>4, <1>9 DEF StepTo
    <3> HIDE DEF w, e, m
    <3>5. w \o Append(e, m) = Append(w \o e, m)
      BY <3>1, <3>4
    <3> QED BY <3>2, <3>3, <3>4, <3>5
  <2>6. Last(d, c, front, y)
    <3> HIDE DEF P
    <3> QED BY <2>2, <2>3, <2>4, Zenon DEF Last, P
  <2> HIDE DEF P, p
  <2>7. \E f, z : Last(d, c, f, z)
    BY <2>6
  <2>8. \E s \in Steps : /\ Json!Segments(P[c]) = Append(Json!Segments(P[p]), s)
                         /\ Json!Follow(d, p, s) = {c}
                         /\ d.kind[1] # "array" => s = StepTo(d, c)
    BY <1>4, <2>5
  <2> QED BY <2>7, <2>8 DEF P, p
<1> QED BY <1>7, <1>8, <1>9

LEMMA AllLed ==
  ASSUME NEW d, NEW n, IsDocument(d, n), NEW a \in 1 .. n, a \notin Json!Lost(d)
  PROVE  Led(d, n, a)
<1> DEFINE up == [c \in 1 + 1 .. n |-> d.parent[c]]
           S == {c \in 1 .. n : c \notin Json!Lost(d) =>
                   Led(d, n, c) /\ (c # 1 => \E front, x : Last(d, c, front, x))}
<1>1. n \in Nat /\ 1 <= n /\ up \in Ups(1, n) /\ 2 = 1 + 1 /\ 1 \in 1 .. n
  BY ParentsUp
<1>2. 1 \in S
  <2>1. Json!PathOf(d)[1] = <<>> /\ Json!Way(d)[1] = <<>>
    BY PathIs, WayIs
  <2>2. Led(d, n, 1)
    BY <2>1, NothingRead DEF Led
  <2> QED BY <1>1, <2>2
<1>3. ASSUME NEW c \in 1 + 1 .. n, up[c] \in S PROVE c \in S
  <2> DEFINE p == d.parent[c]
             w == Json!Segments(Json!PathOf(d)[p])
             v == Json!Segments(Json!PathOf(d)[c])
  <2>1. c \in 2 .. n /\ c \in 1 .. n /\ up[c] = p
    BY <1>1
  <2> SUFFICES ASSUME c \notin Json!Lost(d)
               PROVE  Led(d, n, c) /\ \E front, x : Last(d, c, front, x)
    BY <2>1
  <2>2. p \in 1 .. n /\ p \notin Json!Lost(d)
    BY <2>1, LostIs
  <2>3. Led(d, n, p) /\ (p # 1 => \E front, x : Last(d, p, front, x))
    <3> HIDE DEF p, up
    <3> QED BY <1>3, <2>1, <2>2
  <2>4. \E front, x : Last(d, c, front, x)
    BY <2>1, <2>3, OneStep
  <2>5. PICK s \in Steps : /\ v = Append(w, s)
                           /\ Json!Follow(d, p, s) = {c}
                           /\ d.kind[1] # "array" => s = StepTo(d, c)
    BY <2>1, <2>3, OneStep
  <2>6. w \in Seq(Steps)
    <3>1. Json!PathOf(d)[p] \in Seq(Pieces)
      BY <2>2, PathIs
    <3> QED BY <3>1, SegmentsRun
  <2>7. Json!Found(d, v) = {c}
    <3>1. Json!Found(d, w) = {p}
      BY <2>3 DEF Led
    <3> HIDE DEF w, v, p
    <3>2. Json!Found(d, v) = UNION {Json!Follow(d, m, s) : m \in {p}}
      BY <2>5, <2>6, <3>1, FoundOneMore
    <3> QED BY <2>5, <3>2
  <2>8. d.kind[1] # "array" => v = Json!Way(d)[c]
    BY <2>1, <2>3, <2>5, WayIs DEF Led
  <2> QED BY <2>4, <2>7, <2>8 DEF Led
<1> HIDE DEF S, up
<1>4. 1 .. n \subseteq S
  BY <1>1, <1>2, <1>3, Onward
<1> QED BY <1>4 DEF S

(* The document on display, and what of it is collapsed. *)

Closed(d, c) ==
  d.kind[1] # "array" => c \subseteq {Json!PathOf(d)[n] : n \in Json!Containers(d)}

JsonInv == (\E n \in 1 .. MaxNodes : doc \in Json!Documents(n)) /\ Closed(doc, collapsed)

LEMMA DocumentsAre ==
  ASSUME NEW n \in 1 .. MaxNodes, NEW d \in Json!Documents(n) PROVE IsDocument(d, n)
<1>1. n \in Nat \ {0} /\ n <= MaxNodes
  BY ViewsAssumption DEF Json!JsonAssumption
<1> QED BY <1>1, DocumentIs

LEMMA WalksClose ==
  ASSUME NEW d, NEW n, IsDocument(d, n), NEW C, C \subseteq Json!Containers(d)
  PROVE  Closed(d, {Json!Walked(d)[c] : c \in C})
<1> SUFFICES ASSUME d.kind[1] # "array", NEW c \in C
             PROVE  Json!Walked(d)[c] \in {Json!PathOf(d)[m] : m \in Json!Containers(d)}
  BY DEF Closed
<1>1. c \in 1 .. n /\ c \in Json!Containers(d)
  BY DEF Json!Containers, IsDocument
<1>2. Json!Walked(d)[c] = Json!PathOf(d)[c]
  BY <1>1, WalkedIs
<1> QED BY <1>1, <1>2

LEMMA AutoCloses ==
  ASSUME NEW d, NEW n, IsDocument(d, n) PROVE Closed(d, Json!AutoCollapsed(d))
<1> DEFINE C == {m \in Json!Reached(d) : d.kind[m] = "array" /\ Json!Size(d, m) > Large}
<1>1. C \subseteq Json!Containers(d)
  BY DEF Json!Reached, Json!Containers
<1>2. Json!AutoCollapsed(d) = {Json!Walked(d)[c] : c \in C}
  BY Zenon DEF Json!AutoCollapsed
<1> HIDE DEF C
<1> QED BY <1>1, <1>2, WalksClose

LEMMA JsonStarts == Json!Init => JsonInv
<1> SUFFICES ASSUME Json!Init PROVE JsonInv
  OBVIOUS
<1>1. PICK n \in 1 .. MaxNodes : doc \in Json!Documents(n)
  BY DEF Json!Init
<1>2. collapsed = Json!AutoCollapsed(doc)
  BY DEF Json!Init
<1>3. Closed(doc, collapsed)
  BY <1>1, <1>2, DocumentsAre, AutoCloses
<1> QED BY <1>1, <1>3 DEF JsonInv

LEMMA CollapseKeeps ==
  ASSUME JsonInv, NEW closed, Json!Collapse(closed), Closed(doc, collapsed) => Closed(doc, closed)
  PROVE  JsonInv'
<1>1. doc' = doc /\ collapsed' = closed
  BY DEF Json!Collapse
<1>2. Closed(doc', collapsed')
  BY <1>1 DEF JsonInv
<1>3. \E n \in 1 .. MaxNodes : doc' \in Json!Documents(n)
  BY <1>1 DEF JsonInv
<1> QED BY <1>2, <1>3 DEF JsonInv, Closed

LEMMA JsonKeeps == JsonInv /\ [Json!Next]_(Json!vars) => JsonInv'
<1> SUFFICES ASSUME JsonInv, [Json!Next]_(Json!vars) PROVE JsonInv'
  OBVIOUS
<1>1. PICK k \in 1 .. MaxNodes : doc \in Json!Documents(k)
  BY DEF JsonInv
<1>2. IsDocument(doc, k)
  BY <1>1, DocumentsAre
<1>3. ASSUME NEW d \in Json!Documents(2), Json!NewDocument(d) PROVE JsonInv'
  <2>1. doc' = d /\ collapsed' = Json!AutoCollapsed(d)
    BY <1>3 DEF Json!NewDocument
  <2>2. 2 \in 1 .. MaxNodes
    BY ViewsAssumption DEF Json!JsonAssumption
  <2>3. Closed(d, Json!AutoCollapsed(d))
    BY <2>2, DocumentsAre, AutoCloses
  <2>4. Closed(doc', collapsed')
    BY <2>1, <2>3
  <2>5. \E n \in 1 .. MaxNodes : doc' \in Json!Documents(n)
    BY <2>1, <2>2
  <2> QED BY <2>4, <2>5 DEF JsonInv, Closed
<1>4. CASE Json!CollapseAll
  <2>1. Json!Containers(doc) \ {1} \subseteq Json!Containers(doc)
    OBVIOUS
  <2>2. Closed(doc, {Json!Walked(doc)[n] : n \in Json!Containers(doc) \ {1}})
    BY <1>2, <2>1, WalksClose
  <2> QED BY <1>4, <2>2, CollapseKeeps DEF Json!CollapseAll
<1>5. CASE Json!ExpandAll \/ Json!ClearSearch
  <2>1. Closed(doc, {}) /\ Json!Collapse({})
    BY <1>5 DEF Closed, Json!ExpandAll, Json!ClearSearch
  <2> QED BY <2>1, CollapseKeeps
<1>6. ASSUME NEW S \in SUBSET Json!Nodes(doc), Json!SetSearchQuery(S) PROVE JsonInv'
  <2>1. PICK gone : gone = matches'
    OBVIOUS
  <2>2. Json!Collapse(collapsed \ gone)
    BY <1>6, <2>1 DEF Json!SetSearchQuery
  <2>3. Closed(doc, collapsed) => Closed(doc, collapsed \ gone)
    BY DEF Closed
  <2> QED BY <2>2, <2>3, CollapseKeeps
<1>7. ASSUME NEW n \in Json!Nodes(doc), Json!ToggleCollapse(n) PROVE JsonInv'
  <2> DEFINE path == Json!PathOf(doc)[n]
             closed == IF path \in collapsed THEN collapsed \ {path} ELSE collapsed \cup {path}
  <2>1. Json!Collapse(closed) /\ n \in Json!Containers(doc)
    BY <1>7 DEF Json!ToggleCollapse
  <2>2. Closed(doc, collapsed) => Closed(doc, closed)
    BY <2>1 DEF Closed
  <2> HIDE DEF closed
  <2> QED BY <2>1, <2>2, CollapseKeeps
<1>8. ASSUME NEW n \in Json!Nodes(doc), Json!ExpandChildren(n) PROVE JsonInv'
  <2>1. Json!Collapse(collapsed \ Json!Below(n))
    BY <1>8 DEF Json!ExpandChildren
  <2>2. Closed(doc, collapsed) => Closed(doc, collapsed \ Json!Below(n))
    BY DEF Closed
  <2> QED BY <2>1, <2>2, CollapseKeeps
<1>9. ASSUME NEW n \in Json!Nodes(doc), Json!CollapseChildren(n) PROVE JsonInv'
  <2>1. Json!Collapse(collapsed \cup (Json!Below(n) \ {active}))
    BY <1>9 DEF Json!CollapseChildren
  <2>2. Json!Below(n) \subseteq {Json!PathOf(doc)[m] : m \in Json!Containers(doc)}
    BY DEF Json!Below
  <2>3. Closed(doc, collapsed) => Closed(doc, collapsed \cup (Json!Below(n) \ {active}))
    BY <2>2 DEF Closed
  <2> QED BY <2>1, <2>3, CollapseKeeps
<1>10. ASSUME UNCHANGED <<doc, collapsed>> PROVE JsonInv'
  <2>1. Closed(doc', collapsed') /\ \E n \in 1 .. MaxNodes : doc' \in Json!Documents(n)
    BY <1>10 DEF JsonInv
  <2> QED BY <2>1 DEF JsonInv, Closed
<1>11. ASSUME NEW n \in Json!Nodes(doc), Json!ShowMore(n) \/ Json!ShowContextMenu(n) PROVE JsonInv'
  BY <1>10, <1>11 DEF Json!ShowMore, Json!ShowContextMenu
<1>12. CASE UNCHANGED Json!vars
  BY <1>10, <1>12 DEF Json!vars
<1> QED BY <1>3, <1>4, <1>5, <1>6, <1>7, <1>8, <1>9, <1>11, <1>12, Zenon DEF Json!Next

LEMMA JsonHolds == JsonInv => Json!PathsLeadBack /\ Json!CollapsedAreNodes
<1> SUFFICES ASSUME JsonInv PROVE Json!PathsLeadBack /\ Json!CollapsedAreNodes
  OBVIOUS
<1>1. PICK k \in 1 .. MaxNodes : doc \in Json!Documents(k)
  BY DEF JsonInv
<1>2. IsDocument(doc, k)
  BY <1>1, DocumentsAre
<1>3. ASSUME NEW n \in Json!Nodes(doc) \ Json!Lost(doc)
      PROVE  /\ Json!ValueAt(doc, Json!PathOf(doc)[n]) = {n}
             /\ doc.kind[1] # "array" => Json!Segments(Json!PathOf(doc)[n]) = Json!Way(doc)[n]
  <2>1. n \in 1 .. k /\ n \notin Json!Lost(doc)
    BY <1>2 DEF IsDocument
  <2> QED BY <1>2, <2>1, AllLed DEF Led, Json!ValueAt
<1>4. Json!PathsLeadBack
  BY <1>3, Zenon DEF Json!PathsLeadBack
<1>5. Json!CollapsedAreNodes
  BY DEF JsonInv, Closed, Json!CollapsedAreNodes
<1> QED BY <1>4, <1>5

LEMMA JsonStays == [ViewsNext]_allVars => [Json!Next]_(Json!vars)
BY DEF ViewsNext, allVars, ListsStep, WideStep, DeepStep, PlayStep, HistoryStep, JsonStep,
       SentStep, ScriptStep, jsonVars, Json!vars

\* In a document of any shape and size, the path that JsonNode gives a node leads
\* getValueAtPath back to that node, through keys, indices and names with brackets, but
\* for the keys that dots and brackets cannot tell apart; and whatever is opened,
\* closed and searched, only containers of the response on display are collapsed
\* (hooks/useJsonTree.ts, utils/json.util.ts).
THEOREM PathsStayTrue == ViewsSpec => []JsonTreeHolds
<1>1. ViewsInit => JsonInv
  BY JsonStarts DEF ViewsInit, JsonInit
<1>2. JsonInv /\ [ViewsNext]_allVars => JsonInv'
  BY JsonStays, JsonKeeps
<1>3. JsonInv => JsonTreeHolds
  BY JsonHolds DEF JsonTreeHolds
<1> QED BY <1>1, <1>2, <1>3, PTL DEF ViewsSpec

=============================================================================
