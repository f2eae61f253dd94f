----------------------------- MODULE MCWebViews -----------------------------
(***************************************************************************)
(* What the browser shows and makes of what it shows, for TLC: the lists   *)
(* of the sidebar (LibraryLists), the history (History), the playground    *)
(* (Playground), the tree of a JSON response (JsonTree), the request that  *)
(* the target receives (SentRequest) and what scripts do to it             *)
(* (ScriptedRequest).  They share no state; `part` says which of them a    *)
(* behaviour is about.                                                     *)
(***************************************************************************)
EXTENDS Naturals, Sequences, FiniteSets, TLC

CONSTANTS
  Collections, Requests, Folders, PageSize, MaxJobs, Root, Gone, Unmade, NotLoaded,
  Tabs, Envs, Values, Fresh, Played, MaxHistory, MaxEntries, None,
  MaxRecorded, PageLimit, Findable, Quota,
  Plain, Digits, Odd, Dotted, PartsOf, MaxNodes, Large, Many, MaxClicks,
  FormKeys, Files, MaxRows, MaxSteps,
  ItemNames, ItemValues, MaxItems, MaxEdits

VARIABLES
  part,
  where, folders, row, data, stale, fetch, failed, expanded, found, selected, job, jobs, missed,
  storage, created, side, page, used, sends, send, response, entries, unsaved, lone, apart,
  rows, made, left, shown, listing, call, late, behind,
  doc, collapsed, matches, more, active, clicks,
  request, files, saved, draft, entry, opened, sent, steps,
  program, list, original, work, edits, scripted, ended, removed, repeated

listVars == <<where, folders, row, data, stale, fetch, failed, expanded, found, selected,
              job, jobs, missed>>
playVars == <<storage, created, side, page, used, sends, send, response, entries, unsaved,
              lone, apart>>
historyVars == <<rows, made, left, shown, listing, call, late, behind>>
jsonVars == <<doc, collapsed, matches, more, active, clicks>>
sentVars == <<request, files, saved, draft, entry, opened, sent, steps>>
scriptVars == <<program, list, original, work, edits, scripted, ended, removed, repeated>>

allVars == <<part, listVars, playVars, historyVars, jsonVars, sentVars, scriptVars>>

ThreeDigits == <<"0", "1", "2">>

XAndY == "x.y" :> <<"x", "y">>

Lists == INSTANCE LibraryLists
Play == INSTANCE Playground WITH Requests <- Played, made <- created, list <- sends
Past == INSTANCE History WITH MaxEntries <- MaxRecorded, fetch <- listing
Json == INSTANCE JsonTree WITH MaxSteps <- MaxClicks, steps <- clicks
Sent == INSTANCE SentRequest WITH Keys <- FormKeys
\* The names of headers do not tell capitals apart, those of the target's do.
Script == INSTANCE ScriptedRequest
            WITH Folded <- [n \in ItemNames |-> IF n = "H" THEN "h" ELSE n], sent <- scripted

ASSUME ViewsAssumption ==
  /\ Lists!ListsAssumption /\ Play!PlaygroundAssumption /\ Past!HistoryAssumption
  /\ Sent!FilesAssumption /\ Script!ItemsAssumption
  /\ Json!JsonAssumption

-----------------------------------------------------------------------------
\* What a part is not about is in one initial state.

ListsInit ==
  /\ Lists!Init
  /\ part # "wide" => \A q \in Requests \ {1} : row[q].at = Unmade
  /\ part \notin {"wide", "deep"} => row[1].at = Unmade

JsonInit ==
  /\ IF part = "json" THEN TRUE ELSE doc = CHOOSE d \in Json!Documents(1) : TRUE
  /\ Json!Init

\* The editor holds the rows of a form, or anything else.
SentInit ==
  /\ part = "sent" \/ request = Sent!defaultState
  /\ Sent!Init
  /\ request.fields # <<>> => ~request.param /\ request.auth = "none"

ScriptInit ==
  /\ part = "script" \/ (program = "cli" /\ list = "headers" /\ original = <<>>)
  /\ Script!Init

ViewsInit ==
  /\ part \in {"wide", "deep", "play", "playTwo", "playHistory", "history", "json",
               "sent", "script"}
  /\ ListsInit /\ Play!Init /\ Past!Init /\ JsonInit /\ SentInit /\ ScriptInit

-----------------------------------------------------------------------------
\* One job over all collections and requests, with every fetch answered, or several,
\* without a search, over one of each.
WideStep == part = "wide" /\ Lists!Next /\ jobs' < 2 /\ failed' = {}

DeepStep ==
  /\ part = "deep" /\ Lists!Next /\ found' = {}
  /\ \A c \in Collections \ {Lists!First} : where'[c] = where[c]
  /\ \A q \in Requests \ {1} : row'[q] = row[q]

ListsStep ==
  /\ WideStep \/ DeepStep
  /\ UNCHANGED <<playVars, historyVars, jsonVars, sentVars, scriptVars>>

\* All environments in one tab, one in two tabs, or the sends of two tabs.
OneTabStep ==
  /\ part = "play" /\ Play!Next
  /\ entries' = 0 /\ send' = send
  /\ \A t \in Tabs \ {CHOOSE u \in Tabs : TRUE} : side'[t] = side[t] /\ page'[t] = page[t]

TwoTabsStep ==
  /\ part = "playTwo" /\ Play!Next
  /\ created' \subseteq {CHOOSE e \in Envs : TRUE} /\ send' = send

PlayHistoryStep == part = "playHistory" /\ Play!Next /\ created' = {} /\ apart' = apart

PlayStep ==
  /\ OneTabStep \/ TwoTabsStep \/ PlayHistoryStep
  /\ UNCHANGED <<listVars, historyVars, jsonVars, sentVars, scriptVars>>

HistoryStep ==
  /\ part = "history" /\ Past!Next
  /\ UNCHANGED <<listVars, playVars, jsonVars, sentVars, scriptVars>>

\* The largest documents are only looked at as they are loaded.
JsonStep ==
  /\ part = "json" /\ Json!Next /\ Cardinality(Json!Nodes(doc)) < MaxNodes
  /\ UNCHANGED <<listVars, playVars, historyVars, sentVars, scriptVars>>

SentStep ==
  /\ part = "sent" /\ Sent!Next
  /\ UNCHANGED <<listVars, playVars, historyVars, jsonVars, scriptVars>>

ScriptStep ==
  /\ part = "script" /\ Script!Next
  /\ UNCHANGED <<listVars, playVars, historyVars, jsonVars, sentVars>>

ViewsNext ==
  /\ ListsStep \/ PlayStep \/ HistoryStep \/ JsonStep \/ SentStep \/ ScriptStep
  /\ UNCHANGED part

ViewsSpec == ViewsInit /\ [][ViewsNext]_allVars

-----------------------------------------------------------------------------
\* At rest the lists on display are the server's; see LibraryLists.
ListsCatchUp == part \in {"wide", "deep"} => Lists!ListsCatchUp

\* An export holds what the server has; see LibraryLists.
ExportIsCurrent == Lists!ExportIsCurrent

\* What a guest sees is what is stored, and requests use it; see Playground for what
\* is excepted.
PlaygroundHolds ==
  part \in {"play", "playTwo", "playHistory"} => Play!ReloadRestores /\ Play!UsesActive

\* At rest the history shown is the server's; see History.
HistoryCatchesUp == part = "history" => Past!HistoryCatchesUp

\* The paths of a tree lead to its nodes, and only its nodes are collapsed; see
\* JsonTree for what is excepted.
JsonTreeHolds == part = "json" => Json!PathsLeadBack /\ Json!CollapsedAreNodes

\* The target receives what the editor shows, or what was opened; see SentRequest.
SentAsMeant == Sent!SentAsMeant

\* What a script left is what is sent; see ScriptedRequest for what is excepted.
SentAsLeft == part = "script" => Script!SentAsLeft

=============================================================================
