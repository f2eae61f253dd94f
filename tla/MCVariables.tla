---------------------------- MODULE MCVariables ----------------------------
(***************************************************************************)
(* Environments for TLC, from the tables to what a request is sent with:   *)
(* the server's handlers (Environments), the browser's window that shows   *)
(* and edits them (EnvironmentEditor), and what programs make of their     *)
(* variables (Variables).  They share no state; `part` says what a         *)
(* behaviour is about.  The window is checked for calls about the rows of  *)
(* one environment ("rows") and for the choice among two ("choice").       *)
(***************************************************************************)
EXTENDS MCEnvironments, FiniteSets

CONSTANTS Windowed, Texts, Empty, MaxRows, MaxIds, MaxCalls, None, Gone,
          VarNames, Values, Sends

VARIABLES part, server, ids, cache, fetch, calls, open, selected, active, own, dropped,
          used, touched, doomed, missed, client, variables, runtime, sending, said, loose

editorVars == <<server, ids, cache, fetch, calls, open, selected, active, own, dropped,
                used, touched, doomed, missed>>
sentVars == <<client, variables, runtime, sending, said, loose>>

Editor == INSTANCE EnvironmentEditor WITH Envs <- Windowed, Values <- Texts
Sent == INSTANCE Variables WITH Names <- VarNames, vars <- variables

ASSUME VariablesAssumption == Sent!NoneAssumption /\ Editor!EditorAssumption

First == CHOOSE e \in Windowed : TRUE

VariablesInit ==
  /\ part \in {"server", "rows", "choice", "sent"}
  /\ Init
  /\ Editor!Init
  /\ part \in {"server", "sent"} => \A e \in Windowed : server[e] = None
  /\ part = "rows" => active = First /\ \A e \in Windowed : server[e] = None <=> e # First
  /\ part = "choice" => \A e \in Editor!Listed : server[e].rows = <<>>
  /\ Sent!Init
  /\ part # "sent" => client = "cli" /\ variables = <<>>

ServerStep == part = "server" /\ Next /\ UNCHANGED <<part, editorVars, sentVars>>

RowsStep ==
  /\ part = "rows" /\ Editor!Next
  /\ Cardinality(calls') < 2 /\ \A c \in calls' : c.kind # "create"
  /\ active' # None

ChoiceStep ==
  /\ part = "choice" /\ Editor!Next
  /\ touched' = {} /\ own' = <<>> /\ dropped' = {}
  /\ \A c \in calls' : c.kind \notin {"save", "rename"}

EditorStep == (RowsStep \/ ChoiceStep) /\ UNCHANGED <<part, vars, sentVars>>

\* Longer lists of variables are among the initial states of one.
SentStep ==
  /\ part = "sent" /\ variables = <<>> /\ Sent!Next
  /\ UNCHANGED <<part, vars, editorVars>>

VariablesSpec ==
  VariablesInit
    /\ [][ServerStep \/ EditorStep \/ SentStep]_<<part, vars, editorVars, sentVars>>

\* At rest the window and the builder have what the server has, and the active
\* environment exists; see EnvironmentEditor for what is excepted.
EditorHolds == Editor!EditorCatchesUp /\ Editor!ActiveExists

\* A variable means the same everywhere and stays what a script set it to; see
\* Variables for what is excepted.
VariablesHold == Sent!OneMeaning /\ Sent!SetsStay

=============================================================================
