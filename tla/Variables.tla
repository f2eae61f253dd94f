----------------------------- MODULE Variables -----------------------------
(***************************************************************************)
(* The variables that {{name}} and scripts read, in the three programs     *)
(* that send requests: the request builder (hooks/useRequestBuilder.ts and *)
(* useScriptRunner.ts), the collection runner of the web                   *)
(* (hooks/useCollectionRunner.ts) and the command line runner              *)
(* (cli/runner.ts, cli/loadEnvironment.ts and cli/sandbox.ts).             *)
(*                                                                         *)
(* Each resolves the same names against the rows of the environment and    *)
(* against the runtime variables that scripts set, in its own way.  A      *)
(* script sets variables before the request is sent and after it was       *)
(* answered; when they count for later requests, and when they are lost,   *)
(* is what the three handle differently.  The builder's sends may overlap. *)
(***************************************************************************)
EXTENDS Naturals, Sequences

CONSTANTS
  Names,
  Values,
  Sends,  \* requests of the builder under way at once
  None    \* no value

NoneAssumption == None \notin Values

VARIABLES
  client,   \* the program the behaviour is about
  vars,     \* the rows of the environment, in their order
  runtime,  \* runtime[k]: what scripts set k to
  sending,  \* sending[s]: a request under way, what it began with and its scripts' variables
  said,     \* history: said[k], the last value that a script set k to
  loose     \* history: names whose last value an overlap or a failure may have lost

state == <<client, vars, runtime, sending, said, loose>>

Clients == {"builder", "runner", "cli"}

\* The same name may occur more than once: no index of the database forbids it.
Variable == [name : Names, value : Values, enabled : BOOLEAN]

Runtime == [Names -> Values \cup {None}]

NothingSet == [k \in Names |-> None]

Over(f, g) == [k \in Names |-> IF g[k] # None THEN g[k] ELSE f[k]]

-----------------------------------------------------------------------------
(***************************************************************************)
(* Resolving.                                                              *)
(***************************************************************************)
Named(k) == {i \in DOMAIN vars : vars[i].name = k}

Enabled(k) == {i \in Named(k) : vars[i].enabled}

Least(S) == CHOOSE i \in S : \A j \in S : i <= j
Greatest(S) == CHOOSE i \in S : \A j \in S : j <= i

\* Faulty variant: the row found first counts, enabled or not.
BuilderValueAnyRow(k) ==
  IF runtime[k] # None THEN runtime[k]
  ELSE IF Named(k) = {} THEN None ELSE vars[Least(Named(k))].value

\* resolveVariables of the builder: runtime variables come first, then the rows.
BuilderValue(k) ==
  IF runtime[k] # None THEN runtime[k]
  ELSE IF Enabled(k) = {} THEN None ELSE vars[Least(Enabled(k))].value

\* mergeRuntimeVariables: a later row replaces an earlier one, enabled or not.
RunnerValue(k) ==
  IF runtime[k] # None THEN runtime[k]
  ELSE IF Named(k) = {} \/ ~vars[Greatest(Named(k))].enabled THEN None
  ELSE vars[Greatest(Named(k))].value

\* loadEnvironmentFromFile and environmentMap: the last of the enabled rows.
EnvironmentValue(k) == IF Enabled(k) = {} THEN None ELSE vars[Greatest(Enabled(k))].value

CliValue(k) == IF runtime[k] # None THEN runtime[k] ELSE EnvironmentValue(k)

Resolved(c, k) ==
  CASE c = "builder" -> BuilderValue(k)
    [] c = "runner" -> RunnerValue(k)
    [] c = "cli" -> CliValue(k)

\* pm.variables.get at the beginning of a script.
ReadByScript(c, k) ==
  IF c = "cli" THEN CliValue(k)
  ELSE IF runtime[k] # None THEN runtime[k]
  ELSE IF c = "builder" THEN EnvironmentValue(k) ELSE RunnerValue(k)

-----------------------------------------------------------------------------
(***************************************************************************)
(* Sending.                                                                *)
(***************************************************************************)
NotSending == [at |-> "idle", own |-> NothingSet]

\* Runtime variables of before: those saved with the draft.
Init ==
  /\ client \in Clients
  /\ vars \in UNION {[1 .. n -> Variable] : n \in 0 .. 2}
  /\ runtime \in Runtime /\ (client # "builder" => runtime = NothingSet)
  /\ sending = [s \in Sends |-> NotSending]
  /\ said = runtime /\ loose = {}

Alone(s) == \A r \in Sends \ {s} : sending[r].at = "idle"

Goto(s, at, own) == sending' = [sending EXCEPT ![s] = [at |-> at, own |-> own]]
Stop(s) == sending' = [sending EXCEPT ![s] = NotSending]

\* The builder's button is disabled while it waits, its shortcut is not.
Begin(s) ==
  /\ sending[s].at = "idle" /\ (client = "builder" \/ Alone(s))
  /\ Goto(s, "pre", runtime)
  /\ loose' = loose \cup {k \in Names : \E r \in Sends :
                            sending[r].at # "idle" /\ sending[r].own[k] # runtime[k]}
  /\ UNCHANGED <<client, vars, runtime, said>>

\* A script that counts set what `set` says; alone, these names are sure again.
Heard(s, set) ==
  LET names == {k \in Names : set[k] # None}
  IN /\ said' = Over(said, set)
     /\ loose' = IF Alone(s) THEN loose \ names ELSE loose \cup names

\* Faulty variant: the runners keep what the script says only for this request.
PreScriptForgets(s, set) ==
  /\ sending[s].at = "pre"
  /\ Goto(s, "execute", Over(sending[s].own, set))
  /\ runtime' = runtime
  /\ Heard(s, set)
  /\ UNCHANGED <<client, vars>>

\* The runners merge what the script set at once, the builder when it is answered.
PreScript(s, set) ==
  /\ sending[s].at = "pre"
  /\ Goto(s, "execute", Over(sending[s].own, set))
  /\ runtime' = IF client = "builder" THEN runtime ELSE Over(runtime, set)
  /\ Heard(s, set)
  /\ UNCHANGED <<client, vars>>

\* The builder then sends the request as it was; for the runners it is over.
PreScriptFails(s) ==
  /\ sending[s].at = "pre"
  /\ IF client = "builder" THEN Goto(s, "execute", sending[s].own) ELSE Stop(s)
  /\ UNCHANGED <<client, vars, runtime, said, loose>>

Execute(s) ==
  /\ sending[s].at = "execute"
  /\ runtime' = IF client = "builder" THEN sending[s].own ELSE runtime
  /\ Goto(s, "test", sending[s].own)
  /\ UNCHANGED <<client, vars, said, loose>>

\* The builder forgets what the pre-request script set.
ExecuteFails(s) ==
  /\ sending[s].at = "execute"
  /\ Stop(s)
  /\ loose' = IF client = "builder" THEN loose \cup {k \in Names : sending[s].own[k] # runtime[k]}
              ELSE loose
  /\ UNCHANGED <<client, vars, runtime, said>>

\* Its variables count whether or not it ended with an error.
TestScript(s, set) ==
  /\ sending[s].at = "test"
  /\ Stop(s)
  /\ runtime' = Over(IF client = "builder" THEN sending[s].own ELSE runtime, set)
  /\ Heard(s, set)
  /\ UNCHANGED <<client, vars>>

\* It timed out, or its frame is gone, which only the sandbox of the web reports
\* without what the script set.
TestScriptLost(s) ==
  /\ sending[s].at = "test" /\ client # "cli"
  /\ Stop(s)
  /\ runtime' = IF client = "builder" THEN sending[s].own ELSE runtime
  /\ UNCHANGED <<client, vars, said, loose>>

Next ==
  \E s \in Sends :
    \/ Begin(s) \/ PreScriptFails(s) \/ Execute(s) \/ ExecuteFails(s) \/ TestScriptLost(s)
    \/ \E set \in Runtime : PreScript(s, set) \/ TestScript(s, set)

Spec == Init /\ [][Next]_state

-----------------------------------------------------------------------------
(***************************************************************************)
(* Properties.                                                             *)
(***************************************************************************)
TypeOK ==
  /\ client \in Clients
  /\ vars \in Seq(Variable)
  /\ runtime \in Runtime /\ said \in Runtime
  /\ loose \subseteq Names
  /\ sending \in [Sends -> [at : {"idle", "pre", "execute", "test"}, own : Runtime]]

\* While no name occurs twice in the environment, {{name}} means the same in all
\* three programs, and the same that a script reads there.
OneMeaning ==
  (\A i, j \in DOMAIN vars : vars[i].name = vars[j].name => i = j)
  => \A k \in Names, c, d \in Clients :
       Resolved(c, k) = Resolved(d, k) /\ ReadByScript(c, k) = Resolved(c, k)

\* What a script set a variable to is what later requests get, until a script sets
\* it again; but for the builder, where a failing request forgets what its script
\* set and overlapping requests put back what they began with.
SetsStay ==
  (\A s \in Sends : sending[s].at = "idle")
  => \A k \in Names \ loose : runtime[k] = said[k]

=============================================================================
