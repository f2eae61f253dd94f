----------------------------- MODULE MCRunners -----------------------------
(***************************************************************************)
(* One instance of each of the two collection runners for TLC.  They share *)
(* no state; `part` says which of them a behaviour is about.               *)
(***************************************************************************)
EXTENDS CollectionRun

CONSTANT Assertions  \* what the command line's test functions assert; see CliRun

VARIABLES part, bail, script, at, i, bailOut, cliStatus, late, exit, broken, slipped

cliVars == <<bail, script, at, i, bailOut, cliStatus, late, exit, broken, slipped>>

\* One test that passes, one that fails, one that fails although what it denies
\* does hold, and one that throws without being awaited.
SomeAssertions ==
  {[holds |-> TRUE, negated |-> FALSE, async |-> FALSE],
   [holds |-> FALSE, negated |-> FALSE, async |-> FALSE],
   [holds |-> TRUE, negated |-> TRUE, async |-> FALSE],
   [holds |-> FALSE, negated |-> FALSE, async |-> TRUE]}

Cli == INSTANCE CliRun WITH status <- cliStatus

ASSUME RunnersAssumption == Cli!CliAssumption

RunnersInit ==
  /\ part \in {"web", "cli"}
  /\ Init /\ (part = "cli" => ~opaque)
  /\ Cli!Init /\ (part = "web" => ~bail /\ script = [j \in Requests |-> {}])

WebStep == part = "web" /\ Next /\ UNCHANGED <<part, cliVars>>
CliStep == part = "cli" /\ Cli!Next /\ UNCHANGED <<part, vars>>

RunnersSpec ==
  /\ RunnersInit
  /\ [][WebStep \/ CliStep]_<<part, vars, cliVars>>
  /\ Fairness
  /\ WF_<<part, vars, cliVars>>(CliStep)

\* The exit code of the command line runner, and what --bail stops and leaves; see
\* CliRun.
ExitAndBail == Cli!ExitCode /\ Cli!BailStops

\* Every run of either runner ends, and every call of a script (CollectionRun); the
\* command line's, too, is an OrderedRun until it does (CliRun).
RunsEnd ==
  /\ Finishes /\ CallsSettle
  /\ Cli!RefinesOrderedRun /\ (part = "cli" ~> exit # Cli!Running)

=============================================================================
