------------------------------- MODULE CliRun -------------------------------
(***************************************************************************)
(* The command line runner, one process from its arguments to its exit     *)
(* code: cli/run.ts, runner.ts, sandbox.ts, loadCollection.ts and          *)
(* loadEnvironment.ts under src/api/src.                                   *)
(*                                                                         *)
(* A script is one await of the runner.  Its pm.test functions are not     *)
(* awaited: one that is async counts as passed, and what it throws is an   *)
(* unhandled rejection, which ends the process unless the process ends     *)
(* first.  An await that nothing will ever settle ends the process too,    *)
(* when nothing else is left to wait for, and then the exit code is 0.     *)
(*                                                                         *)
(* Variables, console lines and the report's text are left out.            *)
(***************************************************************************)
EXTENDS Naturals

CONSTANTS
  Size,       \* requests in the collection file
  Assertions  \* what test functions assert; see Assertion

Requests == 1 .. Size
Verdict == {"passed", "failed", "errored"}

\* A pm.test function, as the one assertion that decides it.
Assertion == [holds : BOOLEAN, negated : BOOLEAN, async : BOOLEAN]

\* What is assumed of the constants, wherever this module is instantiated.
CliAssumption == Size \in Nat \ {0} /\ Assertions \subseteq Assertion

VARIABLES
  bail,    \* the option --bail
  script,  \* script[i]: which scripts request i has
  at,      \* the await the process is at
  i,       \* the request it is at, 0 before the first
  bailOut,
  status,  \* results[i].status; "pending" before, "running" while under way
  late,    \* an async test's rejection has yet to be noticed
  exit,    \* exit code, or Running
  broken,  \* history: a test that is not async has asserted what is false
  slipped  \* history: an async test has thrown

history == <<broken, slipped>>
vars == <<bail, script, at, i, bailOut, status, late, exit, history>>

Running == 3

Init ==
  /\ bail \in BOOLEAN
  /\ script \in [Requests -> SUBSET {"pre", "test"}]
  /\ at = "load"
  /\ i = 0
  /\ bailOut = FALSE
  /\ status = [j \in Requests |-> "pending"]
  /\ late = FALSE
  /\ exit = Running
  /\ broken = FALSE
  /\ slipped = FALSE

At(label) == exit = Running /\ at = label
Fixed == UNCHANGED <<bail, script>>

\* check, in buildExpect: `negated ? condition : !condition`.
Throws(a) == IF a.negated THEN a.holds ELSE ~a.holds

\* pm.test: fn() is called, not awaited.
CountsPassed(a) == a.async \/ ~Throws(a)
ThrowsLate(a) == a.async /\ Throws(a)

-----------------------------------------------------------------------------
\* Arguments, or a file that cannot be read: usage or the error, and exit 2.
\* --help prints the usage.
LoadFails ==
  /\ At("load")
  /\ exit' = 2
  /\ UNCHANGED <<at, i, bailOut, status, late, history>> /\ Fixed

Load ==
  /\ At("load")
  /\ at' = "next"
  /\ UNCHANGED <<i, bailOut, status, late, exit, history>> /\ Fixed

\* The top of the loop, up to the first await.
NextRequest ==
  LET j == i + 1 IN
  /\ At("next") /\ j <= Size /\ ~bailOut
  /\ i' = j
  /\ status' = [status EXCEPT ![j] = "running"]
  /\ at' = IF "pre" \in script[j] THEN "pre" ELSE "execute"
  /\ UNCHANGED <<bailOut, late, exit, history>> /\ Fixed

\* Once bailed out, the rest of the loop awaits nothing.
SkipRest ==
  /\ At("next") /\ i < Size /\ bailOut
  /\ i' = Size
  /\ status' = [j \in Requests |-> IF j > i THEN "skipped" ELSE status[j]]
  /\ UNCHANGED <<at, bailOut, late, exit, history>> /\ Fixed

\* Faulty variant: --bail stops at a failed request, not at an errored one.
JudgeBailsOnFailed(v) ==
  /\ status' = [status EXCEPT ![i] = v]
  /\ bailOut' = (bailOut \/ (bail /\ v = "failed"))
  /\ at' = "next"
  /\ UNCHANGED <<i, exit>> /\ Fixed

\* results.push(result), and the check for --bail.
Judge(v) ==
  /\ status' = [status EXCEPT ![i] = v]
  /\ bailOut' = (bailOut \/ (bail /\ v # "passed"))
  /\ at' = "next"
  /\ UNCHANGED <<i, exit>> /\ Fixed

PreDone ==
  /\ At("pre")
  /\ at' = "execute"
  /\ UNCHANGED <<i, bailOut, status, late, exit, history>> /\ Fixed

PreFails == At("pre") /\ Judge("errored") /\ UNCHANGED <<late, history>>

ExecuteFails == At("execute") /\ Judge("errored") /\ UNCHANGED <<late, history>>

\* The response, whose status is from 200 to 399 or not.
ExecuteDone ==
  /\ At("execute")
  /\ IF "test" \in script[i]
       THEN at' = "test" /\ UNCHANGED <<i, bailOut, status, exit>> /\ Fixed
       ELSE \E ok \in BOOLEAN : Judge(IF ok THEN "passed" ELSE "failed")
  /\ UNCHANGED <<late, history>>

\* The script ends, in an error or not, having run the tests `done`.
TestDone ==
  /\ At("test")
  /\ \E done \in SUBSET Assertions, error \in BOOLEAN :
       /\ Judge(IF error \/ \E a \in done : ~CountsPassed(a) THEN "failed" ELSE "passed")
       /\ late' = (late \/ \E a \in done : ThrowsLate(a))
       /\ broken' = (broken \/ \E a \in done : ~a.async /\ a.holds = a.negated)
       /\ slipped' = (slipped \/ \E a \in done : ThrowsLate(a))

\* The event loop notices the rejection, at any await.
Crash ==
  /\ exit = Running /\ at \in {"pre", "execute", "test"}
  /\ late
  /\ exit' = 1
  /\ UNCHANGED <<at, i, bailOut, status, late, history>> /\ Fixed

\* A script awaits what never comes.  The vm's timeout bounds synchronous code.
GiveUp ==
  /\ At("pre") \/ At("test")
  /\ ~late
  /\ exit' = 0
  /\ UNCHANGED <<at, i, bailOut, status, late, history>> /\ Fixed

\* The summary, the report and process.exit.
Count(s) == {j \in Requests : status[j] = s}

\* Faulty variant: errored requests are not looked at.
ExitFailedOnly ==
  /\ At("next") /\ i = Size
  /\ exit' = IF Count("failed") = {} THEN 0 ELSE 1
  /\ UNCHANGED <<at, i, bailOut, status, late, history>> /\ Fixed

Exit ==
  /\ At("next") /\ i = Size
  /\ exit' = IF Count("failed") = {} /\ Count("errored") = {} THEN 0 ELSE 1
  /\ UNCHANGED <<at, i, bailOut, status, late, history>> /\ Fixed

\* writeJUnitXml throws: main's catch.
ReportFails ==
  /\ At("next") /\ i = Size
  /\ exit' = 2
  /\ UNCHANGED <<at, i, bailOut, status, late, history>> /\ Fixed

Next ==
  \/ LoadFails \/ Load
  \/ NextRequest \/ SkipRest
  \/ PreDone \/ PreFails \/ ExecuteFails \/ ExecuteDone \/ TestDone
  \/ Crash \/ GiveUp
  \/ Exit \/ ReportFails

\* A request answers or times out, and a script whose promise settles returns.
\* One that never settles ends the process, unless it keeps a timer going: not
\* considered.
Fairness == WF_vars(Next)

Spec == Init /\ [][Next]_vars /\ Fairness

-----------------------------------------------------------------------------
TypeOK ==
  /\ bail \in BOOLEAN
  /\ script \in [Requests -> SUBSET {"pre", "test"}]
  /\ at \in {"load", "next", "pre", "execute", "test"}
  /\ i \in 0 .. Size
  /\ bailOut \in BOOLEAN
  /\ status \in [Requests -> Verdict \cup {"pending", "running", "skipped"}]
  /\ late \in BOOLEAN
  /\ exit \in 0 .. Running
  /\ broken \in BOOLEAN
  /\ slipped \in BOOLEAN

\* The process exits with 0 only if every request passed and no test asserted
\* what is false, with two exceptions: a script that never settles, and an async
\* test that threw unnoticed.  With 1, some request failed or was errored, or such
\* a test was noticed (run.ts: process.exit; sandbox.ts: pm.test and runScript).
ExitCode ==
  /\ (exit = 0 /\ at = "next") => ~broken /\ \A j \in Requests : status[j] = "passed"
  /\ (exit = 0 /\ at # "next") => at \in {"pre", "test"} /\ ~late
  /\ exit = 1 => slipped \/ \E j \in Requests : status[j] \in {"failed", "errored"}

\* With --bail, and only then, a request is skipped, and the requests after the
\* first that did not pass are not sent (runner.ts: bailOut).
BailStops ==
  \A j \in Requests :
    /\ status[j] = "skipped" =>
         bail /\ \E k \in Requests : k < j /\ status[k] \in {"failed", "errored"}
    /\ (bail /\ status[j] \in {"failed", "errored"}) =>
         \A k \in Requests : k > j => status[k] \in {"pending", "skipped"}

Abs == INSTANCE OrderedRun
         WITH Runs <- {"cli"}, Size <- Size, status <- [r \in {"cli"} |-> status]

\* Requests run one at a time in their order, one lasting verdict each, and none
\* after a skipped one.
RefinesOrderedRun == Abs!Spec

\* The process exits.
Exits == <>(exit # Running)

=============================================================================
