--------------------------- MODULE RunnersProofs ---------------------------
(***************************************************************************)
(* Theorems about the command line runner beside the browser's, as         *)
(* MCRunners puts them: what the exit code says, what --bail stops, and    *)
(* that it, too, implements OrderedRun.  The browser's are in              *)
(* CollectionRunProofs.                                                    *)
(***************************************************************************)
EXTENDS MCRunners, TLAPS

USE RunnersAssumption DEF Cli!CliAssumption

Awaiting == at \in {"pre", "execute", "test"}
Bad == {"failed", "errored"}
Over == Cli!Verdict \cup {"skipped"}

\* The requests before the process's own are over and those after it pending; what
\* is skipped is skipped at once, to the end.
Follows ==
  /\ at = "load" => i = 0
  /\ \A j \in Cli!Requests : j > i => cliStatus[j] = "pending"
  /\ \A j \in Cli!Requests : j < i => cliStatus[j] \in Over
  /\ Awaiting => i \in Cli!Requests /\ cliStatus[i] = "running"
  /\ (~Awaiting /\ i > 0) => cliStatus[i] \in Over
  /\ \A j \in Cli!Requests : cliStatus[j] = "skipped" => ~Awaiting /\ i = Size /\ bailOut

\* The flag, and the history of the tests, are about verdicts already given.
Flags ==
  /\ bailOut <=> bail /\ \E j \in Cli!Requests : cliStatus[j] \in Bad
  /\ broken => \E j \in Cli!Requests : cliStatus[j] = "failed"
  /\ late => slipped

IInv == Cli!TypeOK /\ Follows /\ Flags /\ Cli!ExitCode /\ Cli!BailStops

LEMMA Start == ASSUME Cli!Init PROVE IInv
<1>1. 0 \in 0 .. Size /\ Cli!Running \in 0 .. Cli!Running /\ Cli!Running = 3
  BY DEF Cli!Running
<1>2. Cli!TypeOK
  BY <1>1 DEF Cli!Init, Cli!TypeOK
<1>3. Follows /\ Flags /\ Cli!BailStops
  BY <1>1 DEF Cli!Init, Follows, Flags, Cli!BailStops, Awaiting, Bad, Cli!Requests
<1>4. Cli!ExitCode
  BY <1>1 DEF Cli!Init, Cli!ExitCode
<1> QED BY <1>2, <1>3, <1>4 DEF IInv

\* A step that gives no verdict and does not end the process.
LEMMA SameVerdicts ==
  ASSUME IInv, exit = Cli!Running, UNCHANGED <<i, bailOut, cliStatus, late, exit, Cli!history>>, Cli!Fixed,
         at' \in {"load", "next", "pre", "execute", "test"},
         at' = "load" => at = "load", Awaiting' <=> Awaiting
  PROVE  IInv'
BY
   DEF IInv, Cli!TypeOK, Follows, Flags, Cli!ExitCode, Cli!BailStops, Cli!Fixed,
       Cli!history, Awaiting, Cli!Running

\* A step that ends it.
LEMMA Ends ==
  ASSUME IInv, exit = Cli!Running, UNCHANGED <<at, i, bailOut, cliStatus, late, Cli!history>>, Cli!Fixed,
         exit' \in 0 .. Cli!Running, Cli!ExitCode'
  PROVE  IInv'
BY DEF IInv, Cli!TypeOK, Follows, Flags, Cli!BailStops, Cli!Fixed, Cli!history, Awaiting

LEMMA NextRequestKeeps == ASSUME IInv, Cli!NextRequest PROVE IInv'
<1> DEFINE j == i + 1
<1>1. /\ Size \in Nat /\ i \in 0 .. Size /\ j \in Cli!Requests /\ j \in 0 .. Size /\ i < j
      /\ at = "next" /\ exit = Cli!Running /\ ~bailOut
      /\ cliStatus \in [Cli!Requests -> Cli!Verdict \cup {"pending", "running", "skipped"}]
  BY DEF Cli!NextRequest, Cli!At, IInv, Cli!TypeOK, Cli!Requests
<1>2. /\ i' = j /\ cliStatus' = [cliStatus EXCEPT ![j] = "running"] /\ at' \in {"pre", "execute"}
      /\ UNCHANGED <<bail, script, bailOut, late, exit, broken, slipped>>
  BY DEF Cli!NextRequest, Cli!history, Cli!Fixed
<1>3. /\ cliStatus'[j] = "running" /\ \A k \in Cli!Requests \ {j} : cliStatus'[k] = cliStatus[k]
      /\ cliStatus' \in [Cli!Requests -> Cli!Verdict \cup {"pending", "running", "skipped"}]
  BY <1>1, <1>2
<1>4. cliStatus[j] = "pending" /\ \A k \in Cli!Requests : cliStatus[k] # "skipped"
  BY <1>1 DEF IInv, Follows
<1>5. Cli!TypeOK'
  BY <1>1, <1>2, <1>3 DEF IInv, Cli!TypeOK
<1>6. Follows'
  <2>1. \A k \in Cli!Requests : k < j => cliStatus'[k] \in Over
    <3> SUFFICES ASSUME NEW k \in Cli!Requests, k < j PROVE cliStatus'[k] \in Over
      OBVIOUS
    <3>1. k # j /\ (k < i \/ (k = i /\ i > 0))
      BY <1>1 DEF Cli!Requests
    <3> QED BY <1>1, <1>3, <3>1 DEF IInv, Follows, Awaiting
  <2>2. \A k \in Cli!Requests : k > j => cliStatus'[k] = "pending"
    <3>1. \A k \in Cli!Requests : k > j => k > i /\ k # j
      BY <1>1 DEF Cli!Requests
    <3> QED BY <1>3, <3>1 DEF IInv, Follows
  <2> HIDE DEF j
  <2> QED BY <1>1, <1>2, <1>3, <1>4, <2>1, <2>2 DEF Follows, Awaiting
<1>7. Flags'
  <2>1. \A k \in Cli!Requests : cliStatus'[k] \in Bad <=> cliStatus[k] \in Bad
    BY <1>3, <1>4 DEF Bad
  <2>2. \A k \in Cli!Requests : cliStatus'[k] = "failed" <=> cliStatus[k] = "failed"
    BY <1>3, <1>4
  <2> QED BY <1>2, <2>1, <2>2 DEF IInv, Flags
<1>8. Cli!BailStops'
  <2>1. ASSUME bail PROVE \A k \in Cli!Requests : cliStatus'[k] \notin Bad
    BY <1>1, <1>3, <2>1 DEF IInv, Flags, Bad
  <2>2. \A k \in Cli!Requests : cliStatus'[k] # "skipped"
    BY <1>3, <1>4
  <2> QED BY <1>2, <2>1, <2>2 DEF Cli!BailStops, Bad
<1>9. Cli!ExitCode'
  BY <1>1, <1>2 DEF Cli!ExitCode, Cli!Running
<1> QED BY <1>5, <1>6, <1>7, <1>8, <1>9 DEF IInv

LEMMA SkipRestKeeps == ASSUME IInv, Cli!SkipRest PROVE IInv'
<1>1. /\ Size \in Nat /\ i \in 0 .. Size /\ i < Size /\ at = "next" /\ exit = Cli!Running /\ bailOut
      /\ i' = Size /\ cliStatus' = [k \in Cli!Requests |-> IF k > i THEN "skipped" ELSE cliStatus[k]]
      /\ UNCHANGED <<at, bail, script, bailOut, late, exit, broken, slipped>>
  BY DEF Cli!SkipRest, Cli!At, IInv, Cli!TypeOK, Cli!history, Cli!Fixed
<1>2. /\ \A k \in Cli!Requests : k > i => cliStatus'[k] = "skipped" /\ cliStatus[k] = "pending"
      /\ \A k \in Cli!Requests : ~(k > i) => cliStatus'[k] = cliStatus[k] /\ cliStatus[k] \in Cli!Verdict
  <2>1. \A k \in Cli!Requests : ~(k > i) => k < i \/ (k = i /\ i > 0)
    BY <1>1 DEF Cli!Requests
  <2>2. \A k \in Cli!Requests : cliStatus[k] # "skipped"
    BY <1>1 DEF IInv, Follows
  <2> QED BY <1>1, <2>1, <2>2 DEF IInv, Follows, Awaiting, Over
<1>3. Cli!TypeOK'
  BY <1>1 DEF IInv, Cli!TypeOK
<1>4. Follows'
  <2>1. \A k \in Cli!Requests : cliStatus'[k] \in Over /\ ~(k > Size)
    BY <1>1, <1>2 DEF Over, Cli!Requests
  <2>2. Size > 0 => Size \in Cli!Requests
    BY <1>1 DEF Cli!Requests
  <2> QED BY <1>1, <2>1, <2>2 DEF Follows, Awaiting
<1>5. \A k \in Cli!Requests : /\ cliStatus'[k] \in Bad <=> cliStatus[k] \in Bad
                              /\ cliStatus'[k] = "failed" <=> cliStatus[k] = "failed"
  BY <1>2 DEF Bad
<1>6. Flags'
  BY <1>1, <1>5 DEF IInv, Flags
<1>7. Cli!BailStops'
  <2>1. PICK b \in Cli!Requests : bail /\ cliStatus[b] \in Bad
    BY <1>1 DEF IInv, Flags
  <2>2. ~(b > i) /\ cliStatus'[b] \in Bad
    BY <1>2, <1>5, <2>1 DEF Bad
  <2>3. \A k \in Cli!Requests : cliStatus'[k] = "skipped" => b < k
    <3>1. \A k \in Cli!Requests : k > i => b < k
      BY <1>1, <2>2 DEF Cli!Requests
    <3> QED BY <1>2, <3>1 DEF Cli!Verdict
  <2>4. ASSUME NEW k \in Cli!Requests, cliStatus'[k] \in Bad, NEW m \in Cli!Requests, m > k
        PROVE  cliStatus'[m] \in {"pending", "skipped"}
    BY <1>1, <1>2, <1>5, <2>1, <2>4 DEF IInv, Cli!BailStops, Bad
  <2> QED BY <1>1, <2>1, <2>2, <2>3, <2>4 DEF Cli!BailStops, Bad
<1>8. Cli!ExitCode'
  BY <1>1 DEF Cli!ExitCode, Cli!Running
<1> QED BY <1>3, <1>4, <1>6, <1>7, <1>8 DEF IInv

\* A verdict on the request under way, with what its tests leave to history.
LEMMA JudgeKeeps ==
  ASSUME IInv, exit = Cli!Running, Awaiting, NEW v \in Cli!Verdict, Cli!Judge(v),
         late' \in BOOLEAN, broken' \in BOOLEAN, slipped' \in BOOLEAN,
         broken' => broken \/ v = "failed", late' => slipped'
  PROVE  IInv'
<1>1. /\ Size \in Nat /\ i \in Cli!Requests /\ cliStatus[i] = "running" /\ ~bailOut
      /\ cliStatus \in [Cli!Requests -> Cli!Verdict \cup {"pending", "running", "skipped"}]
      /\ bail \in BOOLEAN
  <2>1. i \in Cli!Requests /\ cliStatus[i] = "running"
    BY DEF IInv, Follows
  <2>2. ASSUME bailOut PROVE FALSE
    <3>1. PICK b \in Cli!Requests : bail /\ cliStatus[b] \in Bad
      BY <2>2 DEF IInv, Flags
    <3>2. b < i
      <4>1. b # i /\ ~(b > i)
        BY <2>1, <3>1 DEF IInv, Follows, Bad
      <4> QED BY <2>1, <4>1 DEF Cli!Requests
    <3> QED BY <2>1, <3>1, <3>2 DEF IInv, Cli!BailStops, Bad
  <2> QED BY <2>1, <2>2 DEF IInv, Cli!TypeOK
<1>2. /\ cliStatus' = [cliStatus EXCEPT ![i] = v] /\ at' = "next"
      /\ bailOut' = (bail /\ v # "passed") /\ UNCHANGED <<i, exit, bail, script>>
  BY <1>1 DEF Cli!Judge, Cli!Fixed
<1>3. /\ cliStatus'[i] = v /\ \A k \in Cli!Requests \ {i} : cliStatus'[k] = cliStatus[k]
      /\ cliStatus' \in [Cli!Requests -> Cli!Verdict \cup {"pending", "running", "skipped"}]
  BY <1>1, <1>2
<1>4. v \notin Bad <=> v = "passed"
  BY DEF Cli!Verdict, Bad
<1>5. Cli!TypeOK'
  BY <1>2, <1>3 DEF IInv, Cli!TypeOK
<1>6. \A k \in Cli!Requests : cliStatus[k] # "skipped"
  BY DEF IInv, Follows
<1>7. Follows'
  <2>1. \A k \in Cli!Requests : k > i => cliStatus'[k] = "pending"
    BY <1>1, <1>3 DEF IInv, Follows, Cli!Requests
  <2>2. \A k \in Cli!Requests : k < i => cliStatus'[k] \in Over
    BY <1>1, <1>3 DEF IInv, Follows, Cli!Requests
  <2>3. v \in Over /\ v # "skipped"
    BY DEF Over, Cli!Verdict
  <2>4. \A k \in Cli!Requests : cliStatus'[k] # "skipped"
    BY <1>3, <1>6, <2>3
  <2> QED BY <1>2, <1>3, <2>1, <2>2, <2>3, <2>4 DEF Follows, Awaiting
<1>8. Flags'
  <2>1. bailOut' <=> bail' /\ \E k \in Cli!Requests : cliStatus'[k] \in Bad
    BY <1>1, <1>2, <1>3, <1>4 DEF IInv, Flags
  <2>2. broken' => \E k \in Cli!Requests : cliStatus'[k] = "failed"
    BY <1>1, <1>3 DEF IInv, Flags
  <2> QED BY <2>1, <2>2 DEF Flags
<1>9. Cli!BailStops'
  <2>1. ASSUME bail PROVE \A k \in Cli!Requests \ {i} : cliStatus'[k] \notin Bad
    BY <1>1, <1>3, <2>1 DEF IInv, Flags
  <2>2. \A k \in Cli!Requests : k > i => cliStatus'[k] = "pending"
    BY <1>1, <1>3 DEF IInv, Follows, Cli!Requests
  <2>3. \A k \in Cli!Requests : cliStatus'[k] # "skipped"
    BY <1>3, <1>6 DEF Cli!Verdict
  <2> QED BY <1>2, <2>1, <2>2, <2>3 DEF Cli!BailStops, Bad
<1>10. Cli!ExitCode'
  BY <1>2 DEF Cli!ExitCode, Cli!Running
<1> QED BY <1>5, <1>7, <1>8, <1>9, <1>10 DEF IInv

LEMMA AwaitKeeps ==
  ASSUME IInv, Cli!PreDone \/ Cli!PreFails \/ Cli!ExecuteFails \/ Cli!ExecuteDone \/ Cli!TestDone
  PROVE  IInv'
<1>1. exit = Cli!Running /\ Awaiting
  BY
     DEF Cli!PreDone, Cli!PreFails, Cli!ExecuteFails, Cli!ExecuteDone, Cli!TestDone,
         Cli!At, Awaiting
<1>2. late \in BOOLEAN /\ broken \in BOOLEAN /\ slipped \in BOOLEAN /\ (late => slipped)
  BY DEF IInv, Cli!TypeOK, Flags
<1>3. ASSUME NEW v \in Cli!Verdict, Cli!Judge(v), UNCHANGED <<late, Cli!history>> PROVE IInv'
  BY <1>1, <1>2, <1>3, JudgeKeeps DEF Cli!history
<1>4. \A v \in {"passed", "failed", "errored"} : v \in Cli!Verdict
  BY DEF Cli!Verdict
<1>5. CASE Cli!PreDone
  <2>1. /\ UNCHANGED <<i, bailOut, cliStatus, late, exit, Cli!history>> /\ Cli!Fixed
        /\ at' = "execute" /\ Awaiting' /\ Awaiting
    BY <1>5 DEF Cli!PreDone, Cli!At, Awaiting
  <2> QED BY <1>1, <2>1, SameVerdicts
<1>6. CASE Cli!PreFails \/ Cli!ExecuteFails
  BY <1>3, <1>4, <1>6 DEF Cli!PreFails, Cli!ExecuteFails
<1>7. CASE Cli!ExecuteDone
  <2>1. CASE "test" \in script[i]
    <3>1. /\ UNCHANGED <<i, bailOut, cliStatus, late, exit, Cli!history>> /\ Cli!Fixed
          /\ at' = "test" /\ Awaiting' /\ Awaiting
      BY <1>7, <2>1 DEF Cli!ExecuteDone, Cli!At, Awaiting
    <3> QED BY <1>1, <3>1, SameVerdicts
  <2>2. CASE "test" \notin script[i]
    BY <1>3, <1>4, <1>7, <2>2 DEF Cli!ExecuteDone
  <2> QED BY <2>1, <2>2
<1>8. CASE Cli!TestDone
  <2>1. PICK done \in SUBSET Assertions, error \in BOOLEAN :
          /\ Cli!Judge(IF error \/ \E a \in done : ~Cli!CountsPassed(a) THEN "failed" ELSE "passed")
          /\ late' = (late \/ \E a \in done : Cli!ThrowsLate(a))
          /\ broken' = (broken \/ \E a \in done : ~a.async /\ a.holds = a.negated)
          /\ slipped' = (slipped \/ \E a \in done : Cli!ThrowsLate(a))
    BY <1>8 DEF Cli!TestDone
  <2> DEFINE v == IF error \/ \E a \in done : ~Cli!CountsPassed(a) THEN "failed" ELSE "passed"
  <2>2. \A a \in done : (~a.async /\ a.holds = a.negated) => ~Cli!CountsPassed(a)
    <3> SUFFICES ASSUME NEW a \in done, ~a.async, a.holds = a.negated PROVE ~Cli!CountsPassed(a)
      OBVIOUS
    <3>1. a.holds \in BOOLEAN /\ a.negated \in BOOLEAN
      BY DEF Cli!Assertion
    <3> QED BY <3>1 DEF Cli!CountsPassed, Cli!Throws
  <2>3. late' \in BOOLEAN /\ broken' \in BOOLEAN /\ slipped' \in BOOLEAN /\ (late' => slipped')
    BY <1>2, <2>1
  <2>4. broken' => broken \/ v = "failed"
    BY <2>1, <2>2
  <2>5. v \in Cli!Verdict /\ Cli!Judge(v)
    BY <1>4, <2>1
  <2> HIDE DEF v
  <2> QED BY <1>1, <2>3, <2>4, <2>5, JudgeKeeps
<1> QED BY <1>5, <1>6, <1>7, <1>8

LEMMA EndKeeps ==
  ASSUME IInv, Cli!LoadFails \/ Cli!Crash \/ Cli!GiveUp \/ Cli!Exit \/ Cli!ReportFails
  PROVE  IInv'
<1>1. /\ exit = Cli!Running /\ UNCHANGED <<at, i, bailOut, cliStatus, late, Cli!history>> /\ Cli!Fixed
  BY DEF Cli!LoadFails, Cli!Crash, Cli!GiveUp, Cli!Exit, Cli!ReportFails, Cli!At
<1>2. exit' \in 0 .. Cli!Running
  BY DEF Cli!LoadFails, Cli!Crash, Cli!GiveUp, Cli!Exit, Cli!ReportFails, Cli!Running
<1>3. CASE Cli!LoadFails \/ Cli!ReportFails
  <2>1. exit' = 2
    BY <1>3 DEF Cli!LoadFails, Cli!ReportFails
  <2> QED BY <1>1, <1>2, <2>1, Ends DEF Cli!ExitCode
<1>4. CASE Cli!Crash
  <2>1. exit' = 1 /\ slipped'
    BY <1>1, <1>4 DEF Cli!Crash, IInv, Flags, Cli!history
  <2> QED BY <1>1, <1>2, <2>1, Ends DEF Cli!ExitCode
<1>5. CASE Cli!GiveUp
  <2>1. exit' = 0 /\ at \in {"pre", "test"} /\ ~late
    BY <1>5 DEF Cli!GiveUp, Cli!At
  <2> QED BY <1>1, <1>2, <2>1, Ends DEF Cli!ExitCode
<1>6. CASE Cli!Exit
  <2>1. at = "next" /\ i = Size /\ exit' = IF Cli!Count("failed") = {} /\ Cli!Count("errored") = {} THEN 0 ELSE 1
    BY <1>6 DEF Cli!Exit, Cli!At
  <2>2. CASE \E j \in Cli!Requests : cliStatus[j] \in Bad
    <3>1. exit' = 1
      BY <2>1, <2>2 DEF Cli!Count, Bad
    <3> QED BY <1>1, <1>2, <2>2, <3>1, Ends DEF Cli!ExitCode, Bad
  <2>3. CASE \A j \in Cli!Requests : cliStatus[j] \notin Bad
    <3>1. exit' = 0
      BY <2>1, <2>3 DEF Cli!Count, Bad
    <3>2. ~broken /\ ~bailOut
      BY <2>3 DEF IInv, Flags, Bad
    <3>3. ASSUME NEW j \in Cli!Requests PROVE cliStatus[j] = "passed"
      <4>1. j < i \/ (j = i /\ i > 0)
        BY <2>1 DEF Cli!Requests
      <4>2. cliStatus[j] \in Over
        BY <2>1, <4>1 DEF IInv, Follows, Awaiting
      <4>3. cliStatus[j] # "skipped"
        BY <3>2 DEF IInv, Follows
      <4> QED BY <2>3, <4>2, <4>3 DEF Over, Cli!Verdict, Bad
    <3> QED BY <1>1, <1>2, <2>1, <3>1, <3>2, <3>3, Ends DEF Cli!ExitCode, Cli!history
  <2> QED BY <2>2, <2>3
<1> QED BY <1>3, <1>4, <1>5, <1>6

LEMMA Step == ASSUME IInv, [Cli!Next]_(Cli!vars) PROVE IInv'
<1>1. CASE UNCHANGED Cli!vars
  BY <1>1
     DEF Cli!vars, Cli!history, IInv, Cli!TypeOK, Follows, Flags, Cli!ExitCode,
         Cli!BailStops, Awaiting
<1>2. CASE Cli!Load
  <2>1. /\ UNCHANGED <<i, bailOut, cliStatus, late, exit, Cli!history>> /\ Cli!Fixed /\ exit = Cli!Running
        /\ at' = "next" /\ ~Awaiting' /\ ~Awaiting
    BY <1>2 DEF Cli!Load, Cli!At, Awaiting
  <2> QED BY <2>1, SameVerdicts
<1> QED BY <1>1, <1>2, NextRequestKeeps, SkipRestKeeps, AwaitKeeps, EndKeeps DEF Cli!Next

\* A behaviour of the two runners is one of the command line's.
LEMMA CliBehaviour == RunnersSpec => Cli!Init /\ [][Cli!Next]_(Cli!vars)
<1>1. RunnersInit => Cli!Init
  BY DEF RunnersInit
<1>2. [WebStep \/ CliStep]_<<part, vars, cliVars>> => [Cli!Next]_(Cli!vars)
  BY DEF WebStep, CliStep, cliVars, Cli!vars, Cli!history
<1> QED BY <1>1, <1>2, PTL DEF RunnersSpec

LEMMA Invariant == RunnersSpec => []IInv
<1>1. Cli!Init => IInv
  BY Start
<1>2. IInv /\ [Cli!Next]_(Cli!vars) => IInv'
  BY Step
<1> QED BY <1>1, <1>2, CliBehaviour, PTL

\* The process's place, flags and verdicts keep their types.
THEOREM TypeCorrect == RunnersSpec => []Cli!TypeOK
<1>1. IInv => Cli!TypeOK
  BY DEF IInv
<1> QED BY <1>1, Invariant, PTL

\* Exit code 0 from process.exit means that every request passed and no awaited test
\* failed, 1 that something failed; with --bail nothing is sent after the first
\* request that did not pass, and without it nothing is skipped (run.ts: process.exit;
\* sandbox.ts: pm.test; runner.ts: bailOut).
THEOREM ExitTellsVerdicts == RunnersSpec => []ExitAndBail
<1>1. IInv => ExitAndBail
  BY DEF IInv, ExitAndBail
<1> QED BY <1>1, Invariant, PTL

-----------------------------------------------------------------------------
LEMMA OrderStart == Cli!Init => Cli!Abs!Init
BY DEF Cli!Init, Cli!Abs!Init, Cli!Abs!Requests, Cli!Requests

LEMMA JudgeOrdered ==
  ASSUME IInv, Awaiting, NEW v \in Cli!Verdict, Cli!Judge(v)
  PROVE  Cli!Abs!Next
<1>1. i \in Cli!Requests /\ cliStatus[i] = "running" /\ cliStatus' = [cliStatus EXCEPT ![i] = v]
  BY DEF IInv, Follows, Cli!Judge
<1>2. [r \in {"cli"} |-> cliStatus'] = [[r \in {"cli"} |-> cliStatus] EXCEPT !["cli"][i] = v]
  BY <1>1
<1>3. Cli!Abs!Judge("cli", i)
  BY <1>1, <1>2 DEF Cli!Abs!Judge, Cli!Abs!Verdict, Cli!Verdict
<1> QED BY <1>1, <1>3 DEF Cli!Abs!Next, Cli!Abs!Requests, Cli!Requests

LEMMA OrderStep ==
  ASSUME IInv, [Cli!Next]_(Cli!vars)
  PROVE  [Cli!Abs!Next]_[r \in {"cli"} |-> cliStatus]
<1> DEFINE j == i + 1
<1>1. \A v \in {"passed", "failed", "errored"} : v \in Cli!Verdict
  BY DEF Cli!Verdict
<1>2. ASSUME Cli!At("next"), i < Size
      PROVE  /\ j \in Cli!Requests /\ cliStatus[j] = "pending"
             /\ \A k \in Cli!Requests : k < j => cliStatus[k] \in Cli!Verdict
  <2>1. j \in Cli!Requests /\ i \in 0 .. Size /\ j > i
    BY <1>2 DEF IInv, Cli!TypeOK, Cli!Requests
  <2>2. \A k \in Cli!Requests : k < j => k < i \/ (k = i /\ i > 0)
    BY <2>1 DEF Cli!Requests
  <2>3. \A k \in Cli!Requests : cliStatus[k] # "skipped"
    BY <1>2 DEF IInv, Follows
  <2> HIDE DEF j
  <2> QED BY <1>2, <2>1, <2>2, <2>3 DEF IInv, Follows, Awaiting, Cli!At, Over
<1>3. CASE Cli!NextRequest
  <2>1. Cli!At("next") /\ i < Size /\ cliStatus' = [cliStatus EXCEPT ![j] = "running"]
    BY <1>3 DEF Cli!NextRequest, IInv, Cli!TypeOK
  <2>2. [r \in {"cli"} |-> cliStatus'] = [[r \in {"cli"} |-> cliStatus] EXCEPT !["cli"][j] = "running"]
    BY <2>1
  <2>3. Cli!Abs!Send("cli", j)
    BY <1>2, <2>1, <2>2
       DEF Cli!Abs!Send, Cli!Abs!Earlier, Cli!Abs!Verdict, Cli!Verdict, Cli!Abs!Requests,
           Cli!Requests
  <2> QED BY <1>2, <2>1, <2>3 DEF Cli!Abs!Next, Cli!Abs!Requests, Cli!Requests
<1>4. CASE Cli!SkipRest
  <2>1. /\ Cli!At("next") /\ i < Size
        /\ cliStatus' = [k \in Cli!Requests |-> IF k > i THEN "skipped" ELSE cliStatus[k]]
    BY <1>4 DEF Cli!SkipRest
  <2>2. \A k \in Cli!Requests : k > i <=> ~(k < j)
    BY DEF IInv, Cli!TypeOK, Cli!Requests
  <2>3. cliStatus' = [k \in Cli!Requests |-> IF k < j THEN cliStatus[k] ELSE "skipped"]
    BY <2>1, <2>2
  <2>4. [r \in {"cli"} |-> cliStatus'] =
          [[r \in {"cli"} |-> cliStatus] EXCEPT !["cli"] =
             [k \in Cli!Requests |-> IF k < j THEN @[k] ELSE "skipped"]]
    BY <2>3
  <2>5. Cli!Abs!Skip("cli", j)
    BY <1>2, <2>1, <2>4
       DEF Cli!Abs!Skip, Cli!Abs!Earlier, Cli!Abs!Verdict, Cli!Verdict, Cli!Abs!Requests,
           Cli!Requests
  <2> QED BY <1>2, <2>1, <2>5 DEF Cli!Abs!Next, Cli!Abs!Requests, Cli!Requests
<1>5. CASE Cli!PreFails \/ Cli!ExecuteFails
  BY <1>1, <1>5, JudgeOrdered DEF Cli!PreFails, Cli!ExecuteFails, Cli!At, Awaiting
<1>6. CASE Cli!ExecuteDone
  BY <1>1, <1>6, JudgeOrdered DEF Cli!ExecuteDone, Cli!At, Awaiting
<1>7. CASE Cli!TestDone
  BY <1>1, <1>7, JudgeOrdered DEF Cli!TestDone, Cli!At, Awaiting
<1>8. CASE \/ Cli!LoadFails \/ Cli!Load \/ Cli!PreDone \/ Cli!Crash \/ Cli!GiveUp \/ Cli!Exit \/ Cli!ReportFails
           \/ UNCHANGED Cli!vars
  BY <1>8
     DEF Cli!LoadFails, Cli!Load, Cli!PreDone, Cli!Crash, Cli!GiveUp, Cli!Exit,
         Cli!ReportFails, Cli!vars
<1> QED BY <1>3, <1>4, <1>5, <1>6, <1>7, <1>8 DEF Cli!Next

\* The command line runner, written apart from the browser's, keeps the same promise:
\* requests in order, one lasting verdict each, none after a skipped one (runner.ts).
THEOREM ImplementsOrderedRun == RunnersSpec => Cli!RefinesOrderedRun
<1>1. Cli!Init => Cli!Abs!Init
  BY OrderStart
<1>2. IInv /\ [Cli!Next]_(Cli!vars) => [Cli!Abs!Next]_[r \in {"cli"} |-> cliStatus]
  BY OrderStep
<1> QED BY <1>1, <1>2, Invariant, CliBehaviour, PTL DEF Cli!RefinesOrderedRun, Cli!Abs!Spec

=============================================================================
