--------------------------- MODULE CollectionRun ---------------------------
(***************************************************************************)
(* The collection runner of the web application and the request builder    *)
(* beside it, two users of the script sandbox: hooks/useCollectionRunner.ts,*)
(* components/collections/CollectionRunnerModal.tsx and                    *)
(* hooks/useScriptRunner.ts under src/apps/web/src.                        *)
(*                                                                         *)
(* The page /request holds both.  Its builder sets the sandbox up when the *)
(* page is entered and destroys it when the page is left; a loop under way *)
(* goes on after that, with no one to show its results to.  Each opening   *)
(* of the runner's window is a hook instance and a run of its own.         *)
(*                                                                         *)
(* A request is sent through the API server, which answers or fails within *)
(* its own timeout.  A response's status is good (200 to 399) or not, and  *)
(* a test script's tests all pass or not.                                  *)
(***************************************************************************)
EXTENDS Scripts, FiniteSets

CONSTANTS
  Runs,     \* openings of the runner's window
  Senders,  \* sends of the request builder
  Size,     \* requests in the collection
  Pre,      \* those with a pre-request script
  Test      \* those with a test script

ASSUME CallersAssumption == Callers = Runs \cup Senders /\ Runs \cap Senders = {}
ASSUME SizeAssumption ==
  Size \in Nat \ {0} /\ Pre \subseteq 1 .. Size /\ Test \subseteq 1 .. Size

VARIABLES
  open,     \* whether the page is open
  shown,    \* the run its window shows, or NoRun
  run,      \* run[r]: the loop's locals and its cancelRef
  status,   \* status[r]: the results, as shown or last shown
  summary,  \* summary[r]: the summary, likewise
  send      \* send[s]: where a send of the builder is

runVars == <<open, shown, run, status, summary, send>>
vars == <<scriptVars, runVars>>

NoRun == "none"
ASSUME RunsAssumption == NoRun \notin Runs

Requests == 1 .. Size
Verdict == {"passed", "failed", "errored"}
RunStatus == Verdict \cup {"pending", "running", "skipped"}

NoCounts == [v \in Verdict |-> 0]
Run == [at : {"unused", "next", "pre", "execute", "test", "ended"},
        i : 0 .. Size, cancel : BOOLEAN, counts : [Verdict -> 0 .. Size]]
Summary == [completed : 0 .. Size, counts : [Verdict -> 0 .. Size]]

Init ==
  /\ ScriptsInit
  /\ open = FALSE
  /\ shown = NoRun
  /\ run = [r \in Runs |->
              [at |-> "unused", i |-> 0, cancel |-> FALSE, counts |-> NoCounts]]
  /\ status = [r \in Runs |-> [i \in Requests |-> "pending"]]
  /\ summary = [r \in Runs |-> [completed |-> 0, counts |-> NoCounts]]
  /\ send = [s \in Senders |-> "unused"]

\* No code of the page is due before the next event.
PageQuiet == Quiet /\ \A r \in Runs : run[r].at # "next"

Goto(r, label) == run' = [run EXCEPT ![r].at = label]

-----------------------------------------------------------------------------
(***************************************************************************)
(* The page: the builder's mount and unmount, and the runner's window.     *)
(***************************************************************************)

Enter ==
  /\ PageQuiet
  /\ ~open
  /\ open' = TRUE
  /\ Initialize
  /\ UNCHANGED <<shown, run, status, summary, send>>

Leave ==
  /\ PageQuiet
  /\ open
  /\ open' = FALSE
  /\ shown' = NoRun
  /\ Destroy
  /\ UNCHANGED <<run, status, summary, send>>

\* The window opens and starts its run; initialize finds the frame there.
OpenRunner(r) ==
  /\ PageQuiet
  /\ open /\ shown = NoRun /\ run[r].at = "unused"
  /\ shown' = r
  /\ Goto(r, "next")
  /\ UNCHANGED <<scriptVars, open, status, summary, send>>

Stop ==
  /\ PageQuiet
  /\ \E r \in Runs : /\ shown = r /\ run[r].at # "ended"
                     /\ run' = [run EXCEPT ![r].cancel = TRUE]
  /\ UNCHANGED <<scriptVars, open, shown, status, summary, send>>

\* The window has no way to close while its run goes on.
CloseRunner ==
  /\ PageQuiet
  /\ \E r \in Runs : shown = r /\ run[r].at = "ended"
  /\ shown' = NoRun
  /\ UNCHANGED <<scriptVars, open, run, status, summary, send>>

-----------------------------------------------------------------------------
(***************************************************************************)
(* The loop of run.  setResults and setSummary of a hook that is unmounted *)
(* do nothing.                                                             *)
(***************************************************************************)

Mark(r, f) == status' = IF shown = r THEN [status EXCEPT ![r] = f] ELSE status

MarkOne(r, s) == Mark(r, [status[r] EXCEPT ![run[r].i] = s])

NextRequest(r) ==
  LET j == run[r].i + 1 IN
  /\ run[r].at = "next" /\ j <= Size /\ ~run[r].cancel
  /\ run' = [run EXCEPT ![r].i = j, ![r].at = IF j \in Pre THEN "pre" ELSE "execute"]
  /\ Mark(r, [status[r] EXCEPT ![j] = "running"])
  /\ IF j \in Pre THEN Ask(r) ELSE UNCHANGED scriptVars
  /\ UNCHANGED <<open, shown, summary, send>>

\* Faulty variant: the request that has just ended is skipped too.
SkipOneEarly(r) ==
  LET j == run[r].i IN
  /\ run[r].at = "next" /\ j < Size /\ run[r].cancel
  /\ Mark(r, [i \in Requests |-> IF i >= j THEN "skipped" ELSE status[r][i]])
  /\ Goto(r, "ended")
  /\ UNCHANGED <<scriptVars, open, shown, summary, send>>

SkipRest(r) ==
  LET j == run[r].i + 1 IN
  /\ run[r].at = "next" /\ j <= Size /\ run[r].cancel
  /\ Mark(r, [i \in Requests |-> IF i >= j THEN "skipped" ELSE status[r][i]])
  /\ Goto(r, "ended")
  /\ UNCHANGED <<scriptVars, open, shown, summary, send>>

EndRun(r) ==
  /\ run[r].at = "next" /\ run[r].i = Size
  /\ Goto(r, "ended")
  /\ UNCHANGED <<scriptVars, open, shown, status, summary, send>>

\* Faulty variant: both catch blocks count.
JudgeTwice(r, v) ==
  /\ run' = [run EXCEPT ![r].at = "next", ![r].counts[v] = @ + 2]
  /\ MarkOne(r, v)
  /\ UNCHANGED <<open, shown, send>>

\* The verdict on the request, counted, and shown as the step's caller says.
Judge(r, v) ==
  /\ run' = [run EXCEPT ![r].at = "next", ![r].counts[v] = @ + 1]
  /\ MarkOne(r, v)
  /\ UNCHANGED <<open, shown, send>>

\* Faulty variant: the summary shows the counts of one request before.
SummarizeBefore(r) ==
  summary' = IF shown = r
               THEN [summary EXCEPT ![r] = [completed |-> run[r].i,
                                            counts |-> run[r].counts]]
               ELSE summary

Summarize(r) ==
  summary' = IF shown = r
               THEN [summary EXCEPT ![r] = [completed |-> run[r].i,
                                            counts |-> run'[r].counts]]
               ELSE summary

PreDone(r) ==
  /\ run[r].at = "pre" /\ Settled(r)
  /\ Resume(r)
  /\ IF call[r].got = "result" /\ ~call[r].error
       THEN /\ Goto(r, "execute")
            /\ UNCHANGED <<open, shown, status, summary, send>>
       ELSE Judge(r, "errored") /\ Summarize(r)
  /\ UNCHANGED <<opaque, frame, pending, timers, sandbox>>

\* The `continue` of this branch leaves the summary as it is.
ExecuteFails(r) ==
  /\ PageQuiet
  /\ run[r].at = "execute"
  /\ Judge(r, "errored")
  /\ UNCHANGED <<scriptVars, summary>>

ExecuteDone(r) ==
  /\ PageQuiet
  /\ run[r].at = "execute"
  /\ IF run[r].i \in Test
       THEN /\ Goto(r, "test")
            /\ Ask(r)
            /\ UNCHANGED <<open, shown, status, summary, send>>
       ELSE /\ \E v \in {"passed", "failed"} : Judge(r, v)
            /\ Summarize(r)
            /\ UNCHANGED scriptVars

TestDone(r) ==
  /\ run[r].at = "test" /\ Settled(r)
  /\ Resume(r)
  /\ \E v \in IF call[r].got = "rejected" THEN {"errored"}
              ELSE IF call[r].error THEN {"failed"} ELSE {"passed", "failed"} :
       Judge(r, v)
  /\ Summarize(r)
  /\ UNCHANGED <<opaque, frame, pending, timers, sandbox>>

-----------------------------------------------------------------------------
(***************************************************************************)
(* A send of the builder: runPreRequestScript and runTestScript of         *)
(* useScriptRunner.ts, each optional, with the request in between.  A      *)
(* script that fails does not stop it.                                     *)
(***************************************************************************)

SendTo(s, label) == send' = [send EXCEPT ![s] = label]

SendPre(s) ==
  /\ PageQuiet
  /\ open /\ send[s] = "unused"
  /\ SendTo(s, "pre")
  /\ Ask(s)
  /\ UNCHANGED <<open, shown, run, status, summary>>

SendPreDone(s) ==
  /\ send[s] = "pre" /\ Settled(s)
  /\ Resume(s)
  /\ SendTo(s, "execute")
  /\ UNCHANGED <<opaque, frame, pending, timers, sandbox,
                 open, shown, run, status, summary>>

SendTest(s) ==
  /\ PageQuiet
  /\ send[s] = "execute"
  /\ SendTo(s, "test")
  /\ Ask(s)
  /\ UNCHANGED <<open, shown, run, status, summary>>

SendTestDone(s) ==
  /\ send[s] = "test" /\ Settled(s)
  /\ Resume(s)
  /\ SendTo(s, "ended")
  /\ UNCHANGED <<opaque, frame, pending, timers, sandbox,
                 open, shown, run, status, summary>>

-----------------------------------------------------------------------------
Loop(r) ==
  \/ NextRequest(r) \/ SkipRest(r) \/ EndRun(r)
  \/ PreDone(r) \/ ExecuteFails(r) \/ ExecuteDone(r) \/ TestDone(r)

Window == Enter \/ Leave \/ Stop \/ CloseRunner \/ \E r \in Runs : OpenRunner(r)

Send(s) == SendPreDone(s) \/ SendTest(s) \/ SendTestDone(s)

Messages ==
  /\ PageQuiet
  /\ Load \/ \E i \in Ids : HandleMessage(i) \/ Expire(i)
  /\ UNCHANGED runVars

Frames == FrameStep /\ UNCHANGED runVars

Next ==
  \/ Window \/ Messages \/ Frames
  \/ \E r \in Runs : Loop(r)
  \/ \E s \in Senders : SendPre(s) \/ Send(s)

\* Promises settle, timeouts fire and the server answers; a script need not end,
\* a frame need not load, and nobody need press anything.
Fairness ==
  /\ \A r \in Runs : WF_vars(Loop(r))
  /\ \A s \in Senders : WF_vars(Send(s))
  /\ \A i \in Ids : WF_vars(PageQuiet /\ Expire(i) /\ UNCHANGED runVars)

Spec == Init /\ [][Next]_vars /\ Fairness

-----------------------------------------------------------------------------
TypeOK ==
  /\ ScriptsTypeOK
  /\ open \in BOOLEAN
  /\ shown \in Runs \cup {NoRun}
  /\ run \in [Runs -> Run]
  /\ status \in [Runs -> [Requests -> RunStatus]]
  /\ summary \in [Runs -> Summary]
  /\ send \in [Senders -> {"unused", "pre", "execute", "test", "ended"}]

Count(r, s) == Cardinality({i \in Requests : status[r][i] = s})

\* When the window shows an ended run, every request has its verdict or was
\* skipped after a Stop, and the summary counts the verdicts, except that it may
\* miss errored requests after the last one it counted: the requests the server
\* could not be reached for (useCollectionRunner.ts: continue).
SummaryTrue ==
  \A r \in Runs : (shown = r /\ run[r].at = "ended") =>
    LET Missed == {i \in Requests : i > summary[r].completed /\ status[r][i] = "errored"}
    IN /\ \A v \in {"passed", "failed"} : summary[r].counts[v] = Count(r, v)
       /\ summary[r].counts["errored"] + Cardinality(Missed) = Count(r, "errored")
       /\ \A i \in Requests : status[r][i] \in Verdict \cup {"skipped"}
       /\ Count(r, "skipped") > 0 => run[r].cancel

Abs == INSTANCE OrderedRun WITH Runs <- Runs, Size <- Size, status <- status

\* However runs overlap, with the builder and with each other, the window shows
\* requests running one at a time in their order, one lasting verdict each, and
\* none after a skipped one.
RefinesOrderedRun == Abs!Spec

\* Every run ends, also one whose page was left, whatever its scripts do.
Finishes == \A r \in Runs : (run[r].at # "unused") ~> (run[r].at = "ended")

\* Whoever waits for a script goes on: with its result, a timeout, or because
\* the sandbox is gone.
CallsSettle == \A c \in Callers : (call[c].id # 0) ~> (call[c].id = 0)

=============================================================================
