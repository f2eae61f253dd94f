------------------------------ MODULE Scripts ------------------------------
(***************************************************************************)
(* The script sandbox of the web application: the one ScriptRunner object  *)
(* of utils/sandbox/script.runner.ts under src/apps/web/src, and the       *)
(* hidden frame it talks to, public/sandbox.html.                          *)
(*                                                                         *)
(* The page and the frame run side by side and exchange messages.  On the  *)
(* page an event runs to its end, and the code that awaits a promise goes  *)
(* on before the next event: Quiet says that none is due.  A message sent  *)
(* before the frame has its listener, or to a frame whose origin is not    *)
(* the target named, reaches nobody.                                       *)
(*                                                                         *)
(* A script that is given `pm` may await; what other scripts do meanwhile  *)
(* is what this module is about.  A script's effect on its request is left *)
(* out, and its console output is one line.                                *)
(***************************************************************************)
EXTENDS Naturals

CONSTANTS
  Callers,  \* the page code that runs scripts, one at a time each
  Ids       \* request ids; a bound on the calls and scripts alive at once

ASSUME IdsAssumption == Ids \subseteq Nat \ {0}

VARIABLES
  opaque,   \* whether the browser gives a sandboxed frame its own origin
  frame,    \* the iframe
  pending,  \* the ids of pendingRequests
  timers,   \* the ids whose timeout is set
  job,      \* job[i]: the message and script of id i, on the frame's side
  logs,     \* the frame's `logs`, as the ids that wrote a line
  call      \* call[c]: the promise caller c awaits

runner == <<frame, pending, timers, call>>
sandbox == <<job, logs>>
scriptVars == <<opaque, runner, sandbox>>

Frame == {"none", "loading", "ready", "deaf"}
JobState == {"free", "unheard", "posted", "running", "answered"}

\* `logs` is what its result carries; `wrote` and `beside` are history: whether
\* it wrote a line, and the ids whose scripts ran while it did.
Job == [at : JobState, logs : SUBSET Ids, wrote : BOOLEAN, beside : SUBSET Ids]
NoJob == [at |-> "free", logs |-> {}, wrote |-> FALSE, beside |-> {}]

\* An awaited promise: of which id, and what it has settled with.
Call == [id : Ids \cup {0}, got : {"nothing", "rejected", "result"},
         error : BOOLEAN]
NoCall == [id |-> 0, got |-> "nothing", error |-> FALSE]
Rejected == [NoCall EXCEPT !.got = "rejected"]
Result(error) == [NoCall EXCEPT !.got = "result", !.error = error]

ScriptsInit ==
  /\ opaque \in BOOLEAN
  /\ frame = "none"
  /\ pending = {}
  /\ timers = {}
  /\ job = [i \in Ids |-> NoJob]
  /\ logs = {}
  /\ call = [c \in Callers |-> NoCall]

Settled(c) == call[c].got # "nothing"
Quiet == \A c \in Callers : ~Settled(c)

-----------------------------------------------------------------------------
(***************************************************************************)
(* The page's side: initialize, runScript and runTestScript (Ask), the     *)
(* two ways a promise settles, and destroy.                                *)
(***************************************************************************)

Initialize ==
  /\ frame' = IF frame = "none" THEN "loading" ELSE frame
  /\ UNCHANGED <<opaque, pending, timers, call, sandbox>>

\* The frame has run its script.
Load ==
  /\ frame = "loading"
  /\ frame' = IF opaque THEN "deaf" ELSE "ready"
  /\ UNCHANGED <<opaque, pending, timers, call, sandbox>>

Idle(i) == i \notin pending \cup timers
Unused == {i \in Ids : Idle(i) /\ job[i].at = "free"}

\* With no id left, a script whose call has timed out is taken to do nothing more.
Available == IF Unused # {} THEN Unused ELSE {i \in Ids : Idle(i)}

Ask(c) ==
  /\ IF frame = "none"
       THEN /\ call' = [call EXCEPT ![c] = Rejected]
            /\ UNCHANGED <<pending, timers, job>>
       ELSE \E i \in Available :
              /\ \A j \in Available : i <= j
              /\ call' = [call EXCEPT ![c] = [NoCall EXCEPT !.id = i]]
              /\ pending' = pending \cup {i}
              /\ timers' = timers \cup {i}
              /\ job' = [job EXCEPT ![i] = [NoJob EXCEPT !.at =
                           IF frame = "ready" THEN "posted" ELSE "unheard"]]
  /\ UNCHANGED <<opaque, frame, logs>>

\* The caller goes on with what it got.
Resume(c) == call' = [call EXCEPT ![c] = NoCall]

Awaited(i) == {c \in Callers : call[c].id = i /\ ~Settled(c)}

Settle(ids, outcome) ==
  call' = [c \in Callers |->
             IF call[c].id \in ids /\ ~Settled(c) THEN outcome ELSE call[c]]

\* Faulty variant: the entry goes and its timeout stays.
HandleMessageTimerLeft(i) ==
  /\ Quiet
  /\ job[i].at = "answered"
  /\ pending' = pending \ {i}
  /\ \E error \in BOOLEAN : Settle({i}, Result(error))
  /\ job' = [job EXCEPT ![i] = NoJob]
  /\ UNCHANGED <<opaque, frame, timers, logs>>

\* Faulty variant: the result is taken for a late one.
HandleMessageDropped(i) ==
  /\ Quiet
  /\ job[i].at = "answered"
  /\ pending' = pending \ {i}
  /\ timers' = timers \ {i}
  /\ job' = [job EXCEPT ![i] = NoJob]
  /\ UNCHANGED <<opaque, frame, call, logs>>

\* A result nobody waits for any more is dropped.  Whether it names an error is
\* chosen where it is read.
HandleMessage(i) ==
  /\ Quiet
  /\ job[i].at = "answered"
  /\ IF i \in pending
       THEN /\ timers' = timers \ {i}
            /\ pending' = pending \ {i}
            /\ \E error \in BOOLEAN : Settle({i}, Result(error))
       ELSE UNCHANGED <<timers, pending, call>>
  /\ job' = [job EXCEPT ![i] = NoJob]
  /\ UNCHANGED <<opaque, frame, logs>>

\* Faulty variant: the entry goes and nobody is told.
ExpireSilently(i) ==
  /\ Quiet
  /\ i \in timers
  /\ timers' = timers \ {i}
  /\ pending' = pending \ {i}
  /\ UNCHANGED <<opaque, frame, call, job, logs>>

\* The timeout, 5 or 10 seconds.  The script, if it runs, goes on running.
Expire(i) ==
  /\ Quiet
  /\ i \in timers
  /\ timers' = timers \ {i}
  /\ pending' = pending \ {i}
  /\ Settle({i}, Rejected)
  /\ job' = IF job[i].at = "unheard" THEN [job EXCEPT ![i] = NoJob] ELSE job
  /\ UNCHANGED <<opaque, frame, logs>>

\* The frame goes, and with it its scripts and every message under way.
Destroy ==
  /\ frame' = "none"
  /\ pending' = {}
  /\ timers' = timers \ pending
  /\ Settle(pending, Rejected)
  /\ job' = [i \in Ids |-> NoJob]
  /\ logs' = {}
  /\ UNCHANGED opaque

-----------------------------------------------------------------------------
(***************************************************************************)
(* The frame's side: handleRunScript and handleRunTestScript.              *)
(***************************************************************************)

Running == {i \in Ids : job[i].at = "running"}

\* Faulty variant: the array is not emptied.
EmptiedNever == logs

\* logs.length = 0: whoever is still writing loses its lines.
Emptied == {}

Begin(i) ==
  /\ job[i].at = "posted"
  /\ logs' = Emptied
  /\ job' = [j \in Ids |->
               IF j = i THEN [job[i] EXCEPT !.at = "running", !.beside = Running]
               ELSE IF j \in Running THEN [job[j] EXCEPT !.beside = @ \cup {i}]
               ELSE job[j]]
  /\ UNCHANGED <<opaque, runner>>

Write(i) ==
  /\ job[i].at = "running" /\ ~job[i].wrote
  /\ logs' = logs \cup {i}
  /\ job' = [job EXCEPT ![i].wrote = TRUE]
  /\ UNCHANGED <<opaque, runner>>

\* A script may also never end.
End(i) ==
  /\ job[i].at = "running"
  /\ job' = [job EXCEPT ![i].at = "answered", ![i].logs = logs]
  /\ UNCHANGED <<opaque, runner, logs>>

FrameStep == \E i \in Ids : Begin(i) \/ Write(i) \/ End(i)

-----------------------------------------------------------------------------
ScriptsTypeOK ==
  /\ opaque \in BOOLEAN
  /\ frame \in Frame
  /\ pending \subseteq Ids
  /\ timers \subseteq Ids
  /\ job \in [Ids -> Job]
  /\ logs \subseteq Ids
  /\ call \in [Callers -> Call]

\* Each entry of the pending map has its timeout and exactly one caller waiting
\* for it, whoever waits has an entry, no timeout outlives its entry, and with
\* the frame gone nothing is left (script.runner.ts: handleMessage, destroy).
NothingLeft ==
  /\ timers = pending
  /\ \A c \in Callers : (call[c].id # 0 /\ ~Settled(c)) => call[c].id \in pending
  /\ \A i \in pending : \E c \in Callers : Awaited(i) = {c}
  /\ frame = "none" => pending = {}

\* The console lines of a result are the script's own and those of scripts that
\* ran while it did; it lacks its own only if one of those emptied the array
\* (sandbox.html: logs is one array for all scripts).
ConsoleIsOwn ==
  \A i \in Ids : job[i].at = "answered" =>
    /\ job[i].logs \subseteq {i} \cup job[i].beside
    /\ (job[i].wrote /\ job[i].beside = {}) => i \in job[i].logs

=============================================================================
