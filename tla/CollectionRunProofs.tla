------------------------ MODULE CollectionRunProofs ------------------------
(***************************************************************************)
(* Theorems about CollectionRun: the promises of the sandbox, the console  *)
(* lines of its scripts, and that the window shows an OrderedRun.          *)
(***************************************************************************)
EXTENDS CollectionRun, FiniteSetTheorems, TLAPS

USE IdsAssumption, CallersAssumption, SizeAssumption, RunsAssumption

-----------------------------------------------------------------------------
(***************************************************************************)
(* The sandbox, whoever uses it.                                           *)
(***************************************************************************)

\* A promise that has settled belongs to no id any more.
SettledFree == \A c \in Callers : Settled(c) => call[c].id = 0

\* What ConsoleIsOwn says of answers, said of the scripts still running: each has
\* been seen by every other one, and the array holds nothing of anyone else.
ConsoleShared ==
  /\ \A i \in Ids : job[i].at \in {"unheard", "posted"} => ~job[i].wrote
  /\ \A i, j \in Running : i # j => j \in job[i].beside
  /\ \A i \in Running : /\ logs \subseteq {i} \cup job[i].beside
                        /\ (job[i].wrote /\ job[i].beside = {}) => i \in logs

Console == ConsoleShared /\ ConsoleIsOwn
Promises == SettledFree /\ NothingLeft
ScriptsInv == ScriptsTypeOK /\ Promises /\ Console

\* A job that is replaced by one that has not begun disturbs no other.
LEMMA JobReset ==
  ASSUME ScriptsTypeOK, Console, NEW i \in Ids, NEW s \in {"free", "unheard", "posted"},
         job' = [job EXCEPT ![i] = [NoJob EXCEPT !.at = s]], UNCHANGED logs
  PROVE  Console' /\ job' \in [Ids -> Job]
<1>1. job'[i] = [NoJob EXCEPT !.at = s] /\ \A j \in Ids \ {i} : job'[j] = job[j]
  BY DEF ScriptsTypeOK
<1>2. Running' = Running \ {i}
  BY <1>1 DEF Running, NoJob
<1>3. ConsoleShared'
  BY <1>1, <1>2 DEF Console, ConsoleShared, NoJob, Running
<1>4. ConsoleIsOwn'
  BY <1>1 DEF Console, ConsoleIsOwn, NoJob
<1>5. job' \in [Ids -> Job]
  BY DEF ScriptsTypeOK, Job, NoJob, JobState
<1> QED BY <1>3, <1>4, <1>5 DEF Console

LEMMA SameJobs == ASSUME Console, UNCHANGED sandbox PROVE Console'
BY DEF Console, ConsoleShared, ConsoleIsOwn, Running, sandbox

LEMMA SameScripts == ASSUME ScriptsInv, UNCHANGED scriptVars PROVE ScriptsInv' /\ UNCHANGED call
<1>1. UNCHANGED <<opaque, frame, pending, timers, call, job, logs>>
  BY DEF scriptVars, runner, sandbox
<1>2. Console'
  BY <1>1, SameJobs DEF ScriptsInv, sandbox
<1> QED BY <1>1, <1>2 DEF ScriptsInv, ScriptsTypeOK, Promises, SettledFree, NothingLeft, Settled,
                          Awaited

LEMMA ScriptsStart == ScriptsInit => ScriptsInv
<1> SUFFICES ASSUME ScriptsInit PROVE ScriptsInv
  OBVIOUS
<1>1. ScriptsTypeOK
  BY DEF ScriptsInit, ScriptsTypeOK, Frame, Job, NoJob, JobState, Call, NoCall
<1>2. Promises
  BY DEF ScriptsInit, Promises, SettledFree, NothingLeft, Settled, NoCall
<1>3. Console
  BY DEF ScriptsInit, Console, ConsoleShared, ConsoleIsOwn, Running, NoJob
<1> QED BY <1>1, <1>2, <1>3 DEF ScriptsInv

LEMMA FrameComes ==
  ASSUME ScriptsInv, Initialize \/ Load
  PROVE  ScriptsInv'
<1>1. /\ UNCHANGED <<opaque, pending, timers, call, sandbox>>
      /\ frame' \in Frame /\ (frame' = "none" => frame = "none")
  BY DEF Initialize, Load, ScriptsInv, ScriptsTypeOK, Frame
<1>2. ScriptsTypeOK' /\ Console'
  BY <1>1, SameJobs DEF ScriptsInv, ScriptsTypeOK, sandbox
<1>3. Promises'
  BY <1>1 DEF ScriptsInv, Promises, SettledFree, NothingLeft, Settled, Awaited
<1> QED BY <1>2, <1>3 DEF ScriptsInv

\* Somebody who waits for nothing asks for a script.
LEMMA AskKeeps ==
  ASSUME ScriptsInv, NEW c \in Callers, call[c] = NoCall, Ask(c)
  PROVE  ScriptsInv' /\ \A d \in Callers \ {c} : call'[d] = call[d]
<1>1. /\ ScriptsTypeOK /\ SettledFree /\ NothingLeft /\ Console
      /\ call[c].id = 0 /\ call[c].got = "nothing"
  BY DEF ScriptsInv, Promises, NoCall
<1>2. CASE frame = "none"
  <2>1. /\ UNCHANGED <<opaque, frame, pending, timers, sandbox>>
        /\ call' = [call EXCEPT ![c] = Rejected]
    BY <1>2 DEF Ask, sandbox
  <2>2. /\ call'[c].id = 0 /\ call'[c].got = "rejected" /\ call' \in [Callers -> Call]
        /\ \A d \in Callers \ {c} : call'[d] = call[d]
    BY <1>1, <2>1 DEF ScriptsTypeOK, Call, Rejected, NoCall
  <2>3. ScriptsTypeOK' /\ Console'
    BY <1>1, <2>1, <2>2, SameJobs DEF ScriptsTypeOK, sandbox
  <2>4. \A i \in Ids : Awaited(i)' = Awaited(i)
    BY <1>1, <2>2 DEF Awaited, Settled
  <2>5. Promises'
    BY <1>1, <2>1, <2>2, <2>4 DEF Promises, SettledFree, NothingLeft, Settled, ScriptsTypeOK
  <2> QED BY <2>2, <2>3, <2>5 DEF ScriptsInv
<1>3. CASE frame # "none"
  <2>1. PICK i \in Available :
          /\ call' = [call EXCEPT ![c] = [NoCall EXCEPT !.id = i]]
          /\ pending' = pending \cup {i} /\ timers' = timers \cup {i}
          /\ job' = [job EXCEPT ![i] = [NoJob EXCEPT !.at =
                       IF frame = "ready" THEN "posted" ELSE "unheard"]]
    BY <1>3 DEF Ask
  <2>2. i \in Ids /\ i # 0 /\ i \notin pending /\ i \notin timers
    BY DEF Available, Unused, Idle
  <2>3. /\ call'[c].id = i /\ call'[c].got = "nothing" /\ call' \in [Callers -> Call]
        /\ \A d \in Callers \ {c} : call'[d] = call[d]
    BY <1>1, <2>1, <2>2 DEF ScriptsTypeOK, Call, NoCall
  <2>4. UNCHANGED <<opaque, frame, logs>>
    BY DEF Ask
  <2>5. Console' /\ job' \in [Ids -> Job]
    BY <1>1, <2>1, <2>2, <2>4, JobReset
  <2>6. ScriptsTypeOK'
    BY <1>1, <2>1, <2>2, <2>3, <2>4, <2>5 DEF ScriptsTypeOK
  <2>7. Awaited(i)' = {c}
    BY <1>1, <2>2, <2>3 DEF Awaited, Settled, NothingLeft
  <2>8. \A j \in pending : Awaited(j)' = Awaited(j)
    BY <1>1, <2>2, <2>3 DEF Awaited, Settled, ScriptsTypeOK
  <2>9. SettledFree'
    BY <1>1, <2>3 DEF SettledFree, Settled
  <2>10. NothingLeft'
    BY <1>1, <1>3, <2>1, <2>2, <2>3, <2>4, <2>7, <2>8 DEF NothingLeft, Settled
  <2> QED BY <2>3, <2>5, <2>6, <2>9, <2>10 DEF ScriptsInv, Promises
<1> QED BY <1>2, <1>3

LEMMA ResumeKeeps ==
  ASSUME ScriptsInv, NEW c \in Callers, Settled(c), Resume(c),
         UNCHANGED <<opaque, frame, pending, timers, sandbox>>
  PROVE  ScriptsInv' /\ call'[c] = NoCall /\ \A d \in Callers \ {c} : call'[d] = call[d]
<1>1. ScriptsTypeOK /\ SettledFree /\ NothingLeft /\ Console
  BY DEF ScriptsInv, Promises
<1>2. /\ call'[c] = NoCall /\ call[c].id = 0 /\ call' \in [Callers -> Call]
      /\ \A d \in Callers \ {c} : call'[d] = call[d]
  BY <1>1 DEF Resume, ScriptsTypeOK, SettledFree, Call, NoCall
<1>3. ScriptsTypeOK' /\ Console'
  BY <1>1, <1>2, SameJobs DEF ScriptsTypeOK, sandbox
<1>4. \A i \in Ids : Awaited(i)' = Awaited(i)
  BY <1>1, <1>2 DEF Awaited, Settled, NoCall
<1>5. Promises'
  BY <1>1, <1>2, <1>4 DEF Promises, SettledFree, NothingLeft, Settled, NoCall, ScriptsTypeOK
<1> QED BY <1>2, <1>3, <1>5 DEF ScriptsInv

\* Entries go together with their timeouts, and those who waited for them know.
LEMMA SettleKeeps ==
  ASSUME ScriptsInv, NEW ids \in SUBSET Ids, NEW outcome \in Call,
         outcome.id = 0, outcome.got # "nothing", Settle(ids, outcome),
         pending' = pending \ ids, timers' = timers \ ids,
         frame' = "none" => pending' = {}
  PROVE  /\ Promises' /\ call' \in [Callers -> Call]
         /\ pending' \subseteq Ids /\ timers' \subseteq Ids
<1>1. ScriptsTypeOK /\ SettledFree /\ NothingLeft
  BY DEF ScriptsInv, Promises
<1>2. /\ call' \in [Callers -> Call]
      /\ \A c \in Callers : call'[c] = IF call[c].id \in ids /\ ~Settled(c) THEN outcome
                                       ELSE call[c]
  BY <1>1 DEF Settle, ScriptsTypeOK
<1>3. \A i \in pending' : Awaited(i)' = Awaited(i)
  BY <1>1, <1>2 DEF Awaited, Settled, ScriptsTypeOK
<1>4. SettledFree'
  BY <1>1, <1>2 DEF SettledFree, Settled
<1>5. NothingLeft'
  BY <1>1, <1>2, <1>3 DEF NothingLeft, Settled
<1> QED BY <1>1, <1>2, <1>4, <1>5 DEF Promises, ScriptsTypeOK

\* A promise is settled only for someone who waits for it.
LEMMA SettleSpares ==
  ASSUME NEW ids \in SUBSET Ids, NEW outcome, Settle(ids, outcome)
  PROVE  \A c \in Callers : call[c] = NoCall => call'[c] = NoCall
BY DEF Settle, NoCall

LEMMA HandleKeeps ==
  ASSUME ScriptsInv, NEW i \in Ids, HandleMessage(i)
  PROVE  ScriptsInv' /\ \A c \in Callers : call[c] = NoCall => call'[c] = NoCall
<1>1. ScriptsTypeOK /\ Promises /\ Console
  BY DEF ScriptsInv
<1>2. job' = [job EXCEPT ![i] = [NoJob EXCEPT !.at = "free"]] /\ UNCHANGED <<opaque, frame, logs>>
  BY DEF HandleMessage, NoJob
<1>3. Console' /\ job' \in [Ids -> Job]
  BY <1>1, <1>2, JobReset
<1>4. CASE i \in pending
  <2>1. PICK error \in BOOLEAN : Settle({i}, Result(error))
    BY <1>4 DEF HandleMessage
  <2>2. Result(error) \in Call /\ Result(error).id = 0 /\ Result(error).got # "nothing"
    BY DEF Result, NoCall, Call
  <2>3. pending' = pending \ {i} /\ timers' = timers \ {i}
    BY <1>4 DEF HandleMessage
  <2>4. frame' = "none" => pending' = {}
    BY <1>1, <1>2, <2>3 DEF Promises, NothingLeft
  <2>5. Promises' /\ call' \in [Callers -> Call] /\ pending' \subseteq Ids /\ timers' \subseteq Ids
    BY <2>1, <2>2, <2>3, <2>4, SettleKeeps
  <2>6. \A c \in Callers : call[c] = NoCall => call'[c] = NoCall
    BY <2>1, SettleSpares
  <2> QED BY <1>1, <1>2, <1>3, <2>5, <2>6 DEF ScriptsInv, ScriptsTypeOK
<1>5. CASE i \notin pending
  <2>1. UNCHANGED <<timers, pending, call>>
    BY <1>5 DEF HandleMessage
  <2> QED BY <1>1, <1>2, <1>3, <2>1
          DEF ScriptsInv, ScriptsTypeOK, Promises, SettledFree, NothingLeft, Settled, Awaited
<1> QED BY <1>4, <1>5

LEMMA RejectedIsCall == Rejected \in Call /\ Rejected.id = 0 /\ Rejected.got # "nothing"
BY DEF Rejected, NoCall, Call

LEMMA ExpireKeeps ==
  ASSUME ScriptsInv, NEW i \in Ids, Expire(i)
  PROVE  ScriptsInv' /\ \A c \in Callers : call[c] = NoCall => call'[c] = NoCall
<1>1. ScriptsTypeOK /\ Promises /\ Console
  BY DEF ScriptsInv
<1>2. /\ pending' = pending \ {i} /\ timers' = timers \ {i} /\ Settle({i}, Rejected)
      /\ UNCHANGED <<opaque, frame, logs>>
  BY DEF Expire
<1>3. frame' = "none" => pending' = {}
  BY <1>1, <1>2 DEF Promises, NothingLeft
<1>4. Promises' /\ call' \in [Callers -> Call] /\ pending' \subseteq Ids /\ timers' \subseteq Ids
  BY <1>2, <1>3, SettleKeeps, RejectedIsCall
<1>5. Console' /\ job' \in [Ids -> Job]
  <2>1. CASE job[i].at = "unheard"
    <3>1. job' = [job EXCEPT ![i] = [NoJob EXCEPT !.at = "free"]]
      BY <2>1 DEF Expire, NoJob
    <3> QED BY <1>1, <1>2, <3>1, JobReset
  <2>2. CASE job[i].at # "unheard"
    BY <1>1, <1>2, <2>2, SameJobs DEF Expire, sandbox, ScriptsTypeOK
  <2> QED BY <2>1, <2>2
<1>6. \A c \in Callers : call[c] = NoCall => call'[c] = NoCall
  BY <1>2, SettleSpares
<1> QED BY <1>1, <1>2, <1>4, <1>5, <1>6 DEF ScriptsInv, ScriptsTypeOK

LEMMA DestroyKeeps ==
  ASSUME ScriptsInv, Destroy
  PROVE  ScriptsInv' /\ \A c \in Callers : call[c] = NoCall => call'[c] = NoCall
<1>1. ScriptsTypeOK /\ Promises /\ pending \in SUBSET Ids
  BY DEF ScriptsInv, ScriptsTypeOK
<1>2. Promises' /\ call' \in [Callers -> Call] /\ pending' \subseteq Ids /\ timers' \subseteq Ids
  BY <1>1, SettleKeeps, RejectedIsCall DEF Destroy
<1>3. \A c \in Callers : call[c] = NoCall => call'[c] = NoCall
  BY <1>1, SettleSpares DEF Destroy
<1>4. Console' /\ job' \in [Ids -> Job]
  BY DEF Destroy, Console, ConsoleShared, ConsoleIsOwn, Running, NoJob, Job, JobState
<1> QED BY <1>1, <1>2, <1>3, <1>4 DEF ScriptsInv, ScriptsTypeOK, Destroy, Frame

\* What the frame's steps do to a job, field by field.
LEMMA JobWrites ==
  ASSUME NEW r \in Job, NEW n, n = [r EXCEPT !.wrote = TRUE]
  PROVE  n \in Job /\ n.at = r.at /\ n.beside = r.beside
BY DEF Job, JobState

LEMMA FrameKeeps ==
  ASSUME ScriptsInv, FrameStep
  PROVE  ScriptsInv' /\ UNCHANGED call
<1>1. ScriptsTypeOK /\ Promises /\ ConsoleShared /\ ConsoleIsOwn
  BY DEF ScriptsInv, Console
<1>2. UNCHANGED <<opaque, runner>>
  BY DEF FrameStep, Begin, Write, End
<1>3. Promises'
  BY <1>1, <1>2 DEF Promises, SettledFree, NothingLeft, Settled, Awaited, runner
<1>4. PICK i \in Ids : Begin(i) \/ Write(i) \/ End(i)
  BY DEF FrameStep
<1>5. CASE Begin(i)
  <2>1. /\ i \notin Running /\ logs' = {}
        /\ job'[i] = [job[i] EXCEPT !.at = "running", !.beside = Running]
        /\ \A j \in Running : job'[j] = [job[j] EXCEPT !.beside = job[j].beside \cup {i}]
        /\ \A j \in Ids : (j # i /\ j \notin Running) => job'[j] = job[j]
        /\ job' = [j \in Ids |-> job'[j]]
    BY <1>5 DEF Begin, Emptied, Running
  <2>2. /\ job'[i] \in Job /\ job'[i].at = "running"
        /\ job'[i].beside = Running /\ job'[i].wrote = job[i].wrote
    <3>1. job[i] \in Job /\ Running \in SUBSET Ids
      BY <1>1 DEF ScriptsTypeOK, Running
    <3>2. job'[i] = [job[i] EXCEPT !.at = "running", !.beside = Running]
      BY <2>1
    <3>3. ASSUME NEW s \in SUBSET Ids, job'[i] = [job[i] EXCEPT !.at = "running", !.beside = s]
          PROVE  /\ job'[i] \in Job /\ job'[i].at = "running"
                 /\ job'[i].beside = s /\ job'[i].wrote = job[i].wrote
      BY <3>1, <3>3 DEF Job, JobState
    <3> QED BY <3>1, <3>2, <3>3
  <2>3. \A j \in Running : /\ job'[j] \in Job /\ job'[j].at = "running"
                            /\ job'[j].wrote = job[j].wrote
                            /\ job'[j].beside = job[j].beside \cup {i}
    <3> TAKE j \in Running
    <3>1. job[j] \in Job
      BY <1>1 DEF ScriptsTypeOK, Running
    <3>2. job[j].beside \cup {i} \in SUBSET Ids
      BY <3>1 DEF Job
    <3>3. job'[j] = [job[j] EXCEPT !.beside = job[j].beside \cup {i}]
      BY <2>1
    <3>4. ASSUME NEW s \in SUBSET Ids, job'[j] = [job[j] EXCEPT !.beside = s]
          PROVE  /\ job'[j] \in Job /\ job'[j].at = job[j].at
                 /\ job'[j].wrote = job[j].wrote /\ job'[j].beside = s
      BY <3>1, <3>4 DEF Job
    <3> QED BY <3>2, <3>3, <3>4 DEF Running
  <2>4. job' \in [Ids -> Job]
    <3>1. \A j \in Ids : job'[j] \in Job
      BY <1>1, <2>1, <2>2, <2>3 DEF ScriptsTypeOK
    <3> QED BY <2>1, <3>1
  <2>5. Running' = Running \cup {i}
    BY <2>1, <2>2, <2>3 DEF Running
  <2>6. ~job[i].wrote
    BY <1>1, <1>5 DEF Begin, ConsoleShared
  <2>7. ConsoleShared'
    <3>1. \A j \in Ids : job'[j].at \in {"unheard", "posted"} => ~job'[j].wrote
      BY <1>1, <2>1, <2>2, <2>3 DEF ConsoleShared, Running
    <3>2. \A j, k \in Running' : j # k => k \in job'[j].beside
      BY <1>1, <2>2, <2>3, <2>5 DEF ConsoleShared
    <3>3. \A j \in Running' : logs' \subseteq {j} \cup job'[j].beside
      BY <2>1
    <3>4. \A j \in Running' : ~(job'[j].wrote /\ job'[j].beside = {})
      BY <2>2, <2>3, <2>5, <2>6
    <3> QED BY <3>1, <3>2, <3>3, <3>4 DEF ConsoleShared
  <2>8. ConsoleIsOwn'
    BY <1>1, <2>1, <2>2, <2>3 DEF ConsoleIsOwn, Running
  <2> QED BY <1>1, <1>2, <1>3, <2>1, <2>4, <2>7, <2>8
          DEF ScriptsInv, ScriptsTypeOK, Console, runner
<1>6. CASE Write(i)
  <2>1. /\ i \in Running /\ logs' = logs \cup {i} /\ logs' \subseteq Ids
        /\ job' = [job EXCEPT ![i] = [job[i] EXCEPT !.wrote = TRUE]]
    BY <1>1, <1>6 DEF Write, Running, ScriptsTypeOK
  <2>2. /\ job'[i] \in Job /\ job'[i].at = "running" /\ job'[i].beside = job[i].beside
        /\ \A j \in Ids \ {i} : job'[j] = job[j]
        /\ job' \in [Ids -> Job]
    BY <1>1, <2>1, JobWrites DEF ScriptsTypeOK, Running
  <2>3. Running' = Running /\ \A j \in Ids : job'[j].beside = job[j].beside
    BY <2>1, <2>2 DEF Running
  <2>4. ConsoleShared'
    <3>1. \A j \in Ids : job'[j].at \in {"unheard", "posted"} => ~job'[j].wrote
      BY <1>1, <2>2 DEF ConsoleShared
    <3>2. \A j, k \in Running' : j # k => k \in job'[j].beside
      BY <1>1, <2>3 DEF ConsoleShared, Running
    <3>3. \A j \in Running' : logs' \subseteq {j} \cup job'[j].beside
      BY <1>1, <2>1, <2>3 DEF ConsoleShared, Running
    <3>4. \A j \in Running' : (job'[j].wrote /\ job'[j].beside = {}) => j \in logs'
      BY <1>1, <2>1, <2>2, <2>3 DEF ConsoleShared, Running
    <3> QED BY <3>1, <3>2, <3>3, <3>4 DEF ConsoleShared
  <2>5. ConsoleIsOwn'
    BY <1>1, <2>2 DEF ConsoleIsOwn
  <2> QED BY <1>1, <1>2, <1>3, <2>1, <2>2, <2>4, <2>5
          DEF ScriptsInv, ScriptsTypeOK, Console, runner
<1>7. CASE End(i)
  <2>1. /\ i \in Running /\ logs' = logs /\ logs \in SUBSET Ids
        /\ job' = [job EXCEPT ![i] = [job[i] EXCEPT !.at = "answered", !.logs = logs]]
    BY <1>1, <1>7 DEF End, Running, ScriptsTypeOK
  <2>2. /\ job'[i] \in Job /\ job'[i].at = "answered" /\ job'[i].logs = logs
        /\ job'[i].beside = job[i].beside /\ job'[i].wrote = job[i].wrote
        /\ \A j \in Ids \ {i} : job'[j] = job[j]
        /\ job' \in [Ids -> Job]
    <3> DEFINE n == [job[i] EXCEPT !.at = "answered", !.logs = logs]
    <3>1. job[i] \in Job
      BY <1>1 DEF ScriptsTypeOK
    <3>2. n \in Job /\ n.at = "answered" /\ n.logs = logs /\ n.beside = job[i].beside /\ n.wrote = job[i].wrote
      BY <2>1, <3>1 DEF Job, JobState
    <3>3. job' = [job EXCEPT ![i] = n]
      BY <2>1
    <3> HIDE DEF n
    <3> QED BY <1>1, <3>2, <3>3 DEF ScriptsTypeOK
  <2>3. Running' = Running \ {i}
    BY <2>2 DEF Running
  <2>4. ConsoleShared'
    BY <1>1, <2>1, <2>2, <2>3 DEF ConsoleShared, Running
  <2>5. ConsoleIsOwn'
    BY <1>1, <2>1, <2>2 DEF ConsoleIsOwn, ConsoleShared
  <2> QED BY <1>1, <1>2, <1>3, <2>1, <2>2, <2>4, <2>5
          DEF ScriptsInv, ScriptsTypeOK, Console, runner
<1> QED BY <1>2, <1>4, <1>5, <1>6, <1>7 DEF runner

-----------------------------------------------------------------------------
(***************************************************************************)
(* The runs and the sends that use it.                                     *)
(***************************************************************************)

Scripted == {"pre", "test"}

\* Who is not at a script awaits nothing, so that asking forgets no promise.
Free ==
  /\ \A r \in Runs : run[r].at \notin Scripted => call[r] = NoCall
  /\ \A s \in Senders : send[s] \notin Scripted => call[s] = NoCall

\* A run counts each request it has judged once at most.
Judged(r) ==
  /\ run[r].at \in {"pre", "execute", "test"} =>
       run[r].i > 0 /\ \A v \in Verdict : run[r].counts[v] < run[r].i
  /\ \A v \in Verdict : run[r].counts[v] <= run[r].i
  /\ run[r].at = "unused" => run[r].i = 0

Inv == TypeOK /\ ScriptsInv /\ Free /\ \A r \in Runs : Judged(r)

LEMMA Start == Init => Inv
<1> SUFFICES ASSUME Init PROVE Inv
  OBVIOUS
<1>1. ScriptsInv
  BY ScriptsStart DEF Init
<1>2. TypeOK
  <2>1. 0 \in 0 .. Size /\ NoCounts \in [Verdict -> 0 .. Size]
    BY DEF NoCounts
  <2>2. run \in [Runs -> Run] /\ summary \in [Runs -> Summary]
    BY <2>1 DEF Init, Run, Summary
  <2>3. status \in [Runs -> [Requests -> RunStatus]]
    BY DEF Init, RunStatus
  <2> QED BY <1>1, <2>2, <2>3 DEF ScriptsInv, Init, TypeOK, NoRun
<1>3. Free /\ \A r \in Runs : Judged(r)
  BY DEF Init, ScriptsInit, Free, Judged, Scripted, NoCounts, Verdict
<1> QED BY <1>1, <1>2, <1>3 DEF Inv

LEMMA SameFree ==
  ASSUME Free, UNCHANGED <<run, send>>, \A c \in Callers : call[c] = NoCall => call'[c] = NoCall
  PROVE  Free'
BY DEF Free

LEMMA SameJudged ==
  ASSUME \A r \in Runs : Judged(r), UNCHANGED run
  PROVE  \A r \in Runs : Judged(r)'
BY DEF Judged

\* Marking one's results keeps their shape.
LEMMA MarkKeeps ==
  ASSUME TypeOK, NEW r \in Runs, NEW f \in [Requests -> RunStatus], Mark(r, f)
  PROVE  status' \in [Runs -> [Requests -> RunStatus]]
BY DEF Mark, TypeOK

LEMMA GotoKeeps ==
  ASSUME Inv, NEW r \in Runs, NEW l \in {"next", "execute", "test", "ended"}, Goto(r, l),
         l \in {"execute", "test"} => run[r].at \in {"pre", "execute", "test"}
  PROVE  /\ run' \in [Runs -> Run] /\ run'[r].at = l
         /\ \A q \in Runs \ {r} : run'[q] = run[q]
         /\ \A q \in Runs : Judged(q)'
<1>1. run[r] \in Run /\ Judged(r)
  BY DEF Inv, TypeOK
<1>2. /\ run'[r] = [run[r] EXCEPT !.at = l] /\ run'[r] \in Run
      /\ run'[r].at = l /\ run'[r].i = run[r].i /\ run'[r].counts = run[r].counts
  BY <1>1 DEF Goto, Inv, TypeOK, Run
<1>3. run' \in [Runs -> Run] /\ \A q \in Runs \ {r} : run'[q] = run[q]
  BY <1>2 DEF Goto, Inv, TypeOK
<1>4. Judged(r)'
  BY <1>1, <1>2 DEF Judged
<1> QED BY <1>2, <1>3, <1>4 DEF Judged, Inv

LEMMA JudgeKeeps ==
  ASSUME Inv, NEW r \in Runs, NEW v \in Verdict, Judge(r, v),
         run[r].at \in {"pre", "execute", "test"}
  PROVE  /\ run' \in [Runs -> Run] /\ run'[r].at = "next" /\ run'[r].i = run[r].i
         /\ \A q \in Runs \ {r} : run'[q] = run[q]
         /\ \A q \in Runs : Judged(q)'
         /\ status' \in [Runs -> [Requests -> RunStatus]]
         /\ UNCHANGED <<open, shown, send>>
<1>1. /\ run[r] \in Run /\ Judged(r)
      /\ run[r].counts \in [Verdict -> 0 .. Size] /\ run[r].i \in 0 .. Size
  BY DEF Inv, TypeOK, Run
<1> DEFINE n == [run[r].counts EXCEPT ![v] = @ + 1]
<1>2. /\ n \in [Verdict -> 0 .. Size]
      /\ \A w \in Verdict : n[w] <= run[r].i
  BY <1>1 DEF Judged
<1>3. run' = [run EXCEPT ![r] = [run[r] EXCEPT !.at = "next", !.counts = n]]
  BY DEF Judge, Inv, TypeOK, Run
<1> HIDE DEF n
<1>4. [run[r] EXCEPT !.at = "next", !.counts = n] \in Run
  BY <1>1, <1>2 DEF Run
<1>5. /\ run' \in [Runs -> Run] /\ run'[r].at = "next" /\ run'[r].i = run[r].i
      /\ run'[r].counts = n /\ \A q \in Runs \ {r} : run'[q] = run[q]
  BY <1>1, <1>3, <1>4 DEF Inv, TypeOK, Run
<1>6. \A q \in Runs : Judged(q)'
  BY <1>2, <1>5 DEF Judged, Inv
<1>7. status' \in [Runs -> [Requests -> RunStatus]]
  <2>1. status[r] \in [Requests -> RunStatus] /\ v \in RunStatus
    BY DEF Inv, TypeOK, RunStatus
  <2>2. [status[r] EXCEPT ![run[r].i] = v] \in [Requests -> RunStatus]
    BY <2>1
  <2> QED BY <2>2, MarkKeeps DEF Judge, MarkOne, Inv
<1> QED BY <1>5, <1>6, <1>7 DEF Judge

LEMMA SummarizeKeeps ==
  ASSUME Inv, run' \in [Runs -> Run], NEW r \in Runs, Summarize(r)
  PROVE  summary' \in [Runs -> Summary]
<1>1. run'[r].counts \in [Verdict -> 0 .. Size] /\ run[r].i \in 0 .. Size
  BY DEF Inv, TypeOK, Run
<1>2. [completed |-> run[r].i, counts |-> run'[r].counts] \in Summary
  BY <1>1 DEF Summary
<1> QED BY <1>2 DEF Summarize, Inv, TypeOK

\* A step of run r, which may settle, ask or leave the sandbox alone.
LEMMA RunStep ==
  ASSUME Inv, ScriptsInv', NEW r \in Runs, run' \in [Runs -> Run],
         \A q \in Runs \ {r} : run'[q] = run[q], \A q \in Runs : Judged(q)',
         UNCHANGED <<open, shown, send>>,
         status' \in [Runs -> [Requests -> RunStatus]], summary' \in [Runs -> Summary],
         \A c \in Callers \ {r} : call'[c] = call[c],
         run'[r].at \notin Scripted => call'[r] = NoCall
  PROVE  Inv'
<1>1. TypeOK'
  BY DEF Inv, TypeOK, ScriptsInv
<1>2. Free'
  BY DEF Inv, Free
<1> QED BY <1>1, <1>2 DEF Inv

LEMMA NextRequestKeeps == ASSUME Inv, NEW r \in Runs, NextRequest(r) PROVE Inv'
<1> DEFINE j == run[r].i + 1
           label == IF j \in Pre THEN "pre" ELSE "execute"
           n == [run[r] EXCEPT !.i = j, !.at = label]
<1>1. /\ run[r] \in Run /\ Judged(r) /\ call[r] = NoCall /\ r \in Callers
      /\ run[r].counts \in [Verdict -> 0 .. Size] /\ run[r].i \in 0 .. Size /\ run[r].at = "next"
  BY DEF Inv, TypeOK, Run, Free, Scripted, NextRequest
<1>2. j \in 1 .. Size /\ j > run[r].i
  BY <1>1 DEF NextRequest
<1>3. /\ n \in Run /\ n.i = j /\ n.counts = run[r].counts
      /\ n.at = label
  <2>1. j \in 0 .. Size /\ label \in {"pre", "execute"}
    BY <1>2
  <2> HIDE DEF j, label
  <2> QED BY <1>1, <2>1 DEF Run
<1>4. run' = [run EXCEPT ![r] = n]
  BY DEF NextRequest, Inv, TypeOK
<1>5. /\ run' \in [Runs -> Run] /\ run'[r] = n /\ \A q \in Runs \ {r} : run'[q] = run[q]
  BY <1>3, <1>4 DEF Inv, TypeOK
<1>6. Judged(r)'
  BY <1>1, <1>2, <1>3, <1>5 DEF Judged
<1>7. \A q \in Runs : Judged(q)'
  BY <1>5, <1>6 DEF Judged, Inv
<1>8. status' \in [Runs -> [Requests -> RunStatus]]
  <2>1. [status[r] EXCEPT ![j] = "running"] \in [Requests -> RunStatus]
    BY DEF Inv, TypeOK, RunStatus
  <2> QED BY <2>1, MarkKeeps DEF NextRequest, Inv
<1>9. /\ ScriptsInv' /\ \A c \in Callers \ {r} : call'[c] = call[c]
      /\ run'[r].at \notin Scripted => call'[r] = NoCall
  <2>1. CASE j \in Pre
    BY <1>1, <1>3, <1>5, <2>1, AskKeeps DEF NextRequest, Scripted, Inv
  <2>2. CASE j \notin Pre
    <3>1. UNCHANGED scriptVars
      BY <2>2 DEF NextRequest
    <3> QED BY <1>1, <3>1, SameScripts DEF Inv
  <2> QED BY <2>1, <2>2
<1> HIDE DEF n, j, label
<1> QED BY <1>5, <1>7, <1>8, <1>9, RunStep DEF NextRequest, Inv, TypeOK

LEMMA EndKeeps == ASSUME Inv, NEW r \in Runs, SkipRest(r) \/ EndRun(r) PROVE Inv'
<1>1. /\ Goto(r, "ended") /\ UNCHANGED <<scriptVars, open, shown, summary, send>>
      /\ call[r] = NoCall /\ r \in Callers
  BY DEF SkipRest, EndRun, Inv, Free, Scripted
<1>2. status' \in [Runs -> [Requests -> RunStatus]]
  <2>1. CASE SkipRest(r)
    <3> DEFINE f == [i \in Requests |-> IF i >= run[r].i + 1 THEN "skipped" ELSE status[r][i]]
    <3>1. f \in [Requests -> RunStatus] /\ Mark(r, f)
      BY <2>1 DEF SkipRest, Inv, TypeOK, RunStatus
    <3> QED BY <3>1, MarkKeeps DEF Inv
  <2>2. CASE EndRun(r)
    BY <2>2 DEF EndRun, Inv, TypeOK
  <2> QED BY <2>1, <2>2
<1>3. ScriptsInv' /\ UNCHANGED call
  BY <1>1, SameScripts DEF Inv
<1>4. /\ run' \in [Runs -> Run] /\ \A q \in Runs \ {r} : run'[q] = run[q]
      /\ \A q \in Runs : Judged(q)'
  BY <1>1, GotoKeeps
<1> QED BY <1>1, <1>2, <1>3, <1>4, RunStep DEF Inv, TypeOK

LEMMA PreDoneKeeps == ASSUME Inv, NEW r \in Runs, PreDone(r) PROVE Inv'
<1>1. r \in Callers /\ Settled(r) /\ Resume(r) /\ run[r].at = "pre"
      /\ UNCHANGED <<opaque, frame, pending, timers, sandbox>>
  BY DEF PreDone
<1>2. ScriptsInv' /\ call'[r] = NoCall /\ \A c \in Callers \ {r} : call'[c] = call[c]
  BY <1>1, ResumeKeeps DEF Inv
<1>3. CASE Goto(r, "execute") /\ UNCHANGED <<open, shown, status, summary, send>>
  BY <1>1, <1>2, <1>3, GotoKeeps, RunStep DEF Inv, TypeOK
<1>4. CASE Judge(r, "errored") /\ Summarize(r)
  <2>1. "errored" \in Verdict
    BY DEF Verdict
  <2> QED BY <1>1, <1>2, <1>4, <2>1, JudgeKeeps, SummarizeKeeps, RunStep
<1> QED BY <1>3, <1>4 DEF PreDone

LEMMA ExecuteKeeps == ASSUME Inv, NEW r \in Runs, ExecuteFails(r) \/ ExecuteDone(r) PROVE Inv'
<1>1. r \in Callers /\ run[r].at = "execute" /\ call[r] = NoCall
  BY DEF ExecuteFails, ExecuteDone, Inv, Free, Scripted
<1>2. ASSUME NEW v \in Verdict, Judge(r, v), UNCHANGED scriptVars,
             Summarize(r) \/ UNCHANGED summary
      PROVE  Inv'
  <2>1. ScriptsInv' /\ UNCHANGED call
    BY <1>2, SameScripts DEF Inv
  <2>2. run' \in [Runs -> Run]
    BY <1>1, <1>2, JudgeKeeps
  <2>3. summary' \in [Runs -> Summary]
    BY <1>2, <2>2, SummarizeKeeps DEF Inv, TypeOK
  <2> QED BY <1>1, <1>2, <2>1, <2>3, JudgeKeeps, RunStep
<1>3. CASE Goto(r, "test") /\ Ask(r) /\ UNCHANGED <<open, shown, status, summary, send>>
  <2>1. ScriptsInv' /\ \A c \in Callers \ {r} : call'[c] = call[c]
    BY <1>1, <1>3, AskKeeps DEF Inv
  <2>2. /\ run' \in [Runs -> Run] /\ run'[r].at = "test"
        /\ \A q \in Runs \ {r} : run'[q] = run[q]
        /\ \A q \in Runs : Judged(q)'
    BY <1>1, <1>3, GotoKeeps
  <2> QED BY <1>3, <2>1, <2>2, RunStep DEF Inv, TypeOK, Scripted
<1>4. \A v \in {"passed", "failed", "errored"} : v \in Verdict
  BY DEF Verdict
<1>5. CASE ExecuteFails(r)
  BY <1>2, <1>4, <1>5 DEF ExecuteFails
<1>6. CASE ExecuteDone(r)
  BY <1>2, <1>3, <1>4, <1>6 DEF ExecuteDone
<1> QED BY <1>5, <1>6

LEMMA TestDoneKeeps == ASSUME Inv, NEW r \in Runs, TestDone(r) PROVE Inv'
<1>1. /\ r \in Callers /\ Settled(r) /\ Resume(r) /\ run[r].at = "test" /\ Summarize(r)
      /\ UNCHANGED <<opaque, frame, pending, timers, sandbox>>
  BY DEF TestDone
<1>2. ScriptsInv' /\ call'[r] = NoCall /\ \A c \in Callers \ {r} : call'[c] = call[c]
  BY <1>1, ResumeKeeps DEF Inv
<1>3. PICK v \in Verdict : Judge(r, v)
  BY DEF TestDone, Verdict
<1> QED BY <1>1, <1>2, <1>3, JudgeKeeps, SummarizeKeeps, RunStep

\* The page: its window, and messages that settle promises without anyone's step.
LEMMA PageKeeps ==
  ASSUME Inv, ScriptsInv', \A c \in Callers : call[c] = NoCall => call'[c] = NoCall,
         open' \in BOOLEAN, shown' \in Runs \cup {NoRun}, UNCHANGED <<run, status, summary, send>>
  PROVE  Inv'
BY SameFree, SameJudged DEF Inv, TypeOK, ScriptsInv

LEMMA WindowKeeps == ASSUME Inv, Window PROVE Inv'
<1>1. CASE Enter
  <2>1. UNCHANGED call
    BY <1>1 DEF Enter, Initialize
  <2> QED BY <1>1, <2>1, FrameComes, PageKeeps DEF Enter, Inv, TypeOK
<1>2. CASE Leave
  BY <1>2, DestroyKeeps, PageKeeps DEF Leave, Inv, TypeOK
<1>3. CASE CloseRunner
  BY <1>3, SameScripts, PageKeeps DEF CloseRunner, Inv, TypeOK
<1>4. CASE Stop
  <2>1. ScriptsInv' /\ UNCHANGED <<open, shown, status, summary, send, call>>
    BY <1>4, SameScripts DEF Stop, Inv
  <2>2. PICK r \in Runs : run' = [run EXCEPT ![r] = [run[r] EXCEPT !.cancel = TRUE]]
    BY <1>4 DEF Stop, Inv, TypeOK
  <2>3. run[r] \in Run
    BY DEF Inv, TypeOK
  <2>4. /\ run'[r] \in Run /\ run'[r].at = run[r].at /\ run'[r].i = run[r].i
        /\ run'[r].counts = run[r].counts /\ \A q \in Runs \ {r} : run'[q] = run[q]
        /\ run' \in [Runs -> Run]
    BY <2>2, <2>3 DEF Inv, TypeOK, Run
  <2>5. Free' /\ \A q \in Runs : Judged(q)'
    BY <2>1, <2>4 DEF Inv, Free, Judged
  <2> QED BY <2>1, <2>4, <2>5 DEF Inv, TypeOK, ScriptsInv
<1>5. ASSUME NEW r \in Runs, OpenRunner(r) PROVE Inv'
  <2>1. ScriptsInv' /\ UNCHANGED <<open, status, summary, send, call>> /\ shown' \in Runs
    BY <1>5, SameScripts DEF OpenRunner, Inv
  <2>2. /\ run' \in [Runs -> Run] /\ run'[r].at = "next"
        /\ \A q \in Runs \ {r} : run'[q] = run[q]
        /\ \A q \in Runs : Judged(q)'
    BY <1>5, GotoKeeps DEF OpenRunner
  <2>3. Free'
    BY <1>5, <2>1, <2>2 DEF OpenRunner, Inv, Free, Scripted
  <2> QED BY <2>1, <2>2, <2>3 DEF Inv, TypeOK, ScriptsInv
<1> QED BY <1>1, <1>2, <1>3, <1>4, <1>5 DEF Window

LEMMA MessagesKeep == ASSUME Inv, Messages \/ Frames PROVE Inv'
<1>1. UNCHANGED <<open, shown, run, status, summary, send>>
  BY DEF Messages, Frames, runVars
<1>2. CASE Load
  <2>1. UNCHANGED call
    BY <1>2 DEF Load
  <2> QED BY <1>1, <1>2, <2>1, FrameComes, PageKeeps DEF Inv, TypeOK
<1>3. ASSUME NEW i \in Ids, HandleMessage(i) PROVE Inv'
  BY <1>1, <1>3, HandleKeeps, PageKeeps DEF Inv, TypeOK
<1>4. ASSUME NEW i \in Ids, Expire(i) PROVE Inv'
  BY <1>1, <1>4, ExpireKeeps, PageKeeps DEF Inv, TypeOK
<1>5. CASE FrameStep
  BY <1>1, <1>5, FrameKeeps, PageKeeps DEF Inv, TypeOK
<1> QED BY <1>2, <1>3, <1>4, <1>5 DEF Messages, Frames

LEMMA SendKeeps == ASSUME Inv, NEW s \in Senders, SendPre(s) \/ Send(s) PROVE Inv'
<1> DEFINE Labels == {"unused", "pre", "execute", "test", "ended"}
<1>1. ASSUME NEW l \in Labels, SendTo(s, l), ScriptsInv', UNCHANGED <<open, shown, run, status, summary>>,
             \A c \in Callers \ {s} : call'[c] = call[c], l \notin Scripted => call'[s] = NoCall
      PROVE  Inv'
  <2>1. /\ send' \in [Senders -> Labels] /\ send'[s] = l
        /\ \A q \in Senders \ {s} : send'[q] = send[q]
    BY <1>1 DEF SendTo, Inv, TypeOK
  <2>2. Free'
    BY <1>1, <2>1 DEF Inv, Free
  <2> QED BY <1>1, <2>1, <2>2, SameJudged DEF Inv, TypeOK, ScriptsInv
<1>2. s \in Callers
  OBVIOUS
<1>3. CASE SendPre(s) \/ SendTest(s)
  <2>1. call[s] = NoCall /\ Ask(s) /\ UNCHANGED <<open, shown, run, status, summary>>
    BY <1>3 DEF SendPre, SendTest, Inv, Free, Scripted
  <2>2. ScriptsInv' /\ \A c \in Callers \ {s} : call'[c] = call[c]
    BY <1>2, <2>1, AskKeeps DEF Inv
  <2> QED BY <1>1, <1>3, <2>1, <2>2 DEF SendPre, SendTest, Scripted
<1>4. CASE SendPreDone(s) \/ SendTestDone(s)
  <2>1. /\ Settled(s) /\ Resume(s) /\ UNCHANGED <<open, shown, run, status, summary>>
        /\ UNCHANGED <<opaque, frame, pending, timers, sandbox>>
    BY <1>4 DEF SendPreDone, SendTestDone
  <2>2. ScriptsInv' /\ call'[s] = NoCall /\ \A c \in Callers \ {s} : call'[c] = call[c]
    BY <1>2, <2>1, ResumeKeeps DEF Inv
  <2> QED BY <1>1, <1>4, <2>1, <2>2 DEF SendPreDone, SendTestDone
<1> QED BY <1>3, <1>4 DEF Send

LEMMA Step == Inv /\ [Next]_vars => Inv'
<1> SUFFICES ASSUME Inv, [Next]_vars PROVE Inv'
  OBVIOUS
<1>1. CASE UNCHANGED vars
  <2>1. ScriptsInv' /\ UNCHANGED <<call, open, shown, run, status, summary, send>>
    BY <1>1, SameScripts DEF Inv, vars, runVars
  <2> QED BY <2>1, PageKeeps DEF Inv, TypeOK
<1>2. ASSUME NEW r \in Runs, Loop(r) PROVE Inv'
  BY <1>2, NextRequestKeeps, EndKeeps, PreDoneKeeps, ExecuteKeeps, TestDoneKeeps DEF Loop
<1> QED BY <1>1, <1>2, WindowKeeps, MessagesKeep, SendKeeps DEF Next

LEMMA Invariant == Spec => []Inv
BY Start, Step, PTL DEF Spec

\* The page, every run and every send keep their types: no run counts more verdicts
\* than the collection has requests.
THEOREM TypeCorrect == Spec => []TypeOK
<1>1. Inv => TypeOK
  BY DEF Inv
<1> QED BY <1>1, Invariant, PTL

\* However scripts overlap, end late or never, and whenever the page is left, every
\* entry of the pending map has its timeout and the one caller who waits for it
\* (script.runner.ts: handleMessage, destroy).
THEOREM PromisesAreKept == Spec => []NothingLeft
<1>1. Inv => NothingLeft
  BY DEF Inv, ScriptsInv, Promises
<1> QED BY <1>1, Invariant, PTL

\* The lines a result carries are of its script and of scripts that ran beside it
\* (sandbox.html: one array `logs` for all scripts).
THEOREM LinesAreOwn == Spec => []ConsoleIsOwn
<1>1. Inv => ConsoleIsOwn
  BY DEF Inv, ScriptsInv, Console
<1> QED BY <1>1, Invariant, PTL

-----------------------------------------------------------------------------
(***************************************************************************)
(* The results that the window shows are those of an OrderedRun.  They stop *)
(* being updated when the window goes, wherever the loop is then.          *)
(***************************************************************************)

UnderWay(r) == run[r].at \in {"pre", "execute", "test"}

\* The results of a run not begun are untouched; those shown follow the loop: the
\* requests before its own have their verdicts and those after it are pending.
Follows(r) ==
  /\ run[r].at = "unused" => shown # r /\ \A i \in Requests : status[r][i] = "pending"
  /\ shown = r =>
       /\ \A i \in Requests : i < run[r].i => status[r][i] \in Verdict
       /\ UnderWay(r) => run[r].i \in Requests /\ status[r][run[r].i] = "running"
       /\ (run[r].at = "next" /\ run[r].i > 0) => status[r][run[r].i] \in Verdict
       /\ run[r].at # "ended" =>
            \A i \in Requests : i > run[r].i => status[r][i] = "pending"

LEMMA OrderStart == Init => Abs!Init /\ \A r \in Runs : Follows(r)
BY DEF Init, Abs!Init, Abs!Requests, Requests, Follows, NoRun

\* What a run shows of the request it is about to send: the first one pending.
LEMMA SendOrdered ==
  ASSUME Inv, NEW r \in Runs, Follows(r), NextRequest(r)
  PROVE  [Abs!Next]_status /\ Follows(r)'
<1> DEFINE j == run[r].i + 1
<1>1. /\ run[r] \in Run /\ run[r].i \in 0 .. Size /\ run[r].at = "next" /\ j \in Requests
      /\ status \in [Runs -> [Requests -> RunStatus]] /\ UNCHANGED shown
  BY DEF NextRequest, Inv, TypeOK, Run, Requests
<1>2. run'[r].i = j /\ UnderWay(r)'
  BY <1>1 DEF NextRequest, UnderWay, Inv, TypeOK, Run
<1>3. CASE shown # r
  BY <1>1, <1>2, <1>3 DEF NextRequest, Mark, Follows, UnderWay
<1>4. CASE shown = r
  <2>1. status' = [status EXCEPT ![r] = [status[r] EXCEPT ![j] = "running"]]
    BY <1>4 DEF NextRequest, Mark
  <2>2. status[r][j] = "pending" /\ \A i \in Requests : i < j => status[r][i] \in Verdict
    BY <1>1, <1>4 DEF Follows, Requests
  <2>3. Abs!Send(r, j)
    BY <1>1, <2>1, <2>2 DEF Abs!Send, Abs!Earlier, Abs!Verdict, Verdict, Abs!Requests, Requests
  <2>4. /\ status'[r][j] = "running"
        /\ \A i \in Requests \ {j} : status'[r][i] = status[r][i]
    BY <1>1, <2>1
  <2>5. Follows(r)'
    BY <1>1, <1>2, <1>4, <2>2, <2>4 DEF Follows, UnderWay, Requests
  <2> QED BY <1>1, <2>3, <2>5 DEF Abs!Next, Abs!Requests, Requests
<1> QED BY <1>3, <1>4

LEMMA SkipOrdered ==
  ASSUME Inv, NEW r \in Runs, Follows(r), SkipRest(r)
  PROVE  [Abs!Next]_status /\ Follows(r)'
<1> DEFINE j == run[r].i + 1
<1>1. /\ run[r] \in Run /\ run[r].i \in 0 .. Size /\ run[r].at = "next" /\ j \in Requests
      /\ status \in [Runs -> [Requests -> RunStatus]] /\ UNCHANGED shown
  BY DEF SkipRest, Inv, TypeOK, Run, Requests
<1>2. run'[r].i = run[r].i /\ run'[r].at = "ended"
  BY <1>1 DEF SkipRest, Goto, Inv, TypeOK, Run
<1>3. CASE shown # r
  BY <1>1, <1>2, <1>3 DEF SkipRest, Mark, Follows, UnderWay
<1>4. CASE shown = r
  <2>1. status' = [status EXCEPT ![r] =
                     [i \in Requests |-> IF i >= j THEN "skipped" ELSE status[r][i]]]
    BY <1>4 DEF SkipRest, Mark
  <2>2. status[r][j] = "pending" /\ \A i \in Requests : i < j => status[r][i] \in Verdict
    BY <1>1, <1>4 DEF Follows, Requests
  <2>3. [i \in Requests |-> IF i >= j THEN "skipped" ELSE status[r][i]]
          = [i \in Requests |-> IF i < j THEN status[r][i] ELSE "skipped"]
    BY <1>1 DEF Requests
  <2>4. Abs!Skip(r, j)
    BY <1>1, <2>1, <2>2, <2>3
       DEF Abs!Skip, Abs!Earlier, Abs!Verdict, Verdict, Abs!Requests, Requests
  <2>5. \A i \in Requests : i < j => status'[r][i] = status[r][i]
    BY <1>1, <2>1, <2>3 DEF Requests
  <2>6. \A i \in Requests : i < run'[r].i => status'[r][i] \in Verdict
    <3>1. \A i \in Requests : i < run[r].i => i < j
      BY <1>1 DEF Requests
    <3> QED BY <1>2, <2>2, <2>5, <3>1
  <2>7. Follows(r)'
    BY <1>1, <1>2, <1>4, <2>6 DEF Follows, UnderWay
  <2> QED BY <1>1, <2>4, <2>7 DEF Abs!Next, Abs!Requests, Requests
<1> QED BY <1>3, <1>4

LEMMA JudgeOrdered ==
  ASSUME Inv, NEW r \in Runs, Follows(r), UnderWay(r), NEW v \in Verdict, Judge(r, v)
  PROVE  [Abs!Next]_status /\ Follows(r)'
<1> DEFINE j == run[r].i
<1>1. /\ status \in [Runs -> [Requests -> RunStatus]] /\ j \in 0 .. Size /\ UNCHANGED shown
      /\ run'[r].i = j /\ run'[r].at = "next"
  BY JudgeKeeps DEF Inv, TypeOK, Run, UnderWay, Judge
<1>2. CASE shown # r
  BY <1>1, <1>2 DEF Judge, MarkOne, Mark, Follows, UnderWay
<1>3. CASE shown = r
  <2>1. status' = [status EXCEPT ![r] = [status[r] EXCEPT ![j] = v]]
    BY <1>3 DEF Judge, MarkOne, Mark
  <2>2. status[r][j] = "running" /\ j \in Requests
    BY <1>3 DEF Follows
  <2>3. Abs!Judge(r, j)
    BY <1>1, <2>1, <2>2 DEF Abs!Judge, Abs!Verdict, Verdict
  <2>4. status'[r][j] = v /\ \A i \in Requests \ {j} : status'[r][i] = status[r][i]
    BY <1>1, <2>1, <2>2
  <2>5. Follows(r)'
    BY <1>1, <1>3, <2>4 DEF Follows, UnderWay, Requests
  <2> QED BY <2>2, <2>3, <2>5 DEF Abs!Next, Abs!Requests, Requests
<1> QED BY <1>2, <1>3

LEMMA LoopOrdered ==
  ASSUME Inv, NEW r \in Runs, Follows(r), Loop(r)
  PROVE  [Abs!Next]_status /\ Follows(r)'
<1>1. \A v \in {"passed", "failed", "errored"} : v \in Verdict
  BY DEF Verdict
<1>2. ASSUME NEW l \in {"execute", "test", "ended"}, Goto(r, l), UNCHANGED <<shown, status>>,
             l \in {"execute", "test"} => UnderWay(r), run[r].at # "unused"
      PROVE  [Abs!Next]_status /\ Follows(r)'
  <2>1. run'[r].at = l /\ run'[r].i = run[r].i
    BY <1>2 DEF Goto, Inv, TypeOK, Run
  <2> QED BY <1>2, <2>1 DEF Follows, UnderWay
<1>3. CASE NextRequest(r)
  BY <1>3, SendOrdered
<1>4. CASE SkipRest(r)
  BY <1>4, SkipOrdered
<1>5. CASE EndRun(r)
  BY <1>2, <1>5 DEF EndRun
<1>6. CASE PreDone(r)
  BY <1>1, <1>2, <1>6, JudgeOrdered DEF PreDone, UnderWay
<1>7. CASE ExecuteFails(r) \/ ExecuteDone(r)
  BY <1>1, <1>2, <1>7, JudgeOrdered DEF ExecuteFails, ExecuteDone, UnderWay
<1>8. CASE TestDone(r)
  BY <1>1, <1>8, JudgeOrdered DEF TestDone, UnderWay
<1> QED BY <1>3, <1>4, <1>5, <1>6, <1>7, <1>8 DEF Loop

\* A loop touches nothing of the other runs.
LEMMA OthersFollow ==
  ASSUME Inv, NEW r \in Runs, Loop(r), NEW q \in Runs, q # r, Follows(q)
  PROVE  Follows(q)'
<1>1. run'[q] = run[q] /\ UNCHANGED shown
  BY DEF Loop, NextRequest, SkipRest, EndRun, PreDone, ExecuteFails, ExecuteDone, TestDone,
         Goto, Judge, Inv, TypeOK
<1>2. status'[q] = status[q]
  BY DEF Loop, NextRequest, SkipRest, EndRun, PreDone, ExecuteFails, ExecuteDone, TestDone,
         Judge, MarkOne, Mark, Inv, TypeOK
<1> QED BY <1>1, <1>2 DEF Follows, UnderWay

LEMMA OrderStep ==
  Inv /\ (\A r \in Runs : Follows(r)) /\ [Next]_vars =>
    [Abs!Next]_status /\ (\A r \in Runs : Follows(r))'
<1> SUFFICES ASSUME Inv, \A r \in Runs : Follows(r), [Next]_vars
             PROVE  [Abs!Next]_status /\ \A r \in Runs : Follows(r)'
  OBVIOUS
<1>1. ASSUME UNCHANGED <<run, status>>, shown' = shown \/ shown' = NoRun
      PROVE  [Abs!Next]_status /\ \A r \in Runs : Follows(r)'
  BY <1>1 DEF Follows, UnderWay
<1>2. ASSUME NEW r \in Runs, Loop(r) PROVE [Abs!Next]_status /\ \A q \in Runs : Follows(q)'
  BY <1>2, LoopOrdered, OthersFollow
<1>3. CASE Stop
  <2>1. UNCHANGED <<shown, status>> /\ \A r \in Runs : run'[r].at = run[r].at /\ run'[r].i = run[r].i
    BY <1>3 DEF Stop, Inv, TypeOK, Run
  <2> QED BY <2>1 DEF Follows, UnderWay
<1>4. ASSUME NEW r \in Runs, OpenRunner(r) PROVE [Abs!Next]_status /\ \A q \in Runs : Follows(q)'
  <2>1. /\ shown' = r /\ shown = NoRun /\ UNCHANGED status /\ run[r].at = "unused"
        /\ run'[r].at = "next" /\ run'[r].i = run[r].i
        /\ \A q \in Runs \ {r} : run'[q] = run[q]
    BY <1>4 DEF OpenRunner, Goto, Inv, TypeOK, Run
  <2>2. run[r].i = 0
    BY <2>1 DEF Inv, Judged
  <2>3. Follows(r)'
    BY <2>1, <2>2 DEF Follows, UnderWay, Requests
  <2>4. \A q \in Runs \ {r} : Follows(q)'
    BY <2>1 DEF Follows, UnderWay
  <2> QED BY <2>1, <2>3, <2>4
<1>5. CASE Enter \/ Leave \/ CloseRunner
  BY <1>1, <1>5 DEF Enter, Leave, CloseRunner
<1>6. CASE Messages \/ Frames
  BY <1>1, <1>6 DEF Messages, Frames, runVars
<1>7. ASSUME NEW s \in Senders, SendPre(s) \/ Send(s) PROVE [Abs!Next]_status /\ \A r \in Runs : Follows(r)'
  BY <1>1, <1>7 DEF SendPre, Send, SendPreDone, SendTest, SendTestDone
<1>8. CASE UNCHANGED vars
  BY <1>1, <1>8 DEF vars, runVars
<1> QED BY <1>2, <1>3, <1>4, <1>5, <1>6, <1>7, <1>8 DEF Next, Window

\* However runs overlap and whenever the window goes, what it has shown are requests
\* running one at a time in their order, one lasting verdict each, and none after a
\* skipped one (useCollectionRunner.ts: run).
THEOREM ImplementsOrderedRun == Spec => RefinesOrderedRun
<1> DEFINE Ordered == \A r \in Runs : Follows(r)
<1>1. Init => Abs!Init /\ Ordered
  BY OrderStart
<1>2. Inv /\ Ordered /\ [Next]_vars => [Abs!Next]_status /\ Ordered'
  BY OrderStep
<1> HIDE DEF Ordered
<1> QED BY <1>1, <1>2, Invariant, PTL DEF Spec, RefinesOrderedRun, Abs!Spec

-----------------------------------------------------------------------------
(***************************************************************************)
(* The summary against the results shown beside it.                        *)
(***************************************************************************)

\* The requests r shows as s.
Shown(r, s) == {i \in Requests : status[r][i] = s}

\* The requests shown as errored that the summary was not told of.
Missed(r) == {i \in Requests : i > summary[r].completed /\ status[r][i] = "errored"}

\* While its window shows a run, the loop has counted what the window shows, and
\* the summary what the loop counted, but for the requests that could not be sent
\* since; it counts up to a request the loop is past.  Nothing is skipped before
\* the loop ends, nor without a Stop.
Tallied(r) ==
  /\ run[r].at = "unused" => run[r].counts = NoCounts /\ summary[r].counts = NoCounts
                             /\ summary[r].completed = 0
  /\ shown = r =>
       /\ \A v \in Verdict : run[r].counts[v] = Cardinality(Shown(r, v))
       /\ \A v \in {"passed", "failed"} : summary[r].counts[v] = run[r].counts[v]
       /\ summary[r].counts["errored"] + Cardinality(Missed(r)) = run[r].counts["errored"]
       /\ summary[r].completed <= run[r].i
       /\ UnderWay(r) => summary[r].completed < run[r].i
       /\ run[r].at = "ended" => \A i \in Requests : status[r][i] \in Verdict \cup {"skipped"}
       /\ Shown(r, "skipped") # {} => run[r].at = "ended" /\ run[r].cancel

LEMMA RequestsFinite == \A S \in SUBSET Requests : IsFiniteSet(S)
<1>1. 1 \in Int /\ Size \in Int /\ Requests = 1 .. Size
  BY DEF Requests
<1>2. IsFiniteSet(Requests)
  BY <1>1, FS_Interval
<1> QED BY <1>2, FS_Subset

\* One more request in a set of requests.
LEMMA OneMore ==
  ASSUME NEW S \in SUBSET Requests, NEW i \in Requests \ S
  PROVE  Cardinality(S \cup {i}) = Cardinality(S) + 1
<1>1. IsFiniteSet(S)
  BY RequestsFinite
<1> QED BY <1>1, FS_AddElement

LEMMA CountsAreNumbers ==
  ASSUME NEW S \in SUBSET Requests
  PROVE  Cardinality(S) \in Nat
BY RequestsFinite, FS_CardinalityType

LEMMA TalliedStart == Init => \A r \in Runs : Tallied(r)
BY DEF Init, Tallied, NoRun, UnderWay

\* A run that changes neither what is shown nor what is counted.
LEMMA SameTally ==
  ASSUME NEW r \in Runs, Tallied(r), run'[r].counts = run[r].counts, run'[r].i = run[r].i,
         run[r].cancel => run'[r].cancel, shown' = r => shown = r,
         status'[r] = status[r], summary'[r] = summary[r],
         run'[r].at # "unused" \/ run[r].at = "unused",
         run[r].at = "ended" => run'[r].at = "ended",
         UnderWay(r)' => UnderWay(r),
         (shown = r /\ run'[r].at = "ended") =>
            \A i \in Requests : status[r][i] \in Verdict \cup {"skipped"}
  PROVE  Tallied(r)'
<1>1. Missed(r)' = Missed(r) /\ \A s : Shown(r, s)' = Shown(r, s)
  BY DEF Missed, Shown
<1> QED BY <1>1 DEF Tallied


\* Taking the request the loop is at from running to its verdict v.
LEMMA VerdictShown ==
  ASSUME Inv, NEW r \in Runs, Follows(r), UnderWay(r), shown = r,
         NEW v \in Verdict, Judge(r, v)
  PROVE  /\ run[r].i \in Requests /\ run[r].i \notin Shown(r, v) /\ shown' = r
         /\ status'[r] = [status[r] EXCEPT ![run[r].i] = v]
         /\ Shown(r, v)' = Shown(r, v) \cup {run[r].i}
         /\ \A s \in {"passed", "failed", "errored", "skipped"} \ {v} :
              Shown(r, s)' = Shown(r, s)
<1>1. /\ run[r].i \in Requests /\ status[r][run[r].i] = "running"
      /\ status[r] \in [Requests -> RunStatus] /\ status \in [Runs -> [Requests -> RunStatus]]
  BY DEF Follows, Inv, TypeOK
<1>2. status'[r] = [status[r] EXCEPT ![run[r].i] = v] /\ shown' = r
  BY <1>1 DEF Judge, MarkOne, Mark
<1>3. /\ status'[r][run[r].i] = v
      /\ \A i \in Requests \ {run[r].i} : status'[r][i] = status[r][i]
  BY <1>1, <1>2
<1>4. Shown(r, v)' = Shown(r, v) \cup {run[r].i} /\ run[r].i \notin Shown(r, v)
  BY <1>1, <1>3 DEF Shown, Verdict
<1>5. \A s \in {"passed", "failed", "errored", "skipped"} \ {v} : Shown(r, s)' = Shown(r, s)
  BY <1>1, <1>3 DEF Shown
<1> QED BY <1>1, <1>2, <1>4, <1>5

\* What Judge counts.
LEMMA VerdictCounted ==
  ASSUME Inv, NEW r \in Runs, UnderWay(r), NEW v \in Verdict, Judge(r, v)
  PROVE  /\ run'[r].counts[v] = run[r].counts[v] + 1
         /\ \A w \in Verdict \ {v} : run'[r].counts[w] = run[r].counts[w]
         /\ run'[r].i = run[r].i /\ run'[r].at = "next" /\ run'[r].cancel = run[r].cancel
<1>1. /\ run[r] \in Run /\ run[r].counts \in [Verdict -> 0 .. Size]
  BY DEF Inv, TypeOK, Run
<1> DEFINE n == [run[r].counts EXCEPT ![v] = @ + 1]
<1>2. n[v] = run[r].counts[v] + 1 /\ \A w \in Verdict \ {v} : n[w] = run[r].counts[w]
  BY <1>1
<1>3. run' = [run EXCEPT ![r] = [run[r] EXCEPT !.at = "next", !.counts = n]]
  BY DEF Judge, Inv, TypeOK, Run
<1> HIDE DEF n
<1>4. /\ run'[r].counts = n /\ run'[r].i = run[r].i /\ run'[r].at = "next"
      /\ run'[r].cancel = run[r].cancel
  BY <1>1, <1>3 DEF Inv, TypeOK, Run
<1> QED BY <1>2, <1>4

\* A verdict the summary is told of, or an errored request it is not.
LEMMA JudgeTallied ==
  ASSUME Inv, NEW r \in Runs, Follows(r), Tallied(r), UnderWay(r),
         NEW v \in Verdict, Judge(r, v),
         Summarize(r) \/ (v = "errored" /\ UNCHANGED summary)
  PROVE  Tallied(r)'
<1> DEFINE j == run[r].i
<1>1. /\ run'[r].counts[v] = run[r].counts[v] + 1
      /\ \A w \in Verdict \ {v} : run'[r].counts[w] = run[r].counts[w]
      /\ run'[r].i = j /\ run'[r].at = "next" /\ run'[r].cancel = run[r].cancel
      /\ shown' = shown
  BY VerdictCounted DEF Judge
<1>2. CASE shown # r
  BY <1>1, <1>2 DEF Tallied
<1>3. CASE shown = r
  <2>1. /\ j \in Requests /\ j \notin Shown(r, v) /\ shown' = r
        /\ Shown(r, v)' = Shown(r, v) \cup {j}
        /\ \A s \in {"passed", "failed", "errored", "skipped"} \ {v} :
             Shown(r, s)' = Shown(r, s)
    BY <1>3, VerdictShown
  <2>2. /\ \A w \in Verdict : run[r].counts[w] \in Nat
        /\ run[r].i \in Nat /\ summary[r] \in Summary /\ summary[r].completed \in Nat
        /\ \A w \in Verdict : summary[r].counts[w] \in Nat
    BY DEF Inv, TypeOK, Run, Summary
  <2>3. \A w \in Verdict : run'[r].counts[w] = Cardinality(Shown(r, w)')
    <3>1. \A s : Shown(r, s) \in SUBSET Requests
      BY DEF Shown
    <3>2. Cardinality(Shown(r, v)') = Cardinality(Shown(r, v)) + 1
      BY <2>1, <3>1, OneMore
    <3>3. \A w \in Verdict : run[r].counts[w] = Cardinality(Shown(r, w))
      BY <1>3 DEF Tallied
    <3>4. ASSUME NEW w \in Verdict \ {v}
          PROVE  Shown(r, w)' = Shown(r, w) /\ run'[r].counts[w] = run[r].counts[w]
      BY <1>1, <2>1 DEF Verdict
    <3>5. run'[r].counts[v] = Cardinality(Shown(r, v)')
      BY <1>1, <3>2, <3>3
    <3>6. ASSUME NEW w \in Verdict \ {v}
          PROVE  run'[r].counts[w] = Cardinality(Shown(r, w)')
      BY <3>3, <3>4
    <3> QED BY <3>5, <3>6
  <2>4. Shown(r, "skipped")' = {}
    BY <1>3, <2>1 DEF Tallied, UnderWay, Verdict
  <2>5. CASE Summarize(r)
    <3>1. summary'[r].completed = j /\ summary'[r].counts = run'[r].counts
      BY <1>3, <2>5 DEF Summarize, Inv, TypeOK
    <3>2. Missed(r)' = {}
      <4>1. \A i \in Requests : i > j => status[r][i] = "pending"
        BY <1>3 DEF Follows, UnderWay
      <4>2. \A i \in Requests : i > j => status'[r][i] = "pending"
        <5>1. /\ status'[r] = [status[r] EXCEPT ![j] = v]
              /\ status[r] \in [Requests -> RunStatus]
          BY <1>3, VerdictShown DEF Inv, TypeOK
        <5> QED BY <2>1, <4>1, <5>1 DEF Requests
      <4> QED BY <3>1, <4>2 DEF Missed
    <3>3. Cardinality(Missed(r)') = 0
      BY <3>2, FS_EmptySet
    <3> QED BY <1>1, <1>3, <2>1, <2>2, <2>3, <2>4, <3>1, <3>3 DEF Tallied, UnderWay, Verdict
  <2>6. CASE v = "errored" /\ UNCHANGED summary
    <3>1. Missed(r)' = Missed(r) \cup {j} /\ j \notin Missed(r)
      BY <1>3, <2>1, <2>2, <2>6 DEF Missed, Shown, Tallied, Requests
    <3>2. Cardinality(Missed(r)') = Cardinality(Missed(r)) + 1 /\ Cardinality(Missed(r)) \in Nat
      BY <2>1, <3>1, OneMore, CountsAreNumbers DEF Missed
    <3>3. summary'[r] = summary[r]
      BY <2>6
    <3> QED BY <1>1, <1>3, <2>1, <2>2, <2>3, <2>4, <2>6, <3>2, <3>3
            DEF Tallied, UnderWay, Verdict
  <2> QED BY <2>5, <2>6
<1> QED BY <1>2, <1>3


LEMMA SkipTallied ==
  ASSUME Inv, NEW r \in Runs, Follows(r), Tallied(r), SkipRest(r)
  PROVE  Tallied(r)'
<1> DEFINE j == run[r].i + 1
           f == [i \in Requests |-> IF i >= j THEN "skipped" ELSE status[r][i]]
<1>1. /\ run[r] \in Run /\ run[r].i \in 0 .. Size /\ run[r].at = "next" /\ j \in Requests
      /\ status \in [Runs -> [Requests -> RunStatus]] /\ UNCHANGED <<shown, summary>>
      /\ run[r].cancel
  BY DEF SkipRest, Inv, TypeOK, Run, Requests
<1>2. /\ run'[r].i = run[r].i /\ run'[r].at = "ended" /\ run'[r].counts = run[r].counts
      /\ run'[r].cancel
  BY <1>1 DEF SkipRest, Goto, Inv, TypeOK, Run
<1>3. CASE shown # r
  BY <1>1, <1>2, <1>3 DEF Tallied
<1>4. CASE shown = r
  <2>1. status'[r] = f
    BY <1>1, <1>4 DEF SkipRest, Mark
  <2>2. \A i \in Requests : i >= j => status[r][i] = "pending" /\ status'[r][i] = "skipped"
    BY <1>1, <1>4, <2>1 DEF Follows, Requests
  <2>3. \A i \in Requests : ~(i >= j) => status'[r][i] = status[r][i] /\ status[r][i] \in Verdict
    BY <1>1, <1>4, <2>1 DEF Follows, Requests
  <2>4. \A s \in Verdict : Shown(r, s)' = Shown(r, s)
    BY <2>2, <2>3 DEF Shown, Verdict
  <2>5. Missed(r)' = Missed(r)
    BY <1>1, <2>2, <2>3 DEF Missed, Verdict
  <2>6. \A v \in Verdict : run'[r].counts[v] = Cardinality(Shown(r, v)')
    BY <1>2, <1>4, <2>4 DEF Tallied
  <2>7. \A i \in Requests : status'[r][i] \in Verdict \cup {"skipped"}
    BY <2>2, <2>3
  <2> QED BY <1>1, <1>2, <1>4, <2>5, <2>6, <2>7 DEF Tallied, UnderWay
<1> QED BY <1>3, <1>4

LEMMA NextTallied ==
  ASSUME Inv, NEW r \in Runs, Follows(r), Tallied(r), NextRequest(r)
  PROVE  Tallied(r)'
<1> DEFINE j == run[r].i + 1
<1>1. /\ run[r] \in Run /\ run[r].i \in 0 .. Size /\ run[r].at = "next" /\ j \in Requests
      /\ status \in [Runs -> [Requests -> RunStatus]] /\ UNCHANGED <<shown, summary>>
  BY DEF NextRequest, Inv, TypeOK, Run, Requests
<1>2. /\ run'[r].i = j /\ UnderWay(r)' /\ run'[r].counts = run[r].counts
      /\ run'[r].cancel = run[r].cancel
  BY <1>1 DEF NextRequest, UnderWay, Inv, TypeOK, Run
<1>3. CASE shown # r
  BY <1>1, <1>2, <1>3 DEF Tallied, UnderWay
<1>4. CASE shown = r
  <2>1. status'[r] = [status[r] EXCEPT ![j] = "running"]
    BY <1>1, <1>4 DEF NextRequest, Mark
  <2>2. status[r][j] = "pending"
    BY <1>1, <1>4 DEF Follows, Requests
  <2>3. status'[r][j] = "running" /\ \A i \in Requests \ {j} : status'[r][i] = status[r][i]
    BY <1>1, <2>1
  <2>4. /\ \A s \in Verdict : Shown(r, s)' = Shown(r, s)
        /\ Shown(r, "skipped")' = Shown(r, "skipped")
    BY <1>1, <2>2, <2>3 DEF Shown, Verdict
  <2>5. Missed(r)' = Missed(r)
    BY <1>1, <2>2, <2>3 DEF Missed, Verdict
  <2>6. \A v \in Verdict : run'[r].counts[v] = Cardinality(Shown(r, v)')
    BY <1>2, <1>4, <2>4 DEF Tallied
  <2>7. summary[r].completed \in Nat /\ summary[r].completed <= run[r].i
    BY <1>4 DEF Tallied, Inv, TypeOK, Summary
  <2> QED BY <1>1, <1>2, <1>4, <2>4, <2>5, <2>6, <2>7 DEF Tallied, UnderWay
<1> QED BY <1>3, <1>4

LEMMA LoopTallied ==
  ASSUME Inv, NEW r \in Runs, Follows(r), Tallied(r), Loop(r)
  PROVE  Tallied(r)'
<1>1. \A v \in {"passed", "failed", "errored"} : v \in Verdict
  BY DEF Verdict
<1>2. ASSUME NEW l \in {"execute", "test", "ended"}, Goto(r, l),
             UNCHANGED <<shown, status, summary>>,
             l \in {"execute", "test"} => UnderWay(r), run[r].at # "unused",
             l = "ended" => run[r].at = "next" /\ run[r].i = Size
      PROVE  Tallied(r)'
  <2>1. /\ run'[r].at = l /\ run'[r].i = run[r].i /\ run'[r].counts = run[r].counts
        /\ run'[r].cancel = run[r].cancel
    BY <1>2 DEF Goto, Inv, TypeOK, Run
  <2>2. ASSUME shown = r, l = "ended"
        PROVE  \A i \in Requests : status[r][i] \in Verdict \cup {"skipped"}
    BY <1>2, <2>2 DEF Follows, Requests
  <2> QED BY <1>2, <2>1, <2>2, SameTally DEF UnderWay
<1>3. ASSUME NEW v \in Verdict, Judge(r, v), Summarize(r), UnderWay(r) PROVE Tallied(r)'
  BY <1>3, JudgeTallied
<1>4. ASSUME Judge(r, "errored"), UNCHANGED summary, UnderWay(r) PROVE Tallied(r)'
  BY <1>1, <1>4, JudgeTallied
<1>5. CASE NextRequest(r) \/ SkipRest(r)
  BY <1>5, NextTallied, SkipTallied
<1>6. CASE EndRun(r)
  BY <1>2, <1>6 DEF EndRun
<1>7. CASE PreDone(r)
  BY <1>1, <1>2, <1>3, <1>7 DEF PreDone, UnderWay
<1>8. CASE ExecuteFails(r)
  BY <1>4, <1>8 DEF ExecuteFails, UnderWay
<1>9. CASE ExecuteDone(r)
  BY <1>1, <1>2, <1>3, <1>9 DEF ExecuteDone, UnderWay
<1>10. CASE TestDone(r)
  <2>1. PICK v \in Verdict : Judge(r, v)
    BY <1>1, <1>10 DEF TestDone
  <2> QED BY <1>3, <1>10, <2>1 DEF TestDone, UnderWay
<1> QED BY <1>5, <1>6, <1>7, <1>8, <1>9, <1>10 DEF Loop

LEMMA OthersTallied ==
  ASSUME Inv, NEW r \in Runs, Loop(r), NEW q \in Runs, q # r, Tallied(q)
  PROVE  Tallied(q)'
<1>1. run'[q] = run[q] /\ UNCHANGED shown
  BY DEF Loop, NextRequest, SkipRest, EndRun, PreDone, ExecuteFails, ExecuteDone, TestDone,
         Goto, Judge, Inv, TypeOK
<1>2. status'[q] = status[q] /\ summary'[q] = summary[q]
  BY DEF Loop, NextRequest, SkipRest, EndRun, PreDone, ExecuteFails, ExecuteDone, TestDone,
         Judge, MarkOne, Mark, Summarize, Inv, TypeOK
<1>3. Missed(q)' = Missed(q) /\ \A s : Shown(q, s)' = Shown(q, s)
  BY <1>2 DEF Missed, Shown
<1> QED BY <1>1, <1>2, <1>3 DEF Tallied, UnderWay

LEMMA TalliedStep ==
  ASSUME Inv, \A r \in Runs : Follows(r) /\ Tallied(r), [Next]_vars
  PROVE  \A r \in Runs : Tallied(r)'
<1>1. ASSUME UNCHANGED <<run, status, summary>>, shown' = shown \/ shown' = NoRun
      PROVE  \A r \in Runs : Tallied(r)'
  <2> TAKE r \in Runs
  <2>1. shown' = r => shown = r
    BY <1>1
  <2> QED BY <1>1, <2>1, SameTally DEF UnderWay, Tallied
<1>2. ASSUME NEW r \in Runs, Loop(r) PROVE \A q \in Runs : Tallied(q)'
  BY <1>2, LoopTallied, OthersTallied
<1>3. CASE Stop
  <2>1. /\ UNCHANGED <<shown, status, summary>>
        /\ \A r \in Runs : /\ run'[r].at = run[r].at /\ run'[r].i = run[r].i
                           /\ run'[r].counts = run[r].counts
                           /\ run[r].cancel => run'[r].cancel
    BY <1>3 DEF Stop, Inv, TypeOK, Run
  <2> QED BY <2>1, SameTally DEF UnderWay, Tallied
<1>4. ASSUME NEW r \in Runs, OpenRunner(r) PROVE \A q \in Runs : Tallied(q)'
  <2>1. /\ shown' = r /\ shown = NoRun /\ UNCHANGED <<status, summary>>
        /\ run[r].at = "unused" /\ run'[r].at = "next" /\ run'[r].i = run[r].i
        /\ run'[r].counts = run[r].counts
        /\ \A q \in Runs \ {r} : run'[q] = run[q]
    BY <1>4 DEF OpenRunner, Goto, Inv, TypeOK, Run
  <2>2. /\ run[r].i = 0 /\ summary[r].completed = 0
        /\ \A v \in Verdict : run[r].counts[v] = 0 /\ summary[r].counts[v] = 0
    BY <2>1 DEF Inv, Judged, Tallied, NoCounts
  <2>3. \A s \in Verdict \cup {"skipped"} : Shown(r, s)' = {}
    BY <2>1 DEF Follows, Shown, Verdict
  <2>4. Missed(r)' = {}
    BY <2>1 DEF Follows, Missed
  <2>5. \A v \in Verdict : run'[r].counts[v] = Cardinality(Shown(r, v)')
    BY <2>1, <2>2, <2>3, FS_EmptySet
  <2>6. Cardinality(Missed(r)') = 0
    BY <2>4, FS_EmptySet
  <2>7. Tallied(r)'
    BY <2>1, <2>2, <2>3, <2>5, <2>6 DEF Tallied, UnderWay, Verdict
  <2>8. \A q \in Runs \ {r} : Tallied(q)'
    BY <2>1 DEF Tallied, UnderWay
  <2> QED BY <2>7, <2>8
<1>5. CASE Enter \/ Leave \/ CloseRunner
  BY <1>1, <1>5 DEF Enter, Leave, CloseRunner
<1>6. CASE Messages \/ Frames
  BY <1>1, <1>6 DEF Messages, Frames, runVars
<1>7. ASSUME NEW s \in Senders, SendPre(s) \/ Send(s) PROVE \A r \in Runs : Tallied(r)'
  BY <1>1, <1>7 DEF SendPre, Send, SendPreDone, SendTest, SendTestDone
<1>8. CASE UNCHANGED vars
  BY <1>1, <1>8 DEF vars, runVars
<1> QED BY <1>2, <1>3, <1>4, <1>5, <1>6, <1>7, <1>8 DEF Next, Window

\* Whatever scripts do, however a run ends and whatever could not be sent, a summary
\* shown counts what is shown, but for the errored requests after it
\* (useCollectionRunner.ts: run).
THEOREM SummaryStaysTrue == Spec => []SummaryTrue
<1> DEFINE Tally == \A r \in Runs : Follows(r) /\ Tallied(r)
<1>1. Init => Tally
  BY OrderStart, TalliedStart
<1>2. Inv /\ Tally /\ [Next]_vars => Tally'
  BY OrderStep, TalliedStep
<1>3. Inv /\ Tally => SummaryTrue
  <2> SUFFICES ASSUME Inv, NEW r \in Runs, shown = r, run[r].at = "ended",
                      Follows(r), Tallied(r)
               PROVE  /\ \A v \in {"passed", "failed"} : summary[r].counts[v] = Count(r, v)
                      /\ summary[r].counts["errored"] + Cardinality(Missed(r))
                           = Count(r, "errored")
                      /\ \A i \in Requests : status[r][i] \in Verdict \cup {"skipped"}
                      /\ Count(r, "skipped") > 0 => run[r].cancel
    BY DEF SummaryTrue, Missed
  <2>1. \A s : Count(r, s) = Cardinality(Shown(r, s))
    BY DEF Count, Shown
  <2>2. Shown(r, "skipped") = {} => Count(r, "skipped") = 0
    BY <2>1, FS_EmptySet
  <2> QED BY <2>1, <2>2 DEF Tallied, Verdict
<1> HIDE DEF Tally
<1> QED BY <1>1, <1>2, <1>3, Invariant, PTL DEF Spec

=============================================================================
