----------------------------- MODULE OrderedRun -----------------------------
(***************************************************************************)
(* What running a collection promises, in the browser and on the command   *)
(* line: the requests go out one at a time in their order, each ends with  *)
(* one verdict that stands, and once one is skipped no later one is sent.  *)
(***************************************************************************)
EXTENDS Naturals

CONSTANTS
  Runs,  \* the runs there may be
  Size   \* the requests of a collection

Requests == 1 .. Size
Verdict == {"passed", "failed", "errored"}

VARIABLES status  \* status[r][i]: of request i in run r

Init == status = [r \in Runs |-> [i \in Requests |-> "pending"]]

Earlier(i) == {j \in Requests : j < i}

Send(r, i) ==
  /\ status[r][i] = "pending"
  /\ \A j \in Earlier(i) : status[r][j] \in Verdict
  /\ status' = [status EXCEPT ![r][i] = "running"]

Judge(r, i) ==
  /\ status[r][i] = "running"
  /\ \E v \in Verdict : status' = [status EXCEPT ![r][i] = v]

Skip(r, i) ==
  /\ status[r][i] = "pending"
  /\ \A j \in Earlier(i) : status[r][j] \in Verdict
  /\ status' = [status EXCEPT ![r] =
                  [j \in Requests |-> IF j < i THEN @[j] ELSE "skipped"]]

Next == \E r \in Runs, i \in Requests : Send(r, i) \/ Judge(r, i) \/ Skip(r, i)

Spec == Init /\ [][Next]_status

=============================================================================
