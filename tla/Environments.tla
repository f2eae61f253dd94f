---------------------------- MODULE Environments ----------------------------
(***************************************************************************)
(* Environments and their variables on the API server:                     *)
(* src/api/src/services/environment.service.ts over the Prisma tables      *)
(* Environment and EnvironmentVariable, which no foreign key ties          *)
(* together.                                                               *)
(*                                                                         *)
(* Saving an environment's variables deletes its rows and then creates the *)
(* new ones all at once (Promise.all), outside any transaction: each row   *)
(* lands, or fails, on its own, and the error answer that the first        *)
(* failure causes does not stop the rows still on their way.  A Requests   *)
(* slot is busy until its last query has been answered.                    *)
(*                                                                         *)
(* A caller whose role does not suffice is answered 403 before anything is *)
(* written, so only admitted calls appear; the role check reads no table   *)
(* of this module and is one step with the lookup before it.  Reading the  *)
(* variables changes nothing and has no action.  A variable stands for its *)
(* key, value and flags: it is the nth of the save that carried it.        *)
(***************************************************************************)
EXTENDS Naturals

CONSTANTS
  Envs,      \* environments that may be created
  Names,     \* names given to environments
  Requests,  \* slots of HTTP requests in flight at once
  MaxSaves,  \* bound: saves that get as far as deleting the old rows
  MaxVars    \* bound: variables in one save

Absent == "absent"    \* not created yet
Deleted == "deleted"  \* its row is gone; ids are not used again

ASSUME NamesAssumption == Absent \notin Names /\ Deleted \notin Names
ASSUME BoundsAssumption == MaxSaves \in Nat /\ MaxVars \in Nat

Saves == 1..MaxSaves
Variable == [save : Saves, nth : 1..MaxVars]

VARIABLES
  env,   \* env[e]: the Environment row's name, or Absent or Deleted
  rows,  \* rows[e]: the EnvironmentVariable rows with environmentId e
  call,  \* call[r]: where request slot r is and the handler's locals
  \* History, which no action reads but to number saves:
  saved,   \* number of saves that have deleted the old rows
  latest,  \* latest[e]: the batch the last deletion of e's rows made room for
  late,    \* late[e]: the saves that were still creating rows of e at that time
  lost     \* variables whose creation failed or died with the process

vars == <<env, rows, call, saved, latest, late, lost>>
history == <<saved, latest, late, lost>>

Label == {"idle", "rename", "wipe", "drop", "clear", "creating"}

\* A handler's locals: the environment, the new name, how many variables the
\* body carries and, once creating, those whose creation is not settled.
Call == [at : Label, env : Envs \cup {Absent}, name : Names \cup {Absent},
         size : 0..MaxVars, todo : SUBSET Variable]

Idle == [at |-> "idle", env |-> Absent, name |-> Absent, size |-> 0,
         todo |-> {}]

Init ==
  /\ env = [e \in Envs |-> Absent]
  /\ rows = [e \in Envs |-> {}]
  /\ call = [r \in Requests |-> Idle]
  /\ saved = 0
  /\ latest = [e \in Envs |-> {}]
  /\ late = [e \in Envs |-> {}]
  /\ lost = {}

-----------------------------------------------------------------------------
Start(r) == call[r].at = "idle"
At(r, label) == call[r].at = label
Goto(r, c) == call' = [call EXCEPT ![r] = c]
Reply(r) == Goto(r, Idle)

\* findEnvironmentById; the handlers answer 404 without it.
Found(e) == env[e] \in Names

\* Variables of e on their way to the table.
Arriving(e) == UNION {call[r].todo : r \in {q \in Requests : call[q].env = e}}

\* Faulty variant: the old rows stay.
DeleteNothing(e, batch) ==
  /\ latest' = [latest EXCEPT ![e] = batch]
  /\ late' = [late EXCEPT ![e] = {v.save : v \in Arriving(e)}]
  /\ UNCHANGED rows

\* deleteAllVariablesByEnvironmentId, to make room for a batch.
DeleteAll(e, batch) ==
  /\ rows' = [rows EXCEPT ![e] = {}]
  /\ latest' = [latest EXCEPT ![e] = batch]
  /\ late' = [late EXCEPT ![e] = {v.save : v \in Arriving(e)}]

\* createEnvironmentService.
Create(r) ==
  \E e \in Envs, name \in Names :
    /\ Start(r)
    /\ env[e] = Absent
    /\ env' = [env EXCEPT ![e] = name]
    /\ UNCHANGED <<rows, call, history>>

-----------------------------------------------------------------------------
(***************************************************************************)
(* updateEnvironmentService and deleteEnvironmentService.                  *)
(***************************************************************************)

BeginRename(r) ==
  \E e \in Envs, name \in Names :
    /\ Start(r)
    /\ Found(e)
    /\ Goto(r, [Idle EXCEPT !.at = "rename", !.env = e, !.name = name])
    /\ UNCHANGED <<env, rows, history>>

\* Faulty variant: an upsert.
Updatable(e) == TRUE

\* Updating or deleting a row that is gone fails with P2025.
StillThere(e) == Found(e)

Rename(r) ==
  /\ At(r, "rename")
  /\ env' = IF StillThere(call[r].env)
              THEN [env EXCEPT ![call[r].env] = call[r].name]
              ELSE env
  /\ Reply(r)
  /\ UNCHANGED <<rows, history>>

BeginDelete(r) ==
  \E e \in Envs :
    /\ Start(r)
    /\ Found(e)
    /\ Goto(r, [Idle EXCEPT !.at = "wipe", !.env = e])
    /\ UNCHANGED <<env, rows, history>>

Wipe(r) ==
  /\ At(r, "wipe")
  /\ DeleteAll(call[r].env, {})
  /\ Goto(r, [call[r] EXCEPT !.at = "drop"])
  /\ UNCHANGED <<env, saved, lost>>

Drop(r) ==
  /\ At(r, "drop")
  /\ env' = [env EXCEPT ![call[r].env] = Deleted]
  /\ Reply(r)
  /\ UNCHANGED <<rows, history>>

-----------------------------------------------------------------------------
(***************************************************************************)
(* bulkUpdateVariablesService.                                             *)
(***************************************************************************)

BeginSave(r) ==
  \E e \in Envs, n \in 0..MaxVars :
    /\ Start(r)
    /\ Found(e)
    /\ Goto(r, [Idle EXCEPT !.at = "clear", !.env = e, !.size = n])
    /\ UNCHANGED <<env, rows, history>>

\* Faulty variant: an index off by one.
BatchFromZero(save, size) == [save : {save}, nth : 0..size]

Batch(save, size) == [save : {save}, nth : 1..size]

Clear(r) ==
  LET batch == Batch(saved + 1, call[r].size)
  IN /\ At(r, "clear")
     /\ saved < MaxSaves
     /\ saved' = saved + 1
     /\ DeleteAll(call[r].env, batch)
     /\ IF batch = {}
          THEN Reply(r)
          ELSE Goto(r, [call[r] EXCEPT !.at = "creating", !.todo = batch])
     /\ UNCHANGED <<env, lost>>

\* The creation of v is settled; the handler is done when all are.
Settle(r, v) ==
  IF call[r].todo = {v}
    THEN Reply(r)
    ELSE Goto(r, [call[r] EXCEPT !.todo = @ \ {v}])

\* Faulty variant: the nth variable replaces the nth variable already there.
StoredByPosition(e, v) == {x \in rows[e] : x.nth # v.nth} \cup {v}

Stored(e, v) == rows[e] \cup {v}

\* No foreign key: the row lands whether or not its environment still exists.
CreateVariable(r) ==
  \E v \in Variable :
    /\ At(r, "creating")
    /\ v \in call[r].todo
    /\ rows' = [rows EXCEPT ![call[r].env] = Stored(call[r].env, v)]
    /\ Settle(r, v)
    /\ UNCHANGED <<env, history>>

\* One creation fails; the others go on.
LoseVariable(r) ==
  \E v \in Variable :
    /\ At(r, "creating")
    /\ v \in call[r].todo
    /\ lost' = lost \cup {v}
    /\ Settle(r, v)
    /\ UNCHANGED <<env, rows, saved, latest, late>>

-----------------------------------------------------------------------------
\* A query before the creations rejects: what was written stays.
Fail(r) ==
  /\ call[r].at \notin {"idle", "creating"}
  /\ Reply(r)
  /\ UNCHANGED <<env, rows, history>>

\* The process dies with every request in flight.
Crash ==
  /\ \E r \in Requests : ~At(r, "idle")
  /\ call' = [r \in Requests |-> Idle]
  /\ lost' = lost \cup UNION {call[r].todo : r \in Requests}
  /\ UNCHANGED <<env, rows, saved, latest, late>>

Handle(r) ==
  \/ Create(r)
  \/ BeginRename(r) \/ Rename(r)
  \/ BeginDelete(r) \/ Wipe(r) \/ Drop(r)
  \/ BeginSave(r) \/ Clear(r) \/ CreateVariable(r) \/ LoseVariable(r)
  \/ Fail(r)

Next == Crash \/ \E r \in Requests : Handle(r)

Spec == Init /\ [][Next]_vars

-----------------------------------------------------------------------------
(***************************************************************************)
(* Properties.                                                             *)
(***************************************************************************)

\* Every row, local and history value has the shape the schema gives it.
TypeOK ==
  /\ env \in [Envs -> Names \cup {Absent, Deleted}]
  /\ rows \in [Envs -> SUBSET Variable]
  /\ call \in [Requests -> Call]
  /\ saved \in 0..MaxSaves
  /\ latest \in [Envs -> SUBSET Variable]
  /\ late \in [Envs -> SUBSET Saves]
  /\ lost \in SUBSET Variable

\* The last save to have emptied an environment is not overwritten by one that
\* emptied it earlier, whatever their overlap: each of its variables is stored,
\* on its way, or was itself lost.
LatestSurvives ==
  \A e \in Envs : latest[e] \subseteq rows[e] \cup Arriving(e) \cup lost

\* Variables of an older save turn up beside the latest one's, or after a
\* delete, only when that save was still creating rows as the table was emptied:
\* saves and deletes that do not overlap replace the variables whole.
OldOnlyIfOverlapping ==
  \A e \in Envs : \A v \in rows[e] \cup Arriving(e) :
    v \in latest[e] \/ v.save \in late[e]

\* A deleted environment stays deleted, whatever requests had found it before.
DeletedForGood ==
  [][\A e \in Envs : env[e] = Deleted => env'[e] = Deleted]_vars

\* Deleting an environment removes its variables too: with no request in
\* flight, only environments that exist have any.
NoOrphans ==
  (\A r \in Requests : At(r, "idle")) =>
    \A e \in Envs : rows[e] # {} => Found(e)

=============================================================================
