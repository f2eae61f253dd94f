------------------------- MODULE EnvironmentsProofs -------------------------
(***************************************************************************)
(* Proofs about Environments, for any number of environments, requests in  *)
(* flight, saves and variables in a save.                                  *)
(***************************************************************************)
EXTENDS MCVariables, Sequences, FiniteSetTheorems, TLAPS

\* The locals of a handler at the statement it waits to run: Goto only ever
\* leads to such a record.
LocalsSet(c) ==
  /\ c \in Call
  /\ c.at # "idle" => c.env \in Envs
  /\ c.at = "rename" => c.name \in Names
  /\ c.at # "creating" => c.todo = {}

TypeInv == TypeOK /\ \A r \in Requests : LocalsSet(call[r])

LEMMA IdleLocals == LocalsSet(Idle)
BY BoundsAssumption DEF Idle, LocalsSet, Call, Label

LEMMA ReplyGoto ==
  ASSUME NEW r \in Requests, Reply(r)
  PROVE  Goto(r, Idle) /\ LocalsSet(Idle) /\ Idle.todo = {}
BY IdleLocals DEF Reply, Idle

LEMMA TypeInit == Init => TypeInv
<1> SUFFICES ASSUME Init PROVE TypeInv
  OBVIOUS
<1>1. \A r \in Requests : call[r] \in Call /\ LocalsSet(call[r])
  BY IdleLocals DEF Init, LocalsSet
<1>2. TypeOK
  BY <1>1, BoundsAssumption DEF Init, TypeOK
<1> QED
  BY <1>1, <1>2 DEF TypeInv

\* A step that moves one handler on and keeps the rest well typed.
LEMMA TypeGoto ==
  ASSUME TypeInv, NEW r \in Requests, NEW c, Goto(r, c), LocalsSet(c),
         env' \in [Envs -> Names \cup {Absent, Deleted}],
         rows' \in [Envs -> SUBSET Variable],
         saved' \in 0..MaxSaves,
         latest' \in [Envs -> SUBSET Variable],
         late' \in [Envs -> SUBSET Saves],
         lost' \in SUBSET Variable
  PROVE  TypeInv'
<1>1. call' \in [Requests -> Call]
  BY DEF TypeInv, TypeOK, Goto, LocalsSet
<1>2. \A q \in Requests : LocalsSet(call'[q])
  BY DEF TypeInv, TypeOK, Goto
<1> QED
  BY <1>1, <1>2 DEF TypeInv, TypeOK

LEMMA ArrivingMember ==
  ASSUME NEW e, NEW v
  PROVE  v \in Arriving(e) <=>
           \E q \in Requests : call[q].env = e /\ v \in call[q].todo
BY DEF Arriving

LEMMA ArrivingMemberNext ==
  ASSUME NEW e, NEW v
  PROVE  v \in Arriving(e)' <=>
           \E q \in Requests : call'[q].env = e /\ v \in call'[q].todo
BY DEF Arriving

LEMMA DeleteAllType ==
  ASSUME TypeInv, NEW e \in Envs, NEW batch \in SUBSET Variable,
         DeleteAll(e, batch)
  PROVE  /\ rows' \in [Envs -> SUBSET Variable]
         /\ latest' \in [Envs -> SUBSET Variable]
         /\ late' \in [Envs -> SUBSET Saves]
<1>1. \A v \in Arriving(e) : v.save \in Saves
  BY ArrivingMember DEF TypeInv, TypeOK, Call, Variable
<1> QED
  BY <1>1 DEF DeleteAll, TypeInv, TypeOK

LEMMA BatchType ==
  ASSUME NEW save \in Saves, NEW size \in 0..MaxVars
  PROVE  /\ Batch(save, size) \in SUBSET Variable
         /\ \A v \in Batch(save, size) : v.save = save
BY BoundsAssumption DEF Batch, Variable

LEMMA SettleLocals ==
  ASSUME TypeInv, NEW r \in Requests, call[r].at = "creating",
         NEW v \in call[r].todo, Settle(r, v)
  PROVE  \E c : /\ Goto(r, c)
                /\ LocalsSet(c)
                /\ c.todo = call[r].todo \ {v}
                /\ c.todo # {} => c.env = call[r].env
<1>1. CASE call[r].todo = {v}
  BY <1>1, ReplyGoto DEF Settle
<1>2. CASE call[r].todo # {v}
  <2> DEFINE c == [call[r] EXCEPT !.todo = @ \ {v}]
  <2>1. Goto(r, c)
    BY <1>2 DEF Settle
  <2>2. call[r] \in Call /\ LocalsSet(call[r])
    BY DEF TypeInv, TypeOK
  <2>3. /\ LocalsSet(c)
        /\ c.todo = call[r].todo \ {v}
        /\ c.env = call[r].env
    BY <2>2 DEF LocalsSet, Call
  <2> QED
    BY <2>1, <2>3
<1> QED
  BY <1>1, <1>2

LEMMA TypeStep == TypeInv /\ [Next]_vars => TypeInv'
<1> SUFFICES ASSUME TypeInv, [Next]_vars PROVE TypeInv'
  OBVIOUS
<1>1. CASE UNCHANGED vars
  BY <1>1
     DEF vars, TypeInv, TypeOK
<1>2. CASE Crash
  <2>1. \A r \in Requests : LocalsSet(call'[r])
    BY <1>2, IdleLocals DEF Crash
  <2>2. call' \in [Requests -> Call]
    BY <1>2, IdleLocals DEF Crash, LocalsSet
  <2>3. lost' \in SUBSET Variable
    BY <1>2 DEF Crash, TypeInv, TypeOK, Call
  <2> QED
    BY <1>2, <2>1, <2>2, <2>3 DEF Crash, TypeInv, TypeOK
<1>3. ASSUME NEW r \in Requests, Create(r) PROVE TypeInv'
  BY <1>3 DEF Create, history, TypeInv, TypeOK
<1>4. ASSUME NEW r \in Requests, BeginRename(r) PROVE TypeInv'
  <2>1. PICK e \in Envs, name \in Names :
          Goto(r, [Idle EXCEPT !.at = "rename", !.env = e, !.name = name])
    BY <1>4 DEF BeginRename
  <2>2. LocalsSet([Idle EXCEPT !.at = "rename", !.env = e, !.name = name])
    <3>1. Idle \in Call
      BY IdleLocals DEF LocalsSet
    <3> QED
      BY <3>1 DEF Idle, LocalsSet, Call, Label
  <2> QED
    BY <1>4, <2>1, <2>2, TypeGoto DEF BeginRename, history, TypeInv, TypeOK
<1>5. ASSUME NEW r \in Requests, Rename(r) PROVE TypeInv'
  <2>1. call[r].env \in Envs /\ call[r].name \in Names
    BY <1>5 DEF Rename, At, TypeInv, LocalsSet
  <2>2. env' \in [Envs -> Names \cup {Absent, Deleted}]
    BY <1>5, <2>1 DEF Rename, TypeInv, TypeOK
  <2> QED
    BY <1>5, <2>2, TypeGoto, ReplyGoto DEF Rename, history, TypeInv, TypeOK
<1>6. ASSUME NEW r \in Requests, BeginDelete(r) PROVE TypeInv'
  <2>1. PICK e \in Envs : Goto(r, [Idle EXCEPT !.at = "wipe", !.env = e])
    BY <1>6 DEF BeginDelete
  <2>2. LocalsSet([Idle EXCEPT !.at = "wipe", !.env = e])
    <3>1. Idle \in Call
      BY IdleLocals DEF LocalsSet
    <3> QED
      BY <3>1 DEF Idle, LocalsSet, Call, Label
  <2> QED
    BY <1>6, <2>1, <2>2, TypeGoto DEF BeginDelete, history, TypeInv, TypeOK
<1>7. ASSUME NEW r \in Requests, Wipe(r) PROVE TypeInv'
  <2>1. call[r].env \in Envs
    BY <1>7 DEF Wipe, At, TypeInv, LocalsSet
  <2>2. LocalsSet([call[r] EXCEPT !.at = "drop"])
    BY <1>7 DEF Wipe, At, TypeInv, TypeOK, LocalsSet, Call, Label
  <2> QED
    BY <1>7, <2>1, <2>2, TypeGoto, DeleteAllType DEF Wipe, TypeInv, TypeOK
<1>8. ASSUME NEW r \in Requests, Drop(r) PROVE TypeInv'
  <2>1. env' \in [Envs -> Names \cup {Absent, Deleted}]
    BY <1>8 DEF Drop, TypeInv, TypeOK
  <2> QED
    BY <1>8, <2>1, TypeGoto, ReplyGoto DEF Drop, history, TypeInv, TypeOK
<1>9. ASSUME NEW r \in Requests, BeginSave(r) PROVE TypeInv'
  <2>1. PICK e \in Envs, n \in 0..MaxVars :
          Goto(r, [Idle EXCEPT !.at = "clear", !.env = e, !.size = n])
    BY <1>9 DEF BeginSave
  <2>2. LocalsSet([Idle EXCEPT !.at = "clear", !.env = e, !.size = n])
    BY DEF Idle, LocalsSet, Call, Label
  <2> QED
    BY <1>9, <2>1, <2>2, TypeGoto DEF BeginSave, history, TypeInv, TypeOK
<1>10. ASSUME NEW r \in Requests, Clear(r) PROVE TypeInv'
  <2> DEFINE batch == Batch(saved + 1, call[r].size)
  <2>1. call[r].env \in Envs /\ call[r] \in Call
    BY <1>10 DEF Clear, At, TypeInv, TypeOK, LocalsSet
  <2>2. saved + 1 \in Saves
    BY <1>10, BoundsAssumption DEF Clear, TypeInv, TypeOK, Saves
  <2>3. batch \in SUBSET Variable
    BY <2>1, <2>2, BatchType DEF Call
  <2>4. DeleteAll(call[r].env, batch) /\ UNCHANGED <<env, lost>>
    BY <1>10 DEF Clear
  <2>5. saved' \in 0..MaxSaves
    BY <1>10, BoundsAssumption DEF Clear, TypeInv, TypeOK
  <2>6. LocalsSet([call[r] EXCEPT !.at = "creating", !.todo = batch])
    BY <2>1, <2>3 DEF LocalsSet, Call, Label
  <2>7. PICK c : Goto(r, c) /\ LocalsSet(c)
    BY <1>10, <2>6, ReplyGoto DEF Clear
  <2> QED
    BY <2>1, <2>3, <2>4, <2>5, <2>7, TypeGoto, DeleteAllType
       DEF TypeInv, TypeOK
<1>11. ASSUME NEW r \in Requests, CreateVariable(r) PROVE TypeInv'
  <2>1. PICK v \in Variable :
          /\ v \in call[r].todo
          /\ rows' = [rows EXCEPT ![call[r].env] = Stored(call[r].env, v)]
          /\ Settle(r, v)
    BY <1>11 DEF CreateVariable
  <2>2. PICK c : Goto(r, c) /\ LocalsSet(c)
    BY <1>11, <2>1, SettleLocals DEF CreateVariable, At
  <2>3. rows' \in [Envs -> SUBSET Variable]
    BY <2>1 DEF Stored, TypeInv, TypeOK
  <2> QED
    BY <1>11, <2>2, <2>3, TypeGoto DEF CreateVariable, history, TypeInv, TypeOK
<1>12. ASSUME NEW r \in Requests, LoseVariable(r) PROVE TypeInv'
  <2>1. PICK v \in Variable :
          v \in call[r].todo /\ lost' = lost \cup {v} /\ Settle(r, v)
    BY <1>12 DEF LoseVariable
  <2>2. PICK c : Goto(r, c) /\ LocalsSet(c)
    BY <1>12, <2>1, SettleLocals DEF LoseVariable, At
  <2> QED
    BY <1>12, <2>1, <2>2, TypeGoto DEF LoseVariable, TypeInv, TypeOK
<1>13. ASSUME NEW r \in Requests, Fail(r) PROVE TypeInv'
  BY <1>13, TypeGoto, ReplyGoto DEF Fail, history, TypeInv, TypeOK
<1> QED
  BY <1>1, <1>2, <1>3, <1>4, <1>5, <1>6, <1>7, <1>8, <1>9, <1>10, <1>11,
     <1>12, <1>13 DEF Next, Handle

\* Every reachable state is well typed.
THEOREM TypeCorrect == Spec => []TypeOK
<1>1. TypeInv => TypeOK
  BY DEF TypeInv
<1> QED
  BY <1>1, TypeInit, TypeStep, PTL DEF Spec

-----------------------------------------------------------------------------
(***************************************************************************)
(* What a save or a delete leaves behind.  Both invariants follow the      *)
(* variables on their way to the table: a step may store or lose one, and  *)
(* only an emptying of the table makes room for new ones.                  *)
(***************************************************************************)

\* A step of a handler with nothing on its way before or after.
LEMMA QuietGoto ==
  ASSUME TypeInv, NEW r \in Requests, NEW c, Goto(r, c),
         call[r].todo = {}, c.todo = {}
  PROVE  \A e : Arriving(e)' = Arriving(e)
<1> SUFFICES ASSUME NEW e, NEW v
             PROVE  v \in Arriving(e)' <=> v \in Arriving(e)
  BY DEF Arriving
<1>1. \A q \in Requests : call'[q] = IF q = r THEN c ELSE call[q]
  BY DEF Goto, TypeInv, TypeOK
<1> QED
  BY <1>1, ArrivingMember, ArrivingMemberNext

\* Settling v takes it, and nothing else, off the way to its environment.
LEMMA SettleArriving ==
  ASSUME TypeInv, NEW r \in Requests, call[r].at = "creating",
         NEW v \in call[r].todo, Settle(r, v), NEW e, NEW x
  PROVE  /\ x \in Arriving(e)' => x \in Arriving(e)
         /\ x \in Arriving(e) =>
              x \in Arriving(e)' \/ (x = v /\ e = call[r].env)
<1>1. PICK c : /\ Goto(r, c)
               /\ c.todo = call[r].todo \ {v}
               /\ c.todo # {} => c.env = call[r].env
  BY SettleLocals
<1>2. \A q \in Requests : call'[q] = IF q = r THEN c ELSE call[q]
  BY <1>1 DEF Goto, TypeInv, TypeOK
<1> QED
  BY <1>1, <1>2, ArrivingMember, ArrivingMemberNext

SaveInv == LatestSurvives /\ OldOnlyIfOverlapping

\* A step that leaves the rows, the variables on their way and the history be.
LEMMA QuietStep ==
  ASSUME SaveInv, UNCHANGED <<rows, latest, late, lost>>,
         \A e : Arriving(e)' = Arriving(e)
  PROVE  SaveInv'
BY DEF SaveInv, LatestSurvives, OldOnlyIfOverlapping

LEMMA SaveStep ==
  ASSUME TypeInv, SaveInv, [Next]_vars
  PROVE  SaveInv'
<1>1. CASE UNCHANGED vars
  BY <1>1, QuietStep DEF vars, Arriving
<1>2. CASE Crash
  <2>1. \A e : \A v : v \notin Arriving(e)'
    BY <1>2, ArrivingMemberNext DEF Crash, Idle
  <2>2. \A e \in Envs : \A v : v \in Arriving(e) => v \in lost'
    BY <1>2, ArrivingMember DEF Crash
  <2> QED
    BY <1>2, <2>1, <2>2
       DEF Crash, SaveInv, LatestSurvives, OldOnlyIfOverlapping
<1>3. ASSUME NEW r \in Requests, Create(r) PROVE SaveInv'
  BY <1>3, QuietStep DEF Create, history, Arriving
<1>4. ASSUME NEW r \in Requests,
             BeginRename(r) \/ BeginDelete(r) \/ BeginSave(r)
      PROVE  SaveInv'
  <2>1. \E c : Goto(r, c) /\ c.todo = {}
    <3>1. CASE BeginRename(r)
      <4>1. PICK e, name :
              Goto(r, [Idle EXCEPT !.at = "rename", !.env = e, !.name = name])
        BY <3>1 DEF BeginRename
      <4>2. [Idle EXCEPT !.at = "rename", !.env = e, !.name = name].todo = {}
        BY DEF Idle
      <4> QED
        BY <4>1, <4>2
    <3>2. CASE BeginDelete(r)
      <4>1. PICK e : Goto(r, [Idle EXCEPT !.at = "wipe", !.env = e])
        BY <3>2 DEF BeginDelete
      <4>2. [Idle EXCEPT !.at = "wipe", !.env = e].todo = {}
        BY DEF Idle
      <4> QED
        BY <4>1, <4>2
    <3>3. CASE BeginSave(r)
      <4>1. PICK e, n :
              Goto(r, [Idle EXCEPT !.at = "clear", !.env = e, !.size = n])
        BY <3>3 DEF BeginSave
      <4>2. [Idle EXCEPT !.at = "clear", !.env = e, !.size = n].todo = {}
        BY DEF Idle
      <4> QED
        BY <4>1, <4>2
    <3> QED
      BY <1>4, <3>1, <3>2, <3>3
  <2>2. call[r].todo = {}
    BY <1>4 DEF BeginRename, BeginDelete, BeginSave, Start, TypeInv, LocalsSet
  <2>3. \A e : Arriving(e)' = Arriving(e)
    BY <2>1, <2>2, QuietGoto
  <2> QED
    BY <1>4, <2>3, QuietStep
       DEF BeginRename, BeginDelete, BeginSave, history
<1>5. ASSUME NEW r \in Requests, Rename(r) \/ Drop(r) \/ Fail(r)
      PROVE  SaveInv'
  <2>1. call[r].todo = {}
    BY <1>5 DEF Rename, Drop, Fail, At, TypeInv, LocalsSet
  <2> QED
    BY <1>5, <2>1, QuietGoto, QuietStep, ReplyGoto
       DEF Rename, Drop, Fail, history
<1>6. ASSUME NEW r \in Requests, Wipe(r) PROVE SaveInv'
  <2> DEFINE e == call[r].env
  <2>1. e \in Envs /\ call[r].todo = {} /\ call[r] \in Call
    BY <1>6 DEF Wipe, At, TypeInv, TypeOK, LocalsSet
  <2>2. \A f : Arriving(f)' = Arriving(f)
    BY <1>6, <2>1, QuietGoto DEF Wipe, Call
  <2>3. /\ rows' = [rows EXCEPT ![e] = {}]
        /\ latest' = [latest EXCEPT ![e] = {}]
        /\ late' = [late EXCEPT ![e] = {v.save : v \in Arriving(e)}]
        /\ lost' = lost
    BY <1>6 DEF Wipe, DeleteAll
  <2>4. LatestSurvives'
    BY <2>1, <2>2, <2>3 DEF SaveInv, LatestSurvives, TypeInv, TypeOK
  <2>5. OldOnlyIfOverlapping'
    BY <2>1, <2>2, <2>3 DEF SaveInv, OldOnlyIfOverlapping, TypeInv, TypeOK
  <2> QED
    BY <2>4, <2>5 DEF SaveInv
<1>7. ASSUME NEW r \in Requests, Clear(r) PROVE SaveInv'
  <2> DEFINE e == call[r].env
             batch == Batch(saved + 1, call[r].size)
  <2>1. e \in Envs /\ call[r].todo = {} /\ call[r] \in Call
    BY <1>7 DEF Clear, At, TypeInv, TypeOK, LocalsSet
  <2>2. PICK c : Goto(r, c) /\ c.todo = batch /\ (batch # {} => c.env = e)
    <3> DEFINE d == [call[r] EXCEPT !.at = "creating", !.todo = batch]
    <3>1. d.todo = batch /\ d.env = e
      BY <2>1 DEF Call
    <3>2. CASE batch = {} /\ Reply(r)
      BY <3>2, ReplyGoto
    <3>3. CASE Goto(r, d)
      BY <3>1, <3>3
    <3> QED
      BY <1>7, <3>2, <3>3 DEF Clear
  <2>3. \A q \in Requests : call'[q] = IF q = r THEN c ELSE call[q]
    BY <2>2 DEF Goto, TypeInv, TypeOK
  <2>4. \A f, v : v \in Arriving(f)' <=>
                    v \in Arriving(f) \/ (f = e /\ v \in batch)
    BY <2>1, <2>2, <2>3, ArrivingMember, ArrivingMemberNext
  <2>5. /\ rows' = [rows EXCEPT ![e] = {}]
        /\ latest' = [latest EXCEPT ![e] = batch]
        /\ late' = [late EXCEPT ![e] = {v.save : v \in Arriving(e)}]
        /\ lost' = lost
    BY <1>7 DEF Clear, DeleteAll
  <2>6. LatestSurvives'
    BY <2>1, <2>4, <2>5 DEF SaveInv, LatestSurvives, TypeInv, TypeOK
  <2>7. OldOnlyIfOverlapping'
    BY <2>1, <2>4, <2>5 DEF SaveInv, OldOnlyIfOverlapping, TypeInv, TypeOK
  <2> QED
    BY <2>6, <2>7 DEF SaveInv
<1>8. ASSUME NEW r \in Requests, CreateVariable(r) PROVE SaveInv'
  <2> DEFINE e == call[r].env
  <2>1. PICK v \in Variable :
          /\ v \in call[r].todo
          /\ rows' = [rows EXCEPT ![e] = Stored(e, v)]
          /\ Settle(r, v)
    BY <1>8 DEF CreateVariable
  <2>2. call[r].at = "creating" /\ UNCHANGED <<latest, late, lost>>
    BY <1>8 DEF CreateVariable, At, history
  <2>3. e \in Envs /\ v \in Arriving(e)
    BY <2>1, <2>2, ArrivingMember DEF TypeInv, LocalsSet
  <2>4. \A f, x : /\ x \in Arriving(f)' => x \in Arriving(f)
                  /\ x \in Arriving(f) =>
                       x \in Arriving(f)' \/ (x = v /\ f = e)
    BY <2>1, <2>2, SettleArriving
  <2>5. \A f \in Envs : rows'[f] = IF f = e THEN rows[f] \cup {v} ELSE rows[f]
    BY <2>1, <2>3 DEF Stored, TypeInv, TypeOK
  <2>6. LatestSurvives'
    <3> SUFFICES ASSUME NEW f \in Envs, NEW x \in latest[f],
                        x \notin Arriving(f)', x \notin lost
                 PROVE  x \in rows'[f]
      BY <2>2 DEF LatestSurvives
    <3>1. x \in rows[f] \/ x \in Arriving(f)
      BY DEF SaveInv, LatestSurvives
    <3> QED
      BY <2>4, <2>5, <3>1
  <2>7. OldOnlyIfOverlapping'
    BY <2>2, <2>3, <2>4, <2>5 DEF SaveInv, OldOnlyIfOverlapping
  <2> QED
    BY <2>6, <2>7 DEF SaveInv
<1>9. ASSUME NEW r \in Requests, LoseVariable(r) PROVE SaveInv'
  <2>1. PICK v \in Variable :
          v \in call[r].todo /\ lost' = lost \cup {v} /\ Settle(r, v)
    BY <1>9 DEF LoseVariable
  <2>2. call[r].at = "creating" /\ UNCHANGED <<rows, latest, late>>
    BY <1>9 DEF LoseVariable, At
  <2>3. \A f, x : /\ x \in Arriving(f)' => x \in Arriving(f)
                  /\ x \in Arriving(f) => x \in Arriving(f)' \/ x = v
    BY <2>1, <2>2, SettleArriving
  <2> QED
    BY <2>1, <2>2, <2>3 DEF SaveInv, LatestSurvives, OldOnlyIfOverlapping
<1> QED
  BY <1>1, <1>2, <1>3, <1>4, <1>5, <1>6, <1>7, <1>8, <1>9 DEF Next, Handle

LEMMA SaveInit == Init => SaveInv
<1> SUFFICES ASSUME Init PROVE SaveInv
  OBVIOUS
<1>1. \A e, v : v \notin Arriving(e)
  BY ArrivingMember DEF Init, Idle
<1> QED
  BY <1>1 DEF Init, SaveInv, LatestSurvives, OldOnlyIfOverlapping

\* The save that emptied an environment last keeps all its variables, but for
\* those lost to a failed query or a crash.
THEOREM LatestSaveSurvives == Spec => []LatestSurvives
<1>1. Init => TypeInv /\ SaveInv
  BY TypeInit, SaveInit
<1>2. TypeInv /\ SaveInv /\ [Next]_vars => (TypeInv /\ SaveInv)'
  BY TypeStep, SaveStep
<1>3. SaveInv => LatestSurvives
  BY DEF SaveInv
<1> QED
  BY <1>1, <1>2, <1>3, PTL DEF Spec

\* Older variables stay or come back only through an overlap.
THEOREM SavesReplaceWhole == Spec => []OldOnlyIfOverlapping
<1>1. Init => TypeInv /\ SaveInv
  BY TypeInit, SaveInit
<1>2. TypeInv /\ SaveInv /\ [Next]_vars => (TypeInv /\ SaveInv)'
  BY TypeStep, SaveStep
<1>3. SaveInv => OldOnlyIfOverlapping
  BY DEF SaveInv
<1> QED
  BY <1>1, <1>2, <1>3, PTL DEF Spec

\* A deleted environment is never written to again.
THEOREM DeletedStaysDeleted == Spec => DeletedForGood
<1>1. ASSUME TypeInv, [Next]_vars, NEW e \in Envs, env[e] = Deleted
      PROVE  env'[e] = Deleted
  <2>1. Absent # Deleted
    BY DEF Absent, Deleted
  <2>2. ASSUME NEW r \in Requests, Create(r) \/ Drop(r) \/ Rename(r)
        PROVE  env'[e] = Deleted
    BY <1>1, <2>1, <2>2, NamesAssumption
       DEF Create, Drop, Rename, StillThere, Found, TypeInv, TypeOK
  <2>3. CASE UNCHANGED env
    BY <1>1, <2>3
  <2> QED
    BY <1>1, <2>2, <2>3
       DEF Next, vars, Crash, Handle, BeginRename, BeginDelete, Wipe, BeginSave,
           Clear, CreateVariable, LoseVariable, Fail
<1>2. TypeInv /\ [Next]_vars =>
        [\A e \in Envs : env[e] = Deleted => env'[e] = Deleted]_vars
  BY <1>1
<1> QED
  BY <1>2, TypeInit, TypeStep, PTL DEF Spec, DeletedForGood

-----------------------------------------------------------------------------
(***************************************************************************)
(* What programs make of the variables.                                    *)
(*                                                                         *)
(* The runners let a script's variables count at once, so that runtime and *)
(* said are one.  In the builder a request under way has its own copy,     *)
(* which agrees with what was said last for every name that is not loose;  *)
(* with none under way that is the runtime.                                *)
(***************************************************************************)
Agree ==
  IF client = "builder"
  THEN \A k \in VarNames \ loose :
         /\ \A s \in Sends : sending[s].at # "idle" => sending[s].own[k] = said[k]
         /\ (\A s \in Sends : sending[s].at = "idle") => runtime[k] = said[k]
  ELSE runtime = said

SentTypes ==
  /\ client \in Sent!Clients
  /\ variables \in Seq(Sent!Variable)
  /\ runtime \in Sent!Runtime /\ said \in Sent!Runtime
  /\ sending = [s \in Sends |-> sending[s]]
  /\ \A s \in Sends : sending[s].own \in Sent!Runtime

SentInv == SentTypes /\ Agree

LEMMA TypedSeq ==
  ASSUME NEW S, NEW n \in Nat, NEW f \in [1 .. n -> S]
  PROVE  f \in Seq(S)
OBVIOUS

LEMMA ElementOf ==
  ASSUME NEW S, NEW q \in Seq(S), NEW i \in DOMAIN q
  PROVE  q[i] \in S
OBVIOUS

LEMMA OverType ==
  ASSUME NEW f \in Sent!Runtime, NEW g \in Sent!Runtime
  PROVE  Sent!Over(f, g) \in Sent!Runtime
BY DEF Sent!Over, Sent!Runtime

LEMMA SentInit == Sent!Init => SentInv
<1> SUFFICES ASSUME Sent!Init PROVE SentInv
  OBVIOUS
<1>1. Sent!NothingSet \in Sent!Runtime
  BY DEF Sent!NothingSet, Sent!Runtime
<1>2. \A s \in Sends : sending[s].own \in Sent!Runtime /\ sending[s].at = "idle"
  BY <1>1 DEF Sent!Init, Sent!NotSending
<1>3. variables \in Seq(Sent!Variable)
  <2>1. PICK n \in 0 .. 2 : variables \in [1 .. n -> Sent!Variable]
    BY DEF Sent!Init
  <2> QED BY <2>1, TypedSeq
<1>4. sending = [s \in Sends |-> sending[s]]
  BY DEF Sent!Init
<1>5. SentTypes
  BY <1>2, <1>3, <1>4 DEF SentTypes, Sent!Init
<1> QED
  BY <1>2, <1>5 DEF SentInv, Agree, Sent!Init

\* A step moves one request and leaves the others as they are.
LEMMA OneMoves ==
  ASSUME SentTypes, NEW s \in Sends, NEW at, NEW rt \in Sent!Runtime,
         Sent!Goto(s, at, rt) \/ (Sent!Stop(s) /\ at = "idle" /\ rt = Sent!NothingSet)
  PROVE  /\ sending' = [q \in Sends |-> sending'[q]]
         /\ sending'[s].at = at /\ sending'[s].own = rt
         /\ \A q \in Sends \ {s} : sending'[q] = sending[q]
         /\ \A q \in Sends : sending'[q].own \in Sent!Runtime
<1>1. sending' = [sending EXCEPT ![s] = [at |-> at, own |-> rt]]
  BY DEF Sent!Goto, Sent!Stop, Sent!NotSending
<1> QED BY <1>1 DEF SentTypes

LEMMA NothingType == Sent!NothingSet \in Sent!Runtime
BY DEF Sent!NothingSet, Sent!Runtime

LEMMA BeginAgrees ==
  ASSUME SentInv, NEW s \in Sends, Sent!Begin(s)
  PROVE  SentInv'
<1> USE DEF SentInv
<1>1. /\ sending' = [q \in Sends |-> sending'[q]]
      /\ sending'[s].at = "pre" /\ sending'[s].own = runtime
      /\ \A q \in Sends \ {s} : sending'[q] = sending[q]
      /\ \A q \in Sends : sending'[q].own \in Sent!Runtime
  BY OneMoves DEF Sent!Begin, SentTypes
<1>2. SentTypes'
  BY <1>1 DEF SentTypes, Sent!Begin
<1>3. CASE client # "builder"
  BY <1>2, <1>3 DEF Agree, Sent!Begin
<1>4. CASE client = "builder"
  <2> SUFFICES ASSUME NEW k \in VarNames, k \notin loose',
                      NEW q \in Sends, sending'[q].at # "idle"
               PROVE  sending'[q].own[k] = said[k]
    BY <1>1, <1>2, <1>4 DEF Agree, Sent!Begin
  <2>1. k \notin loose /\ \A r \in Sends : sending[r].at # "idle" => sending[r].own[k] = runtime[k]
    BY DEF Sent!Begin
  <2>2. CASE q # s
    BY <1>1, <1>4, <2>1, <2>2 DEF Agree
  <2>3. CASE q = s
    BY <1>1, <1>4, <2>1, <2>3 DEF Agree
  <2> QED BY <2>2, <2>3
<1> QED BY <1>3, <1>4

\* What a script set counts in what is said, and makes these names sure or loose.
LEMMA HeardSays ==
  ASSUME SentTypes, NEW s \in Sends, NEW set \in Sent!Runtime, Sent!Heard(s, set)
  PROVE  /\ said' \in Sent!Runtime
         /\ \A k \in VarNames : said'[k] = IF set[k] # None THEN set[k] ELSE said[k]
         /\ \A k \in VarNames \ loose' :
              \/ set[k] = None /\ k \notin loose
              \/ set[k] # None /\ Sent!Alone(s)
<1>1. said' = Sent!Over(said, set)
  BY DEF Sent!Heard
<1>2. said' \in Sent!Runtime
  BY <1>1, OverType DEF SentTypes
<1>3. \A k \in VarNames : said'[k] = IF set[k] # None THEN set[k] ELSE said[k]
  BY <1>1 DEF Sent!Over
<1>4. \A k \in VarNames \ loose' :
        \/ set[k] = None /\ k \notin loose
        \/ set[k] # None /\ Sent!Alone(s)
  BY DEF Sent!Heard
<1> QED BY <1>2, <1>3, <1>4

LEMMA PreScriptAgrees ==
  ASSUME SentInv, NEW s \in Sends, NEW set \in Sent!Runtime, Sent!PreScript(s, set)
  PROVE  SentInv'
<1> USE DEF SentInv
<1> DEFINE mine == Sent!Over(sending[s].own, set)
<1>1. mine \in Sent!Runtime /\ sending[s].at = "pre"
  BY OverType DEF SentTypes, Sent!PreScript
<1>2. /\ sending' = [q \in Sends |-> sending'[q]]
      /\ sending'[s].at = "execute" /\ sending'[s].own = mine
      /\ \A q \in Sends \ {s} : sending'[q] = sending[q]
      /\ \A q \in Sends : sending'[q].own \in Sent!Runtime
  BY <1>1, OneMoves DEF Sent!PreScript, SentTypes
<1>3. /\ said' \in Sent!Runtime
      /\ \A k \in VarNames : said'[k] = IF set[k] # None THEN set[k] ELSE said[k]
      /\ \A k \in VarNames \ loose' :
           \/ set[k] = None /\ k \notin loose
           \/ set[k] # None /\ Sent!Alone(s)
  BY HeardSays DEF Sent!PreScript
<1>4. SentTypes'
  BY <1>2, <1>3, OverType DEF SentTypes, Sent!PreScript
<1>5. CASE client # "builder"
  BY <1>4, <1>5 DEF Agree, Sent!PreScript, Sent!Heard
<1>6. CASE client = "builder"
  <2> SUFFICES ASSUME NEW k \in VarNames, k \notin loose',
                      NEW q \in Sends, sending'[q].at # "idle"
               PROVE  sending'[q].own[k] = said'[k]
    BY <1>2, <1>4, <1>6 DEF Agree, Sent!PreScript
  <2>1. mine[k] = IF set[k] # None THEN set[k] ELSE sending[s].own[k]
    BY DEF Sent!Over
  <2>2. CASE q = s
    BY <1>1, <1>2, <1>3, <1>6, <2>1, <2>2 DEF Agree
  <2>3. CASE q # s
    BY <1>2, <1>3, <1>6, <2>3 DEF Agree, Sent!Alone
  <2> QED BY <2>2, <2>3
<1> QED BY <1>5, <1>6

LEMMA TestScriptAgrees ==
  ASSUME SentInv, NEW s \in Sends, NEW set \in Sent!Runtime, Sent!TestScript(s, set)
  PROVE  SentInv'
<1> USE DEF SentInv
<1>1. sending[s].own \in Sent!Runtime /\ sending[s].at = "test"
  BY DEF SentTypes, Sent!TestScript
<1>2. /\ sending' = [q \in Sends |-> sending'[q]]
      /\ sending'[s].at = "idle"
      /\ \A q \in Sends \ {s} : sending'[q] = sending[q]
      /\ \A q \in Sends : sending'[q].own \in Sent!Runtime
  BY NothingType, OneMoves DEF Sent!TestScript
<1>3. /\ said' \in Sent!Runtime
      /\ \A k \in VarNames : said'[k] = IF set[k] # None THEN set[k] ELSE said[k]
      /\ \A k \in VarNames \ loose' :
           \/ set[k] = None /\ k \notin loose
           \/ set[k] # None /\ Sent!Alone(s)
  BY HeardSays DEF Sent!TestScript
<1>4. SentTypes'
  BY <1>1, <1>2, <1>3, OverType DEF SentTypes, Sent!TestScript
<1>5. CASE client # "builder"
  BY <1>4, <1>5 DEF Agree, Sent!TestScript, Sent!Heard
<1>6. CASE client = "builder"
  <2>1. ASSUME NEW k \in VarNames, k \notin loose', NEW q \in Sends, sending'[q].at # "idle"
        PROVE  sending'[q].own[k] = said'[k]
    BY <1>2, <1>3, <1>6, <2>1 DEF Agree, Sent!Alone
  <2>2. ASSUME NEW k \in VarNames, k \notin loose'
        PROVE  runtime'[k] = said'[k]
    <3>1. runtime'[k] = IF set[k] # None THEN set[k] ELSE sending[s].own[k]
      BY <1>6 DEF Sent!TestScript, Sent!Over
    <3> QED BY <1>1, <1>3, <1>6, <2>2, <3>1 DEF Agree
  <2> QED BY <1>4, <1>6, <2>1, <2>2 DEF Agree, Sent!TestScript
<1> QED BY <1>5, <1>6

\* The steps in which no script is heard.
LEMMA SilentAgrees ==
  ASSUME SentInv, NEW s \in Sends,
         \/ Sent!PreScriptFails(s) \/ Sent!Execute(s) \/ Sent!ExecuteFails(s)
         \/ Sent!TestScriptLost(s)
  PROVE  SentInv'
<1> USE DEF SentInv
<1>0. sending[s].at # "idle" /\ sending[s].own \in Sent!Runtime
  BY DEF SentTypes, Sent!PreScriptFails, Sent!Execute, Sent!ExecuteFails, Sent!TestScriptLost
<1>1. PICK at \in {"idle", "execute", "test"}, rt \in Sent!Runtime :
        /\ Sent!Goto(s, at, rt) \/ (Sent!Stop(s) /\ at = "idle" /\ rt = Sent!NothingSet)
        /\ client = "builder" /\ at # "idle" => rt = sending[s].own
  <2>1. \/ Sent!Stop(s)
        \/ Sent!Goto(s, "execute", sending[s].own) \/ Sent!Goto(s, "test", sending[s].own)
    BY DEF Sent!PreScriptFails, Sent!Execute, Sent!ExecuteFails, Sent!TestScriptLost
  <2> QED BY <1>0, <2>1, NothingType
<1>2. /\ sending' = [q \in Sends |-> sending'[q]]
      /\ sending'[s].at = at /\ sending'[s].own = rt
      /\ \A q \in Sends \ {s} : sending'[q] = sending[q]
      /\ \A q \in Sends : sending'[q].own \in Sent!Runtime
  BY <1>1, OneMoves
<1>3. /\ UNCHANGED <<client, variables, said>> /\ runtime' \in {runtime, sending[s].own}
      /\ client # "builder" => runtime' = runtime
  BY DEF Sent!PreScriptFails, Sent!Execute, Sent!ExecuteFails, Sent!TestScriptLost
<1>4. SentTypes'
  BY <1>0, <1>2, <1>3 DEF SentTypes
<1>5. CASE client # "builder"
  BY <1>3, <1>4, <1>5 DEF Agree
<1>6. CASE client = "builder"
  <2>1. loose \subseteq loose'
    BY DEF Sent!PreScriptFails, Sent!Execute, Sent!ExecuteFails, Sent!TestScriptLost
  <2>2. ASSUME NEW k \in VarNames, k \notin loose', NEW q \in Sends, sending'[q].at # "idle"
        PROVE  sending'[q].own[k] = said[k]
    BY <1>0, <1>1, <1>2, <1>6, <2>1, <2>2 DEF Agree
  <2>3. ASSUME NEW k \in VarNames, k \notin loose', \A q \in Sends : sending'[q].at = "idle"
        PROVE  runtime'[k] = said[k]
    <3>1. sending[s].own[k] = said[k]
      BY <1>0, <1>6, <2>1, <2>3 DEF Agree
    <3>2. Sent!ExecuteFails(s) \/ Sent!TestScriptLost(s)
      BY <1>2, <1>6, <2>3, OneMoves, <1>0
         DEF Sent!PreScriptFails, Sent!Execute, SentTypes, Sent!Goto
    <3> QED BY <1>6, <2>3, <3>1, <3>2 DEF Sent!ExecuteFails, Sent!TestScriptLost
  <2> QED BY <1>3, <1>4, <1>6, <2>2, <2>3 DEF Agree
<1> QED BY <1>5, <1>6

LEMMA SentNext == SentInv /\ [Sent!Next]_(Sent!state) => SentInv'
<1> SUFFICES ASSUME SentInv, [Sent!Next]_(Sent!state) PROVE SentInv'
  OBVIOUS
<1>1. CASE UNCHANGED Sent!state
  BY <1>1 DEF Sent!state, SentInv, SentTypes, Agree
<1>2. CASE Sent!Next
  BY <1>2, BeginAgrees, PreScriptAgrees, TestScriptAgrees, SilentAgrees DEF Sent!Next
<1> QED BY <1>1, <1>2

\* With one row per name, first and last, enabled or not, are the same row.
LEMMA OneRowOneMeaning == SentTypes => Sent!OneMeaning
<1> SUFFICES ASSUME SentTypes,
                    \A i, j \in DOMAIN variables : variables[i].name = variables[j].name => i = j,
                    NEW k \in VarNames, NEW c \in Sent!Clients, NEW d \in Sent!Clients
             PROVE  Sent!Resolved(c, k) = Sent!Resolved(d, k)
                    /\ Sent!ReadByScript(c, k) = Sent!Resolved(c, k)
  BY DEF Sent!OneMeaning
<1>1. DOMAIN variables \subseteq Nat
  BY DEF SentTypes
<1>2. ASSUME NEW i \in DOMAIN variables
      PROVE  Sent!Least({i}) = i /\ Sent!Greatest({i}) = i
  BY <1>1 DEF Sent!Least, Sent!Greatest
<1>3. CASE Sent!Named(k) = {}
  <2>1. Sent!Enabled(k) = {}
    BY <1>3 DEF Sent!Enabled
  <2> QED
    BY <1>3, <2>1 DEF Sent!Resolved, Sent!ReadByScript, Sent!BuilderValue, Sent!RunnerValue,
                      Sent!CliValue, Sent!EnvironmentValue, Sent!Clients
<1>4. CASE Sent!Named(k) # {}
  <2>1. PICK i \in DOMAIN variables : Sent!Named(k) = {i}
    BY <1>4 DEF Sent!Named
  <2>2. Sent!Enabled(k) = IF variables[i].enabled THEN {i} ELSE {}
    BY <2>1 DEF Sent!Enabled
  <2>3. variables[i].enabled \in BOOLEAN
    <3>1. variables[i] \in Sent!Variable
      BY ElementOf DEF SentTypes
    <3> QED BY <3>1 DEF Sent!Variable
  <2>4. CASE variables[i].enabled
    BY <1>2, <2>1, <2>2, <2>4
       DEF Sent!Resolved, Sent!ReadByScript, Sent!BuilderValue, Sent!RunnerValue,
           Sent!CliValue, Sent!EnvironmentValue, Sent!Clients
  <2>5. CASE ~variables[i].enabled
    BY <1>2, <2>1, <2>2, <2>5
       DEF Sent!Resolved, Sent!ReadByScript, Sent!BuilderValue, Sent!RunnerValue,
           Sent!CliValue, Sent!EnvironmentValue, Sent!Clients
  <2> QED BY <2>3, <2>4, <2>5
<1> QED BY <1>3, <1>4

LEMMA SentStays ==
  [ServerStep \/ EditorStep \/ SentStep]_<<part, vars, editorVars, sentVars>>
    => [Sent!Next]_(Sent!state)
BY DEF ServerStep, EditorStep, SentStep, sentVars, Sent!state

\* The names of an environment mean the same in the builder, the web's runner and the
\* command line, and what a script set a variable to is what later requests get.
THEOREM VariablesKeepTheirMeaning == VariablesSpec => []VariablesHold
<1>1. VariablesInit => SentInv
  BY SentInit DEF VariablesInit
<1>2. SentInv => VariablesHold
  BY OneRowOneMeaning DEF SentInv, Agree, VariablesHold, Sent!SetsStay
<1> QED
  BY <1>1, <1>2, SentNext, SentStays, PTL DEF VariablesSpec

-----------------------------------------------------------------------------
(***************************************************************************)
(* The window.                                                             *)
(*                                                                         *)
(* What is at rest follows from what each thing under way still owes: a    *)
(* call that is done asks for the list again, so that only without one the *)
(* list, cached or on its way, is the server's (`Current`).  A deletion    *)
(* that is done and not reported yet gives up what was active when it was  *)
(* called; whatever became active since was chosen while it was under way, *)
(* and is doomed (`Alive`), and nothing is chosen that never existed       *)
(* (`Existed`).                                                            *)
(***************************************************************************)
Kinds == {"create", "rename", "delete", "save"}

OneCall == [kind : Kinds, env : Windowed, rows : Seq(Texts), step : {"sent", "done"},
            selected : Windowed \cup {None}, active : Windowed \cup {None},
            listed : SUBSET Windowed]

Lists == [Windowed -> Editor!Environment \cup {None, Gone}]

EditorTypes ==
  /\ server \in Lists /\ cache \in Lists
  /\ ids \in Nat
  /\ fetch.step \in {"no", "asked", "read"}
  /\ fetch.step = "read" => fetch.list \in Lists
  /\ \A c \in calls : c \in OneCall
  /\ selected \in Windowed \cup {None} /\ active \in Windowed \cup {None}
  /\ own \in Seq(Texts)
  /\ missed \in BOOLEAN

Same(list) == \A e \in Windowed : Editor!Kept(e, list) <=> Editor!Kept(e, server)

Current ==
  ~missed /\ (\A c \in calls : c.step # "done")
  => /\ fetch.step = "no" => /\ \A e \in Windowed \ touched : cache[e] = server[e]
                             /\ Same(cache)
     /\ fetch.step = "read" => fetch.list = server

InUse == Editor!Kept(active, cache) => used = active

Alive ==
  active # None /\ active \notin doomed
  => /\ server[active] = Gone =>
          \E c \in calls : c.kind = "delete" /\ c.env = active /\ c.step = "done"
     /\ \A c \in calls : c.kind = "delete" /\ c.env = active => c.active = active

Existed ==
  /\ active # None => server[active] # None
  /\ \A e \in Windowed :
       /\ Editor!Kept(e, cache) => server[e] # None
       /\ fetch.step = "read" /\ Editor!Kept(e, fetch.list) => server[e] # None
  /\ \A c \in calls :
       /\ c.kind = "create" /\ c.step = "done" => server[c.env] # None
       /\ \A e \in c.listed : server[e] # None

EditorInv == EditorTypes /\ Current /\ InUse /\ Alive /\ Existed

LEMMA EditorFacts ==
  /\ None \notin Windowed /\ None \notin Editor!Environment /\ Gone \notin Editor!Environment
  /\ None # Gone /\ Empty \in Texts
BY VariablesAssumption DEF Editor!EditorAssumption

\* Both lists hold environments where they keep one, and only there.
LEMMA KeptIsStored ==
  ASSUME NEW list \in Lists, NEW e \in Windowed
  PROVE  /\ Editor!Kept(e, list) <=> list[e] \in Editor!Environment
         /\ list[e] # None /\ list[e] # Gone <=> list[e] \in Editor!Environment
BY EditorFacts DEF Editor!Kept, Lists

LEMMA CreatedAreEmpty == <<>> \in Seq(Texts) /\ <<>> \in Seq(Editor!Row)
OBVIOUS

LEMMA Single ==
  ASSUME NEW S, NEW x \in S
  PROVE  <<x>> \in Seq(S)
OBVIOUS

LEMMA EditorInit == Editor!Init => EditorInv
<1> SUFFICES ASSUME Editor!Init PROVE EditorInv
  OBVIOUS
<1> USE DEF Editor!Init
<1>1. ASSUME NEW e \in Windowed
      PROVE  server[e] \in Editor!Environment \cup {None, Gone}
  <2>1. CASE server[e] = None
    BY <2>1
  <2>2. CASE server[e] # None
    <3>1. PICK q \in {<<>>} \cup {<<[id |-> 0, value |-> x]>> : x \in Texts} :
            server[e] = [name |-> 0, rows |-> q]
      BY <2>2
    <3>2. \A x \in Texts : [id |-> 0, value |-> x] \in Editor!Row
      BY DEF Editor!Row
    <3>3. \A x \in Texts : <<[id |-> 0, value |-> x]>> \in Seq(Editor!Row)
      BY <3>2, Single
    <3>4. q \in Seq(Editor!Row)
      BY <3>3, CreatedAreEmpty
    <3> QED BY <3>1, <3>4 DEF Editor!Environment
  <2> QED BY <2>1, <2>2
<1>2. server \in Lists
  <2>1. server = [e \in Windowed |-> server[e]]
    OBVIOUS
  <2> QED BY <1>1, <2>1 DEF Lists
<1>3. active \in Windowed \cup {None} /\ (active # None => Editor!Kept(active, cache))
  BY DEF Editor!Listed
<1>4. EditorTypes
  BY <1>2, <1>3, CreatedAreEmpty DEF EditorTypes, Editor!NoFetch
<1>5. Current /\ InUse
  BY <1>3 DEF Current, InUse, Same, Editor!NoFetch
<1>6. Alive /\ Existed
  BY <1>3 DEF Alive, Existed, Editor!Kept, Editor!NoFetch
<1> QED BY <1>4, <1>5, <1>6 DEF EditorInv

\* What only shows another part of the window.
LEMMA WindowKeeps ==
  ASSUME EditorInv, own' \in Seq(Texts), selected' \in Windowed \cup {None},
         UNCHANGED <<server, ids, cache, fetch, calls, active, used, touched, doomed, missed>>
  PROVE  EditorInv'
BY DEF EditorInv, EditorTypes, Current, Same, InUse, Alive, Existed

LEMMA Appended ==
  ASSUME NEW S, NEW q \in Seq(S), NEW x \in S
  PROVE  Append(q, x) \in Seq(S)
OBVIOUS

LEMMA Removed ==
  ASSUME NEW S, NEW q \in Seq(S), NEW i \in DOMAIN q
  PROVE  SubSeq(q, 1, i - 1) \o SubSeq(q, i + 1, Len(q)) \in Seq(S)
OBVIOUS

LEMMA WindowSteps ==
  ASSUME EditorInv,
         Editor!OpenManager \/ Editor!CloseManager \/ Editor!HandleDelete \/ Editor!HandleAddRow
  PROVE  EditorInv'
<1>1. own' \in Seq(Texts)
  <2>1. own \in Seq(Texts)
    BY DEF EditorInv, EditorTypes
  <2>2. CASE Editor!OpenManager \/ Editor!CloseManager
    BY <2>2, CreatedAreEmpty DEF Editor!OpenManager, Editor!CloseManager, Editor!Reset
  <2>3. CASE Editor!HandleAddRow
    BY <2>1, <2>3, Appended, EditorFacts DEF Editor!HandleAddRow
  <2>4. CASE Editor!HandleDelete
    <3>1. CASE UNCHANGED own
      BY <2>1, <3>1
    <3>2. CASE \E i \in DOMAIN own : own' = Editor!RemoveAt(own, i)
      BY <2>1, <3>2, Removed DEF Editor!RemoveAt
    <3> QED BY <2>4, <3>1, <3>2 DEF Editor!HandleDelete
  <2> QED BY <2>2, <2>3, <2>4
<1>2. selected' = selected
  BY DEF Editor!OpenManager, Editor!CloseManager, Editor!HandleDelete, Editor!HandleAddRow
<1>3. selected' \in Windowed \cup {None}
  BY <1>2 DEF EditorInv, EditorTypes
<1> QED
  BY <1>1, <1>3, WindowKeeps
     DEF Editor!OpenManager, Editor!CloseManager, Editor!HandleDelete, Editor!HandleAddRow,
         Editor!data

LEMMA EditorNumbers ==
  ASSUME NEW q \in Seq(Editor!Row), NEW i \in DOMAIN q, NEW x \in Texts
  PROVE  [q EXCEPT ![i].value = x] \in Seq(Editor!Row)
<1>1. q[i] \in Editor!Row
  BY ElementOf
<1>2. [q[i] EXCEPT !.value = x] \in Editor!Row
  BY <1>1 DEF Editor!Row
<1>3. [q EXCEPT ![i] = [q[i] EXCEPT !.value = x]] \in Seq(Editor!Row)
  BY <1>2
<1> QED BY <1>3

\* Rows changed in place are those of an environment that stays one.
LEMMA ChangeRowKeeps ==
  ASSUME EditorInv, Editor!ChangeRow
  PROVE  EditorInv'
<1> USE DEF EditorInv
<1>0. /\ selected \in Windowed /\ Editor!Kept(selected, cache) /\ own \in Seq(Texts)
      /\ UNCHANGED <<server, ids, fetch, calls, selected, active, used, doomed, missed>>
  BY DEF Editor!ChangeRow, Editor!Editing, Editor!Listed, EditorTypes, Editor!data
<1>1. CASE UNCHANGED <<cache, touched>> /\ \E i \in DOMAIN own, x \in Texts : own' = [own EXCEPT ![i] = x]
  <2>1. own' \in Seq(Texts)
    BY <1>0, <1>1
  <2> QED BY <1>0, <1>1, <2>1, WindowKeeps DEF EditorTypes
<1>2. ASSUME NEW i \in Editor!Remaining, NEW x \in Texts,
             cache' = [cache EXCEPT ![selected].rows[i].value = x],
             touched' = touched \cup {selected}, UNCHANGED own
      PROVE  EditorInv'
  <2>1. cache[selected] \in Editor!Environment
    BY <1>0, KeptIsStored DEF EditorTypes
  <2>2. i \in DOMAIN cache[selected].rows /\ cache[selected].rows \in Seq(Editor!Row)
    BY <1>0, <1>2, <2>1 DEF Editor!Remaining, Editor!Listed, Editor!Environment
  <2>3. [cache[selected].rows EXCEPT ![i].value = x] \in Seq(Editor!Row)
    BY <1>2, <2>2, EditorNumbers
  <2>4. [cache[selected] EXCEPT !.rows = [cache[selected].rows EXCEPT ![i].value = x]]
          \in Editor!Environment
    BY <2>1, <2>3 DEF Editor!Environment
  <2>5. /\ cache'[selected] \in Editor!Environment
        /\ \A e \in Windowed \ {selected} : cache'[e] = cache[e]
    BY <1>0, <1>2, <2>4 DEF EditorTypes, Lists
  <2>6. cache' \in Lists
    <3>1. cache' = [e \in Windowed |-> cache'[e]]
      BY <1>2 DEF EditorTypes, Lists
    <3>2. \A e \in Windowed : cache'[e] \in Editor!Environment \cup {None, Gone}
      BY <2>5 DEF EditorTypes, Lists
    <3> QED BY <3>1, <3>2 DEF Lists
  <2>7. \A e : e \in Windowed => (Editor!Kept(e, cache') <=> Editor!Kept(e, cache))
    BY <2>1, <2>5, EditorFacts DEF Editor!Kept
  <2>8. EditorTypes'
    BY <1>0, <1>2, <2>6 DEF EditorTypes
  <2>9. Current'
    BY <1>0, <1>2, <2>5, <2>7 DEF Current, Same
  <2>10. InUse'
    BY <1>0, <2>7 DEF InUse, Editor!Kept, EditorTypes
  <2>11. Alive' /\ Existed'
    BY <1>0, <2>7 DEF Alive, Existed
  <2> QED BY <2>8, <2>9, <2>10, <2>11
<1> QED BY <1>1, <1>2 DEF Editor!ChangeRow

\* Each place of a finite set of numbers is taken: counting those up to a number is
\* one to one, and hence reaches as many counts as there are numbers.
LEMMA NthExists ==
  ASSUME NEW S \in SUBSET Nat, IsFiniteSet(S), NEW n \in 1 .. Cardinality(S)
  PROVE  \E i \in S : Cardinality({j \in S : j <= i}) = n
<1> DEFINE upto(i) == {j \in S : j <= i}
           m == Cardinality(S)
           f == [i \in S |-> Cardinality(upto(i))]
<1>1. m \in Nat
  BY FS_CardinalityType
<1>2. ASSUME NEW i \in S
      PROVE  /\ IsFiniteSet(upto(i)) /\ Cardinality(upto(i)) \in Nat
             /\ Cardinality(upto(i)) \in 1 .. m
  <2>1. upto(i) \in SUBSET S /\ upto(i) # {}
    OBVIOUS
  <2>2. IsFiniteSet(upto(i)) /\ Cardinality(upto(i)) <= m
    BY <2>1, FS_Subset
  <2>3. Cardinality(upto(i)) \in Nat
    BY <2>2, FS_CardinalityType
  <2>4. Cardinality(upto(i)) # 0
    BY <2>1, <2>2, FS_EmptySet
  <2> QED BY <1>1, <2>2, <2>3, <2>4
<1>3. ASSUME NEW i \in S, NEW j \in S, i < j
      PROVE  Cardinality(upto(i)) # Cardinality(upto(j))
  <2>1. \A k \in S : k <= i => k <= j
    BY <1>3
  <2>2. upto(i) \in SUBSET upto(j)
    BY <2>1
  <2>3. j \in upto(j) /\ j \notin upto(i)
    BY <1>3
  <2> QED BY <1>2, <2>2, <2>3, FS_Subset
<1>4. f \in Injection(S, 1 .. m)
  <2>1. f \in [S -> 1 .. m]
    BY <1>2
  <2>2. \A i, j \in S : f[i] = f[j] => i = j
    <3> SUFFICES ASSUME NEW i \in S, NEW j \in S, i # j PROVE f[i] # f[j]
      OBVIOUS
    <3>1. i < j \/ j < i
      OBVIOUS
    <3> QED BY <1>3, <3>1
  <2> QED BY <2>1, <2>2 DEF Injection, IsInjective
<1>5. IsFiniteSet(1 .. m) /\ Cardinality(1 .. m) = m
  BY <1>1, FS_Interval
<1>6. f \in Surjection(S, 1 .. m)
  BY <1>4, <1>5, FS_Injection
<1>7. PICK i \in S : f[i] = n
  BY <1>6 DEF Surjection
<1> QED BY <1>7

\* The library that the window's module takes in is the one above.
LEMMA SameCount == ASSUME NEW S PROVE Editor!Cardinality(S) = Cardinality(S)
BY DEF Cardinality, Editor!Cardinality

LEMMA NthIsIn ==
  ASSUME NEW S \in SUBSET Nat, IsFiniteSet(S), NEW n \in 1 .. Cardinality(S)
  PROVE  /\ Editor!Nth(S, n) \in S
         /\ Cardinality({j \in S : j <= Editor!Nth(S, n)}) = n
<1> DEFINE P(i) == Cardinality({j \in S : j <= i}) = n
<1>1. \E i \in S : P(i)
  BY NthExists
<1>2. Editor!Nth(S, n) = CHOOSE i \in S : P(i)
  BY SameCount, Zenon DEF Editor!Nth
<1> HIDE DEF P
<1>3. Editor!Nth(S, n) \in S /\ P(Editor!Nth(S, n))
  BY <1>1, <1>2
<1> QED BY <1>3 DEF P

\* In an interval from 1 every number is in its own place.
LEMMA NthInterval ==
  ASSUME NEW m \in Nat, NEW n \in 1 .. m
  PROVE  Editor!Nth(1 .. m, n) = n
<1>1. ASSUME NEW i \in 1 .. m
      PROVE  Cardinality({j \in 1 .. m : j <= i}) = i
  <2>1. {j \in 1 .. m : j <= i} = 1 .. i
    OBVIOUS
  <2>2. Cardinality(1 .. i) = i
    BY FS_Interval
  <2> QED BY <2>1, <2>2
<1>2. IsFiniteSet(1 .. m) /\ Cardinality(1 .. m) = m
  BY FS_Interval
<1>3. /\ Editor!Nth(1 .. m, n) \in 1 .. m
      /\ Cardinality({j \in 1 .. m : j <= Editor!Nth(1 .. m, n)}) = n
  <2>1. 1 .. m \in SUBSET Nat /\ n \in 1 .. Cardinality(1 .. m)
    BY <1>2
  <2> QED BY <1>2, <2>1, NthIsIn, Zenon
<1> QED BY <1>1, <1>3

\* Whatever becomes active exists, or is remembered.
LEMMA ChosenIsAlive ==
  ASSUME EditorInv, NEW e \in Windowed \cup {None}, Editor!Activate(e),
         UNCHANGED <<server, cache>>, calls' \subseteq calls,
         e # None => server[e] # None,
         e = active => \A c \in calls \ calls' : c.kind # "delete" \/ c.env # e
  PROVE  InUse' /\ Alive' /\ (active' # None => server'[active'] # None)
         /\ active' \in Windowed \cup {None}
<1> USE DEF EditorInv, Editor!Activate
<1>1. InUse'
  BY DEF InUse, Editor!Sync, Editor!Kept
<1>2. Alive'
  <2> SUFFICES ASSUME e # None, e \notin doomed'
               PROVE  /\ server[e] = Gone =>
                           \E c \in calls' : c.kind = "delete" /\ c.env = e /\ c.step = "done"
                      /\ \A c \in calls' : c.kind = "delete" /\ c.env = e => c.active = e
    BY DEF Alive
  <2>1. CASE e = active
    BY <2>1 DEF Alive
  <2>2. CASE e # active
    BY <2>2, EditorFacts DEF Editor!BeingDeleted
  <2> QED BY <2>1, <2>2
<1> QED BY <1>1, <1>2

LEMMA ChoiceKeeps ==
  ASSUME EditorInv, NEW e \in Windowed \cup {None}, Editor!Select(e) \/ Editor!Choose(e)
  PROVE  EditorInv'
<1>1. /\ Editor!Activate(e) /\ e \in Editor!Listed \cup {None}
      /\ UNCHANGED <<server, ids, cache, fetch, calls, touched, missed>>
  BY DEF Editor!Select, Editor!Choose, Editor!data
<1>2. e # None => server[e] # None
  BY <1>1 DEF EditorInv, Existed, Editor!Listed
<1>3. InUse' /\ Alive' /\ (active' # None => server'[active'] # None)
      /\ active' \in Windowed \cup {None}
  BY <1>1, <1>2, ChosenIsAlive
<1>4. selected' \in Windowed \cup {None} /\ own' \in Seq(Texts)
  BY CreatedAreEmpty
     DEF Editor!Select, Editor!Choose, Editor!Show, Editor!Reset, Editor!window, EditorInv,
         EditorTypes
<1>5. EditorTypes'
  BY <1>1, <1>3, <1>4 DEF EditorInv, EditorTypes
<1>6. Current' /\ Existed'
  BY <1>1, <1>3 DEF EditorInv, Current, Same, Existed
<1> QED BY <1>3, <1>5, <1>6 DEF EditorInv

\* The rows in the editor are texts.
LEMMA ShownType ==
  ASSUME EditorInv, Editor!Editing
  PROVE  Editor!Shown \in Seq(Texts)
<1> DEFINE S == Editor!Remaining
           q == cache[selected].rows
           kept == [n \in 1 .. Cardinality(S) |-> q[Editor!Nth(S, n)].value]
<1>1. q \in Seq(Editor!Row) /\ S \subseteq DOMAIN q /\ own \in Seq(Texts)
  <2>1. selected \in Windowed /\ Editor!Kept(selected, cache)
    BY DEF Editor!Editing, Editor!Listed
  <2>2. cache[selected] \in Editor!Environment
    BY <2>1, KeptIsStored DEF EditorInv, EditorTypes
  <2> QED BY <2>2 DEF Editor!Environment, Editor!Remaining, EditorInv, EditorTypes
<1>2. IsFiniteSet(S) /\ S \in SUBSET Nat
  <2>1. DOMAIN q = 1 .. Len(q) /\ Len(q) \in Nat
    BY <1>1
  <2>2. IsFiniteSet(1 .. Len(q))
    BY <2>1, FS_Interval
  <2> HIDE DEF q
  <2> QED BY <1>1, <2>1, <2>2, FS_Subset
<1>3. Cardinality(S) \in Nat
  BY <1>2, FS_CardinalityType
<1>4. ASSUME NEW n \in 1 .. Cardinality(S)
      PROVE  Editor!Nth(S, n) \in S
  BY <1>2, NthIsIn
<1>5. \A n \in 1 .. Cardinality(S) : kept[n] \in Texts
  <2> SUFFICES ASSUME NEW n \in 1 .. Cardinality(S) PROVE kept[n] \in Texts
    OBVIOUS
  <2>1. q[Editor!Nth(S, n)] \in Editor!Row
    BY <1>1, <1>4, ElementOf
  <2> QED BY <2>1 DEF Editor!Row
<1>6. kept \in Seq(Texts)
  <2> HIDE DEF S, q
  <2> QED BY <1>3, <1>5, TypedSeq
<1>7. Editor!Shown = kept \o own
  BY SameCount, Zenon DEF Editor!Shown
<1> HIDE DEF kept
<1> QED BY <1>1, <1>6, <1>7

LEMMA StartKeeps ==
  ASSUME EditorInv, NEW kind \in Kinds, NEW e \in Windowed, NEW q \in Seq(Texts),
         Editor!Start(kind, e, q)
  PROVE  EditorInv'
<1> USE DEF EditorInv
<1> DEFINE new == [kind |-> kind, env |-> e, rows |-> q, step |-> "sent",
                   selected |-> selected, active |-> active, listed |-> Editor!Listed]
<1>1. /\ calls' = calls \cup {new}
      /\ UNCHANGED <<server, ids, cache, fetch, selected, own, active, used, touched, doomed,
                     missed>>
  BY DEF Editor!Start, Editor!data, Editor!window
<1>2. new \in OneCall /\ \A d \in Editor!Listed : server[d] # None
  BY DEF OneCall, EditorTypes, Editor!Listed, Existed
<1>3. /\ new.step = "sent" /\ new.active = active /\ new.kind = kind
      /\ \A d \in new.listed : server[d] # None
  BY <1>2
<1> HIDE DEF new
<1>4. EditorTypes'
  BY <1>1, <1>2 DEF EditorTypes
<1>5. Current'
  BY <1>1, <1>3 DEF Current, Same
<1>6. InUse' /\ Alive'
  BY <1>1, <1>3 DEF InUse, Alive
<1>7. Existed'
  BY <1>1, <1>3 DEF Existed
<1> QED BY <1>4, <1>5, <1>6, <1>7

LEMMA StartsKeep ==
  ASSUME EditorInv,
         \/ Editor!SaveVariables
         \/ \E e \in Windowed : \/ Editor!CreateEnvironment(e) \/ Editor!RenameEnvironment(e)
                                \/ Editor!DeleteEnvironment(e)
  PROVE  EditorInv'
<1>1. CASE Editor!SaveVariables
  <2>1. selected \in Windowed
    BY <1>1 DEF Editor!SaveVariables, Editor!Editing, Editor!Listed
  <2> QED BY <1>1, <2>1, ShownType, StartKeeps DEF Editor!SaveVariables, Kinds
<1>2. CASE \E e \in Windowed : \/ Editor!CreateEnvironment(e) \/ Editor!RenameEnvironment(e)
                               \/ Editor!DeleteEnvironment(e)
  BY <1>2, CreatedAreEmpty, StartKeeps
     DEF Editor!CreateEnvironment, Editor!RenameEnvironment, Editor!DeleteEnvironment, Kinds
<1> QED BY <1>1, <1>2

\* What the server makes of a call: an environment again, or one that is gone.
LEMMA ApplyType ==
  ASSUME EditorInv, NEW c \in calls, Editor!Applies(c), ids' = ids + 1, Editor!Apply(c)
  PROVE  /\ server' \in Lists
         /\ \A e \in Windowed \ {c.env} : server'[e] = server[e]
         /\ c.kind = "delete" => server'[c.env] = Gone
         /\ c.kind # "delete" => server'[c.env] \in Editor!Environment
<1>1. /\ c \in OneCall /\ server \in Lists /\ ids' \in Nat
      /\ c.kind \in Kinds /\ c.env \in Windowed /\ c.rows \in Seq(Texts)
  BY DEF EditorInv, EditorTypes, OneCall
<1>2. CASE c.kind = "create"
  <2>1. [name |-> 0, rows |-> <<>>] \in Editor!Environment
    BY CreatedAreEmpty DEF Editor!Environment
  <2>2. server' = [server EXCEPT ![c.env] = [name |-> 0, rows |-> <<>>]]
    BY <1>2 DEF Editor!Apply
  <2> QED BY <1>1, <1>2, <2>1, <2>2 DEF Lists
<1>3. CASE c.kind = "delete"
  <2>1. server' = [server EXCEPT ![c.env] = Gone]
    BY <1>3 DEF Editor!Apply
  <2> QED BY <1>1, <1>3, <2>1 DEF Lists
<1>4. CASE c.kind \in {"rename", "save"}
  <2>0. server[c.env] \in Editor!Environment
    BY <1>1, <1>4, KeptIsStored DEF Editor!Applies
  <2>1. PICK x \in Editor!Environment : server' = [server EXCEPT ![c.env] = x]
    <3>1. CASE c.kind = "rename"
      <4>1. [server[c.env] EXCEPT !.name = ids'] \in Editor!Environment
        BY <1>1, <2>0 DEF Editor!Environment
      <4>2. server' = [server EXCEPT ![c.env] = [server[c.env] EXCEPT !.name = ids']]
        BY <3>1 DEF Editor!Apply
      <4> QED BY <4>1, <4>2
    <3>2. CASE c.kind = "save"
      <4> DEFINE numbered == [i \in DOMAIN c.rows |-> [id |-> ids', value |-> c.rows[i]]]
      <4>1. numbered \in Seq(Editor!Row)
        <5>1. DOMAIN c.rows = 1 .. Len(c.rows) /\ Len(c.rows) \in Nat
          BY <1>1
        <5>2. \A i \in DOMAIN c.rows : c.rows[i] \in Texts
          BY <1>1, ElementOf
        <5>3. \A i \in DOMAIN c.rows : [id |-> ids', value |-> c.rows[i]] \in Editor!Row
          BY <1>1, <5>2 DEF Editor!Row
        <5>4. numbered \in [1 .. Len(c.rows) -> Editor!Row]
          BY <5>1, <5>3
        <5> HIDE DEF numbered
        <5> QED BY <5>1, <5>4, TypedSeq
      <4>2. server' = [server EXCEPT ![c.env] = [server[c.env] EXCEPT !.rows = numbered]]
        BY <3>2 DEF Editor!Apply
      <4> HIDE DEF numbered
      <4>3. [server[c.env] EXCEPT !.rows = numbered] \in Editor!Environment
        BY <2>0, <4>1 DEF Editor!Environment
      <4> QED BY <4>2, <4>3
    <3> QED BY <1>4, <3>1, <3>2
  <2> QED BY <1>1, <1>4, <2>1 DEF Lists
<1> QED BY <1>1, <1>2, <1>3, <1>4 DEF Kinds

LEMMA ServedKeeps ==
  ASSUME EditorInv, NEW c \in calls, Editor!Served(c)
  PROVE  EditorInv'
<1> USE DEF EditorInv
<1>1. /\ c \in OneCall /\ c.step = "sent"
      /\ UNCHANGED <<cache, fetch, selected, own, active, used, touched>>
  BY DEF Editor!Served, Editor!window, EditorTypes
<1>2. CASE calls' = calls \ {c} /\ UNCHANGED <<server, ids, missed, doomed>>
  <2>1. EditorTypes'
    BY <1>1, <1>2 DEF EditorTypes
  <2>2. Current'
    BY <1>1, <1>2 DEF Current, Same
  <2>3. InUse' /\ Alive' /\ Existed'
    BY <1>1, <1>2 DEF InUse, Alive, Existed
  <2> QED BY <2>1, <2>2, <2>3
<1>3. CASE Editor!Applies(c) /\ ids' = ids + 1 /\ Editor!Apply(c)
           /\ \/ /\ calls' = (calls \ {c}) \cup {[c EXCEPT !.step = "done"]}
                 /\ UNCHANGED <<missed, doomed>>
              \/ /\ calls' = calls \ {c} /\ missed' = TRUE
                 /\ doomed' = IF c.kind = "delete" THEN doomed \cup {c.env} ELSE doomed
  <2> DEFINE d == [c EXCEPT !.step = "done"]
  <2>1. /\ d \in OneCall /\ d.kind = c.kind /\ d.env = c.env /\ d.step = "done"
        /\ d.active = c.active /\ d.listed = c.listed
    BY <1>1 DEF OneCall
  <2> HIDE DEF d
  <2>2. /\ server' \in Lists /\ ids' \in Nat
        /\ \A e \in Windowed \ {c.env} : server'[e] = server[e]
        /\ c.kind = "delete" => server'[c.env] = Gone
        /\ c.kind # "delete" => server'[c.env] \in Editor!Environment
    BY <1>3, ApplyType DEF EditorTypes
  <2>3. \A e \in Windowed : server[e] # None => server'[e] # None
    BY <2>2, EditorFacts
  <2>4. server'[c.env] # None /\ c.env \in Windowed /\ c.listed \subseteq Windowed
    BY <1>1, <2>2, EditorFacts DEF OneCall
  <2>5. EditorTypes'
    BY <1>1, <1>3, <2>1, <2>2 DEF EditorTypes, d
  <2>6. Current' /\ InUse'
    BY <1>1, <1>3, <2>1 DEF Current, InUse, d
  <2>7. Existed'
    BY <1>1, <1>3, <2>1, <2>3, <2>4 DEF Existed, d, EditorTypes, OneCall
  <2>8. Alive'
    <3> SUFFICES ASSUME active # None, active \notin doomed'
                 PROVE  /\ server'[active] = Gone =>
                             \E x \in calls' : x.kind = "delete" /\ x.env = active /\ x.step = "done"
                        /\ \A x \in calls' : x.kind = "delete" /\ x.env = active => x.active = active
      BY <1>1 DEF Alive
    <3>1. active \notin doomed /\ active \in Windowed
      BY <1>3 DEF EditorTypes
    <3>2. \A x \in calls' : x.kind = "delete" /\ x.env = active => x.active = active
      BY <1>3, <2>1, <3>1 DEF Alive, d
    <3>3. ASSUME server'[active] = Gone
          PROVE  \E x \in calls' : x.kind = "delete" /\ x.env = active /\ x.step = "done"
      <4>1. CASE active = c.env
        <5>1. c.kind = "delete"
          BY <2>2, <3>3, <4>1, EditorFacts
        <5> QED BY <1>3, <2>1, <4>1, <5>1 DEF d
      <4>2. CASE active # c.env
        <5>1. server[active] = Gone
          BY <2>2, <3>1, <3>3, <4>2
        <5>2. PICK x \in calls : x.kind = "delete" /\ x.env = active /\ x.step = "done"
          BY <3>1, <5>1 DEF Alive
        <5>3. x \in calls'
          BY <1>1, <1>3, <5>2
        <5> QED BY <5>2, <5>3
      <4> QED BY <4>1, <4>2
    <3> QED BY <3>2, <3>3
  <2> QED BY <2>5, <2>6, <2>7, <2>8
<1> QED BY <1>2, <1>3 DEF Editor!Served, Editor!data

\* After a deletion what was active when it was called is given up, and what is
\* chosen instead was listed then.
LEMMA SucceededKeeps ==
  ASSUME EditorInv, NEW c \in calls, Editor!Succeeded(c)
  PROVE  EditorInv'
<1> USE DEF EditorInv
<1>1. /\ c \in OneCall /\ c.step = "done" /\ calls' = calls \ {c}
      /\ fetch' = [step |-> "asked", list |-> None]
      /\ UNCHANGED <<server, ids, cache, touched, missed>>
  BY DEF Editor!Succeeded, Editor!Invalidated, Editor!NoFetch, Editor!data, EditorTypes
<1>2. c.env \in Windowed /\ c.active \in Windowed \cup {None} /\ c.listed \in SUBSET Windowed
  BY <1>1 DEF OneCall
<1>3. /\ InUse' /\ Alive' /\ (active' # None => server'[active'] # None)
      /\ active' \in Windowed \cup {None}
      /\ selected' \in Windowed \cup {None} /\ own' \in Seq(Texts)
  <2>1. CASE c.kind = "create"
    <3>1. Editor!Show(c.env) /\ Editor!Activate(c.env)
      BY <2>1 DEF Editor!Succeeded
    <3>2. server[c.env] # None
      BY <1>1, <2>1 DEF Existed
    <3>3. selected' \in Windowed \cup {None} /\ own' \in Seq(Texts)
      BY <1>2, <3>1, CreatedAreEmpty DEF Editor!Show, Editor!Reset, EditorTypes
    <3>4. \A x \in calls \ calls' : x.kind # "delete" \/ x.env # c.env
      BY <1>1, <2>1
    <3> QED BY <1>1, <1>2, <3>1, <3>2, <3>3, <3>4, ChosenIsAlive
  <2>2. CASE c.kind = "delete"
    <3>1. PICK next \in Editor!Others(c) :
            /\ IF c.selected = c.env THEN Editor!Show(next)
               ELSE UNCHANGED <<selected, own, dropped>>
            /\ Editor!Activate(Editor!AfterDeletion(c, next))
      BY <2>2 DEF Editor!Succeeded
    <3>2. /\ next = None \/ (next \in Windowed /\ next # c.env /\ server[next] # None)
          /\ next \in Windowed \cup {None}
      BY <1>1, <1>2 DEF Editor!Others, Existed
    <3>3. selected' \in Windowed \cup {None} /\ own' \in Seq(Texts)
      BY <3>1, <3>2, CreatedAreEmpty DEF Editor!Show, Editor!Reset, EditorTypes
    <3> DEFINE e == Editor!AfterDeletion(c, next)
    <3>4. e \in {next, None, active} /\ (c.active = c.env => e = next \/ e = None)
      BY DEF Editor!AfterDeletion
    <3> HIDE DEF e
    <3>5. e \in Windowed \cup {None} /\ (e # None => server[e] # None)
      BY <3>2, <3>4 DEF EditorTypes, Existed
    <3>6. Editor!Activate(e)
      BY <3>1 DEF e
    <3>7. CASE active = c.env /\ active \notin doomed
      <4>1. c.active = c.env
        BY <2>2, <1>2, <3>7, EditorFacts DEF Alive
      <4>2. e # active
        BY <1>2, <3>2, <3>4, <3>7, <4>1, EditorFacts
      <4> QED BY <1>1, <3>3, <3>5, <3>6, <4>2, ChosenIsAlive
    <3>8. CASE active # c.env
      <4>1. e = active => \A x \in calls \ calls' : x.kind # "delete" \/ x.env # e
        BY <1>1, <3>8
      <4> QED BY <1>1, <3>3, <3>5, <3>6, <4>1, ChosenIsAlive
    <3>9. CASE active \in doomed
      <4>1. CASE e # active
        BY <1>1, <3>3, <3>5, <3>6, <4>1, ChosenIsAlive
      <4>2. CASE e = active
        <5>1. active' = active /\ active \in doomed' /\ InUse'
          BY <1>1, <3>6, <3>9, <4>2 DEF Editor!Activate, Editor!Sync, Editor!Kept, InUse
        <5> QED BY <1>1, <3>3, <3>5, <4>2, <5>1 DEF Alive
      <4> QED BY <4>1, <4>2
    <3> QED BY <3>7, <3>8, <3>9
  <2>3. CASE c.kind \in {"rename", "save"}
    <3>1. UNCHANGED <<selected, own, active, used, doomed>>
      BY <2>3 DEF Editor!Succeeded
    <3>2. InUse' /\ Alive'
      BY <1>1, <2>3, <3>1 DEF InUse, Alive
    <3> QED BY <1>1, <3>1, <3>2 DEF EditorTypes, Existed
  <2> QED BY <1>1, <2>1, <2>2, <2>3 DEF OneCall, Kinds
<1>4. EditorTypes'
  BY <1>1, <1>3 DEF EditorTypes
<1>5. Current'
  BY <1>1 DEF Current
<1>6. Existed'
  BY <1>1, <1>3 DEF Existed
<1> QED BY <1>3, <1>4, <1>5, <1>6

LEMMA FetchKeeps ==
  ASSUME EditorInv, Editor!FetchReads \/ Editor!FetchArrives \/ Editor!FetchFails
  PROVE  EditorInv'
<1> USE DEF EditorInv
<1>1. CASE Editor!FetchReads
  <2>1. /\ fetch'.step = "read" /\ fetch'.list = server
        /\ UNCHANGED <<server, ids, cache, calls, selected, own, active, used, touched, doomed,
                       missed>>
    BY <1>1 DEF Editor!FetchReads, Editor!data, Editor!window
  <2>2. EditorTypes' /\ Current'
    BY <2>1 DEF EditorTypes, Current
  <2>3. InUse' /\ Alive'
    BY <2>1 DEF InUse, Alive
  <2>4. Existed'
    BY <2>1 DEF Existed, Editor!Kept
  <2> QED BY <2>2, <2>3, <2>4
<1>2. CASE Editor!FetchFails
  <2>1. /\ fetch'.step = "no" /\ missed' = TRUE
        /\ UNCHANGED <<server, ids, cache, calls, selected, own, active, used, touched, doomed>>
    BY <1>2 DEF Editor!FetchFails, Editor!NoFetch, Editor!data, Editor!window
  <2> QED BY <2>1 DEF EditorTypes, Current, InUse, Alive, Existed
<1>3. CASE Editor!FetchArrives
  <2>1. /\ fetch.step = "read" /\ cache' = fetch.list /\ fetch'.step = "no"
        /\ touched' = {} /\ missed' = (missed /\ fetch.list # server)
        /\ Editor!Sync(active, fetch.list)
        /\ UNCHANGED <<server, ids, calls, selected, active, doomed>>
    BY <1>3 DEF Editor!FetchArrives, Editor!NoFetch, Editor!data
  <2>2. own' \in Seq(Texts)
    BY <1>3, CreatedAreEmpty DEF Editor!FetchArrives, Editor!Reset, EditorTypes
  <2>3. EditorTypes'
    BY <2>1, <2>2 DEF EditorTypes
  <2>4. Current'
    <3> SUFFICES ASSUME ~missed', \A x \in calls : x.step # "done"
                 PROVE  cache' = server
      BY <2>1 DEF Current, Same, Editor!Kept
    <3> QED BY <2>1 DEF Current, EditorTypes
  <2>5. InUse' /\ Alive'
    BY <2>1 DEF InUse, Alive, Editor!Sync, Editor!Kept
  <2>6. Existed'
    BY <2>1 DEF Existed
  <2> QED BY <2>3, <2>4, <2>5, <2>6
<1> QED BY <1>1, <1>2, <1>3

LEMMA EditorNext == EditorInv /\ [Editor!Next]_(Editor!editorVars) => EditorInv'
<1> SUFFICES ASSUME EditorInv, [Editor!Next]_(Editor!editorVars) PROVE EditorInv'
  OBVIOUS
<1>1. CASE UNCHANGED Editor!editorVars
  <2>1. own' \in Seq(Texts) /\ selected' \in Windowed \cup {None}
    BY <1>1 DEF Editor!editorVars, EditorInv, EditorTypes
  <2> QED BY <1>1, <2>1, WindowKeeps DEF Editor!editorVars
<1>2. CASE Editor!Next
  BY <1>2, WindowSteps, ChangeRowKeeps, ChoiceKeeps, StartsKeep, ServedKeeps, SucceededKeeps,
     FetchKeeps
     DEF Editor!Next
<1> QED BY <1>1, <1>2

\* At rest the editor shows the rows of the list in their order.
LEMMA RowsShown ==
  ASSUME EditorInv, Editor!Editing, own = <<>>, dropped = {},
         cache[selected] = server[selected]
  PROVE  Editor!Shown = [i \in DOMAIN server[selected].rows |-> server[selected].rows[i].value]
<1> DEFINE q == server[selected].rows
           m == Len(q)
<1>1. selected \in Editor!Listed
  BY DEF Editor!Editing
<1>2. q \in Seq(Editor!Row)
  <2>1. cache[selected] \in Editor!Environment
    BY <1>1, KeptIsStored DEF Editor!Listed, EditorInv, EditorTypes
  <2> QED BY <2>1 DEF Editor!Environment
<1> HIDE DEF q
<1>3. DOMAIN q = 1 .. m /\ m \in Nat
  BY <1>2
<1> HIDE DEF m
<1>4. Editor!Remaining = 1 .. m
  BY <1>1, <1>3 DEF Editor!Remaining, q
<1>5. Cardinality(1 .. m) = m
  BY <1>3, FS_Interval
<1> DEFINE kept == [n \in 1 .. m |-> q[Editor!Nth(1 .. m, n)].value]
<1>6. kept = [i \in 1 .. m |-> q[i].value]
  BY <1>3, NthInterval
<1>7. Editor!Shown = kept \o <<>>
  <2>1. Editor!Shown = [n \in 1 .. Cardinality(1 .. m) |-> q[Editor!Nth(1 .. m, n)].value] \o <<>>
    BY <1>4, SameCount, Zenon DEF Editor!Shown, q
  <2> QED BY <1>5, <2>1, Zenon
<1>8. kept \in Seq({kept[n] : n \in 1 .. m})
  <2>1. kept \in [1 .. m -> {kept[n] : n \in 1 .. m}]
    BY <1>6
  <2> HIDE DEF kept
  <2> QED BY <1>3, <2>1, TypedSeq
<1>9. kept \o <<>> = kept
  <2> HIDE DEF kept
  <2> QED BY <1>8
<1> QED BY <1>3, <1>6, <1>7, <1>9, Zenon DEF q

LEMMA EditorAtRest == EditorInv => EditorHolds
<1> SUFFICES ASSUME EditorInv PROVE EditorHolds
  OBVIOUS
<1>1. Editor!EditorCatchesUp
  <2> SUFFICES ASSUME Editor!AtRest, ~missed
               PROVE  /\ \A e \in Windowed \ touched : cache[e] = server[e]
                      /\ Editor!Editing /\ selected \notin touched /\ own = <<>> /\ dropped = {}
                         => Editor!Shown = [i \in DOMAIN server[selected].rows
                                              |-> server[selected].rows[i].value]
                      /\ active # None /\ Editor!Kept(active, server) => used = active
    BY Zenon DEF Editor!EditorCatchesUp
  <2>1. (\A e \in Windowed \ touched : cache[e] = server[e]) /\ Same(cache)
    BY DEF EditorInv, Current, Editor!AtRest, Editor!NoFetch
  <2>2. active # None /\ Editor!Kept(active, server) => used = active
    BY <2>1 DEF EditorInv, EditorTypes, InUse, Same
  <2>3. Editor!Editing => selected \in Windowed
    BY DEF Editor!Editing, Editor!Listed
  <2> QED BY <2>1, <2>2, <2>3, RowsShown
<1>2. Editor!ActiveExists
  BY DEF EditorInv, EditorTypes, Alive, Existed, Editor!ActiveExists, Editor!AtRest, Editor!Kept
<1> QED BY <1>1, <1>2 DEF EditorHolds

LEMMA EditorStays ==
  [ServerStep \/ EditorStep \/ SentStep]_<<part, vars, editorVars, sentVars>>
    => [Editor!Next]_(Editor!editorVars)
BY DEF ServerStep, EditorStep, SentStep, RowsStep, ChoiceStep, editorVars, Editor!editorVars

\* At rest the window of environments, its editor and the builder have what the
\* server has, and the active environment exists.
THEOREM EditorKeepsUp == VariablesSpec => []EditorHolds
<1>1. VariablesInit => EditorInv
  BY EditorInit DEF VariablesInit
<1> QED
  BY <1>1, EditorAtRest, EditorNext, EditorStays, PTL DEF VariablesSpec

=============================================================================
