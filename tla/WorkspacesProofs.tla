-------------------------- MODULE WorkspacesProofs --------------------------
(***************************************************************************)
(* Proofs about Workspaces, for any number of users, workspaces, requests  *)
(* in flight and invites, any clock bound and any set of routes.           *)
(***************************************************************************)
EXTENDS Workspaces, TLAPS

-----------------------------------------------------------------------------
(***************************************************************************)
(* Type correctness.  TypeOK is not inductive: a status is written through *)
(* an invite id read in an earlier step, so the invariant also says that   *)
(* a handler's locals are set by the time a later statement uses them.     *)
(***************************************************************************)

Inviting == {"checkInvitee", "findPending", "expireOld", "createInvite",
             "refreshInvite"}
Accepting == {"findMember", "addMember", "markAccepted"}
Managing == {"removeRead", "removeWrite", "updateRead", "updateWrite"}

\* The locals c of a handler at the statement it waits to run, when n invites
\* exist.
LocalsSet(c, n) ==
  /\ c.at \in Inviting \cup Accepting \cup Managing
              \cup {"addOwner", "listRead", "revokeRead"} => c.space \in Spaces
  /\ c.at \in Inviting \cup Managing => c.user \in Users
  /\ c.at \in Accepting \cup {"addOwner"} => c.by \in Users
  /\ c.at \in Inviting \cup Accepting \cup {"updateRead", "updateWrite"} =>
       c.role \in Role
  /\ c.at = "revokeRead" => c.inv \in InviteIds
  /\ c.at \in Accepting \cup {"expireOld", "refreshInvite", "revokeWrite"} =>
       c.inv \in 1..n
  /\ c.todo \subseteq 1..n

InvitesOK ==
  /\ invites \in [InviteIds -> Invite \cup {NoInvite}]
  /\ \A i \in InviteIds : invites[i] \in Invite <=> i \in 1..issued

TypeInv == TypeOK /\ \A r \in Requests : LocalsSet(call[r], issued)

LEMMA TypeInit == Init => TypeInv
<1> SUFFICES ASSUME Init PROVE TypeInv
  OBVIOUS
<1> USE BoundsAssumption DEF Init, Idle, NoInvite
<1>1. TypeOK
  BY DEF TypeOK, Call, Label, Invite, Status, InviteIds
<1>2. \A r \in Requests : LocalsSet(call[r], issued)
  BY DEF LocalsSet, Inviting, Accepting, Managing
<1> QED
  BY <1>1, <1>2 DEF TypeInv

\* A step that moves one handler on and keeps every table well typed.
LEMMA WriteStep ==
  ASSUME TypeInv, NEW r \in Requests, NEW c, Goto(r, c),
         c \in Call, LocalsSet(c, issued),
         ownerId' \in [Spaces -> Users \cup {NoUser}],
         members' \in [Spaces -> [Users -> Role \cup {NoRole}]],
         InvitesOK', issued' = issued, now' = now
  PROVE  TypeInv'
<1>1. call' \in [Requests -> Call]
  BY DEF TypeInv, TypeOK, Goto
<1>2. \A q \in Requests : LocalsSet(call'[q], issued')
  BY DEF TypeInv, TypeOK, Goto
<1> QED
  BY <1>1, <1>2 DEF TypeInv, TypeOK, InvitesOK

\* A step that only reads.
LEMMA ReadStep ==
  ASSUME TypeInv, NEW r \in Requests, NEW c, Goto(r, c),
         c \in Call, LocalsSet(c, issued), UNCHANGED <<tables, now>>
  PROVE  TypeInv'
<1>1. InvitesOK'
  BY DEF TypeInv, TypeOK, InvitesOK, tables
<1> QED
  BY <1>1, WriteStep DEF TypeInv, TypeOK, tables

LEMMA SetStatusType ==
  ASSUME TypeInv, NEW i \in 1..issued, NEW s \in Status, SetStatus(i, s),
         issued' = issued
  PROVE  InvitesOK'
<1>1. i \in InviteIds /\ invites[i] \in Invite
  BY BoundsAssumption DEF TypeInv, TypeOK, InviteIds
<1>2. [invites[i] EXCEPT !.status = s] \in Invite
  BY <1>1 DEF Invite
<1> QED
  BY <1>1, <1>2 DEF TypeInv, TypeOK, SetStatus, InvitesOK

LEMMA SetRoleType ==
  ASSUME TypeInv, NEW w \in Spaces, NEW u \in Users,
         NEW role \in Role \cup {NoRole}, SetRole(w, u, role)
  PROVE  members' \in [Spaces -> [Users -> Role \cup {NoRole}]]
BY DEF TypeInv, TypeOK, SetRole

LEMMA InviteType ==
  ASSUME TypeInv, NEW i \in 1..issued
  PROVE  /\ i \in InviteIds
         /\ invites[i].space \in Spaces
         /\ invites[i].email \in Users
         /\ invites[i].role \in Role
BY BoundsAssumption DEF TypeInv, TypeOK, InviteIds, Invite

LEMMA IdleType == Idle \in Call /\ LocalsSet(Idle, issued)
BY DEF Idle, Call, Label, LocalsSet, Inviting, Accepting, Managing

\* Moving on to a label whose locals are already set.
LEMMA AdvanceStep ==
  ASSUME TypeInv, NEW r \in Requests, NEW l \in Label, Advance(r, l)
  PROVE  \E c \in Call :
           /\ Goto(r, c)
           /\ c.at = l /\ c.by = call[r].by /\ c.space = call[r].space
           /\ c.user = call[r].user /\ c.role = call[r].role
           /\ c.inv = call[r].inv /\ c.todo = call[r].todo
<1> DEFINE c == [call[r] EXCEPT !.at = l]
<1>1. call[r] \in Call
  BY DEF TypeInv, TypeOK
<1>2. c \in Call
  BY <1>1 DEF Call
<1>3. Goto(r, c)
  BY DEF Advance, Goto
<1>4. /\ c.at = l /\ c.by = call[r].by /\ c.space = call[r].space
      /\ c.user = call[r].user /\ c.role = call[r].role
      /\ c.inv = call[r].inv /\ c.todo = call[r].todo
  BY <1>1 DEF Call
<1> QED
  BY <1>2, <1>3, <1>4

LEMMA LapseStep ==
  ASSUME TypeInv, NEW r \in Requests, NEW S \in SUBSET (1..issued),
         LapseThenReply(r, S), UNCHANGED <<tables, now>>
  PROVE  TypeInv'
<1> DEFINE c == [Idle EXCEPT !.at = "lapse", !.todo = S]
<1>1. S \in SUBSET InviteIds
  BY BoundsAssumption DEF TypeInv, TypeOK, InviteIds
<1>2. c \in Call /\ LocalsSet(c, issued)
  BY <1>1 DEF Idle, Call, Label, LocalsSet, Inviting, Accepting, Managing
<1>3. Goto(r, c)
  BY DEF LapseThenReply
<1> QED
  BY <1>2, <1>3, ReadStep

LEMMA ReplyStep ==
  ASSUME TypeInv, NEW r \in Requests, Reply(r)
  PROVE  Goto(r, Idle)
BY DEF Reply, Goto

LEMMA TypeStep == TypeInv /\ [Next]_vars => TypeInv'
<1> SUFFICES ASSUME TypeInv, [Next]_vars PROVE TypeInv'
  OBVIOUS
<1> USE DEF Inviting, Accepting, Managing, LocalsSet
<1>1. CASE UNCHANGED vars
  BY <1>1 DEF vars, TypeInv, TypeOK
<1>2. CASE Tick
  BY <1>2, BoundsAssumption DEF Tick, tables, TypeInv, TypeOK
<1>3. ASSUME NEW r \in Requests, BeginCreate(r) PROVE TypeInv'
  <2>1. PICK w \in Spaces, u \in Users :
          /\ ownerId' = [ownerId EXCEPT ![w] = u]
          /\ Goto(r, [Idle EXCEPT !.at = "addOwner", !.by = u, !.space = w])
          /\ UNCHANGED <<members, invites, issued, now>>
    BY <1>3 DEF BeginCreate
  <2>2. InvitesOK'
    BY <2>1 DEF TypeInv, TypeOK, InvitesOK
  <2> QED
    BY <2>1, <2>2, WriteStep DEF Idle, Call, Label, TypeInv, TypeOK
<1>4. ASSUME NEW r \in Requests, BeginInvite(r) PROVE TypeInv'
  BY <1>4, ReadStep, InviteRolesAssumption, IdleType
     DEF BeginInvite, Idle, Call, Label, Role
<1>5. ASSUME NEW r \in Requests, BeginListPending(r) PROVE TypeInv'
  BY <1>5, ReadStep, IdleType
     DEF BeginListPending, Idle, Call, Label
<1>6. ASSUME NEW r \in Requests, BeginRevoke(r) PROVE TypeInv'
  BY <1>6, ReadStep, IdleType
     DEF BeginRevoke, Idle, Call, Label
<1>7. ASSUME NEW r \in Requests, BeginRemove(r) PROVE TypeInv'
  BY <1>7, ReadStep, IdleType
     DEF BeginRemove, Idle, Call, Label
<1>8. ASSUME NEW r \in Requests, BeginLeave(r) PROVE TypeInv'
  BY <1>8, ReadStep, IdleType
     DEF BeginLeave, Idle, Call, Label
<1>9. ASSUME NEW r \in Requests, BeginUpdateRole(r) PROVE TypeInv'
  BY <1>9, ReadStep, IdleType
     DEF BeginUpdateRole, Idle, Call, Label, Role, AssignableRoles
<1>10. ASSUME NEW r \in Requests, BeginGetInvite(r) PROVE TypeInv'
  BY <1>10, LapseStep DEF BeginGetInvite, Exists
<1>11. ASSUME NEW r \in Requests, BeginMyInvites(r) PROVE TypeInv'
  BY <1>11, LapseStep DEF BeginMyInvites
<1>12. ASSUME NEW r \in Requests, BeginAccept(r) PROVE TypeInv'
  BY <1>12, ReadStep, LapseStep, InviteType
     DEF BeginAccept, MayAnswer, Exists, AddressedTo, Idle, Call, Label
<1>13. ASSUME NEW r \in Requests, BeginDecline(r) PROVE TypeInv'
  BY <1>13, ReadStep, InviteType
     DEF BeginDecline, MayAnswer, Exists, Idle, Call, Label
<1>14. ASSUME NEW r \in Requests, AddOwner(r) PROVE TypeInv'
  <2>1. InvitesOK'
    BY <1>14 DEF AddOwner, TypeInv, TypeOK, InvitesOK
  <2>2. members' \in [Spaces -> [Users -> Role \cup {NoRole}]]
    BY <1>14, SetRoleType DEF AddOwner, At, TypeInv, Role
  <2> QED
    BY <1>14, <2>1, <2>2, WriteStep, ReplyStep, IdleType
       DEF AddOwner, TypeInv, TypeOK
<1>15. ASSUME NEW r \in Requests, CheckInvitee(r) PROVE TypeInv'
  BY <1>15, ReadStep, AdvanceStep, ReplyStep, IdleType
     DEF CheckInvitee, At, Label, TypeInv
<1>16. ASSUME NEW r \in Requests, FindMember(r) PROVE TypeInv'
  BY <1>16, ReadStep, AdvanceStep, ReplyStep, IdleType
     DEF FindMember, At, Label, TypeInv
<1>17. ASSUME NEW r \in Requests, RemoveRead(r) PROVE TypeInv'
  BY <1>17, ReadStep, AdvanceStep, ReplyStep, IdleType
     DEF RemoveRead, At, Label, TypeInv
<1>18. ASSUME NEW r \in Requests, UpdateRead(r) PROVE TypeInv'
  BY <1>18, ReadStep, AdvanceStep, ReplyStep, IdleType
     DEF UpdateRead, At, Label, TypeInv
<1>19. ASSUME NEW r \in Requests, FindPending(r) PROVE TypeInv'
  <2>1. call[r].at = "findPending" /\ UNCHANGED <<tables, now>>
    BY <1>19 DEF FindPending, At
  <2>2. CASE Advance(r, "createInvite")
    BY <2>1, <2>2, ReadStep, AdvanceStep DEF Label, TypeInv
  <2>3. ASSUME NEW i \in 1..issued, NEW l \in {"expireOld", "refreshInvite"},
               Goto(r, [call[r] EXCEPT !.at = l, !.inv = i])
        PROVE  TypeInv'
    <3> DEFINE c == [call[r] EXCEPT !.at = l, !.inv = i]
    <3>1. c \in Call
      BY InviteType DEF TypeInv, TypeOK, Call, Label
    <3>2. LocalsSet(c, issued)
      BY <2>1 DEF TypeInv, TypeOK, Call
    <3> QED
      BY <2>1, <2>3, <3>1, <3>2, ReadStep
  <2> QED
    BY <1>19, <2>2, <2>3 DEF FindPending, NewestPending
<1>20. ASSUME NEW r \in Requests, ExpireOld(r) PROVE TypeInv'
  <2>1. InvitesOK'
    BY <1>20, SetStatusType DEF ExpireOld, At, TypeInv, Status
  <2>2. LET c == [call[r] EXCEPT !.at = "createInvite", !.inv = 0]
        IN c \in Call /\ LocalsSet(c, issued)
    BY <1>20 DEF ExpireOld, At, TypeInv, TypeOK, Call, Label
  <2> QED
    BY <1>20, <2>1, <2>2, WriteStep DEF ExpireOld, TypeInv, TypeOK
<1>21. ASSUME NEW r \in Requests, CreateInvite(r) PROVE TypeInv'
  <2>1. InvitesOK'
    BY <1>21, BoundsAssumption
       DEF CreateInvite, At, TypeInv, TypeOK, InvitesOK, Invite, InviteIds,
           Status
  <2>2. issued' \in 0..MaxInvites /\ issued' = issued + 1
    BY <1>21, BoundsAssumption DEF CreateInvite, TypeInv, TypeOK
  <2>3. \A q \in Requests : LocalsSet(call'[q], issued')
    BY <1>21, <2>2, IdleType DEF CreateInvite, Reply, TypeInv, TypeOK
  <2> QED
    BY <1>21, <2>1, <2>2, <2>3, IdleType
       DEF CreateInvite, Reply, TypeInv, TypeOK, InvitesOK
<1>22. ASSUME NEW r \in Requests, RefreshInvite(r) PROVE TypeInv'
  <2>1. call[r].inv \in 1..issued /\ call[r].role \in Role
    BY <1>22 DEF RefreshInvite, At, TypeInv
  <2>2. now + Ttl \in 0..(MaxTime + Ttl)
    BY BoundsAssumption DEF TypeInv, TypeOK
  <2>4. invites[call[r].inv] \in Invite
    BY <2>1, InviteType DEF TypeInv, TypeOK
  <2>5. [invites[call[r].inv] EXCEPT !.role = call[r].role,
                                     !.expires = now + Ttl] \in Invite
    BY <2>1, <2>2, <2>4 DEF Invite
  <2>3. InvitesOK'
    BY <1>22, <2>1, <2>5 DEF RefreshInvite, TypeInv, TypeOK, InvitesOK
  <2> QED
    BY <1>22, <2>3, WriteStep, ReplyStep, IdleType
       DEF RefreshInvite, TypeInv, TypeOK
<1>23. ASSUME NEW r \in Requests, ListRead(r) PROVE TypeInv'
  <2>1. UNCHANGED <<tables, now>>
    BY <1>23 DEF ListRead
  <2>2. CASE Reply(r)
    BY <2>1, <2>2, ReadStep, ReplyStep, IdleType
  <2>3. ASSUME NEW S \in SUBSET (1..issued), LapseThenReply(r, S)
        PROVE  TypeInv'
    BY <2>1, <2>3, LapseStep
  <2> QED
    BY <1>23, <2>2, <2>3 DEF ListRead
<1>24. ASSUME NEW r \in Requests, Lapse(r) PROVE TypeInv'
  <2>1. PICK i \in call[r].todo :
          /\ SetStatus(i, "EXPIRED")
          /\ \/ Reply(r)
             \/ call' = [call EXCEPT ![r].todo = @ \ {i}]
          /\ UNCHANGED <<ownerId, members, issued, now>>
    BY <1>24 DEF Lapse
  <2>2. i \in 1..issued
    BY <2>1 DEF TypeInv
  <2>3. InvitesOK'
    BY <2>1, <2>2, SetStatusType DEF Status
  <2>4. CASE Reply(r)
    BY <2>1, <2>3, <2>4, WriteStep, ReplyStep, IdleType DEF TypeInv, TypeOK
  <2>5. CASE call' = [call EXCEPT ![r].todo = @ \ {i}]
    <3> DEFINE c == [call[r] EXCEPT !.todo = @ \ {i}]
    <3>1. c \in Call /\ LocalsSet(c, issued)
      BY DEF TypeInv, TypeOK, Call
    <3>2. Goto(r, c)
      BY <2>5 DEF Goto
    <3> QED
      BY <2>1, <2>3, <3>1, <3>2, WriteStep DEF TypeInv, TypeOK
  <2> QED
    BY <2>1, <2>4, <2>5
<1>25. ASSUME NEW r \in Requests, AddMember(r) PROVE TypeInv'
  <2>1. call[r].at = "addMember"
    BY <1>25 DEF AddMember, At
  <2>2. members' \in [Spaces -> [Users -> Role \cup {NoRole}]]
    BY <1>25, <2>1, SetRoleType DEF AddMember, TypeInv, TypeOK
  <2>3. InvitesOK'
    BY <1>25 DEF AddMember, TypeInv, TypeOK, InvitesOK
  <2>4. CASE Reply(r)
    BY <1>25, <2>2, <2>3, <2>4, WriteStep, ReplyStep, IdleType
       DEF AddMember, TypeInv, TypeOK
  <2>5. CASE Advance(r, "markAccepted")
    <3>1. PICK c \in Call :
            /\ Goto(r, c)
            /\ c.at = "markAccepted" /\ c.by = call[r].by
            /\ c.space = call[r].space /\ c.role = call[r].role
            /\ c.inv = call[r].inv /\ c.todo = call[r].todo
      BY <2>5, AdvanceStep DEF Label
    <3>2. LocalsSet(c, issued)
      BY <2>1, <3>1 DEF TypeInv
    <3> QED
      BY <1>25, <2>2, <2>3, <3>1, <3>2, WriteStep DEF AddMember, TypeInv, TypeOK
  <2> QED
    BY <1>25, <2>4, <2>5 DEF AddMember
<1>26. ASSUME NEW r \in Requests, MarkAccepted(r) PROVE TypeInv'
  <2>1. InvitesOK'
    BY <1>26, SetStatusType DEF MarkAccepted, At, TypeInv, Status
  <2> QED
    BY <1>26, <2>1, WriteStep, ReplyStep, IdleType DEF MarkAccepted, TypeInv, TypeOK
<1>27. ASSUME NEW r \in Requests, RevokeWrite(r) PROVE TypeInv'
  <2>1. InvitesOK'
    BY <1>27, SetStatusType DEF RevokeWrite, At, TypeInv, Status
  <2> QED
    BY <1>27, <2>1, WriteStep, ReplyStep, IdleType DEF RevokeWrite, TypeInv, TypeOK
<1>28. ASSUME NEW r \in Requests, RevokeRead(r) PROVE TypeInv'
  BY <1>28, ReadStep, ReplyStep, IdleType, InviteType
     DEF RevokeRead, At, MayAnswer, Exists, Idle, Call, Label
<1>29. ASSUME NEW r \in Requests, RemoveWrite(r) PROVE TypeInv'
  <2>1. members' \in [Spaces -> [Users -> Role \cup {NoRole}]]
    BY <1>29, SetRoleType DEF RemoveWrite, DropMember, At, TypeInv, TypeOK
  <2>2. InvitesOK'
    BY <1>29 DEF RemoveWrite, TypeInv, TypeOK, InvitesOK
  <2> QED
    BY <1>29, <2>1, <2>2, WriteStep, ReplyStep, IdleType
       DEF RemoveWrite, TypeInv, TypeOK
<1>30. ASSUME NEW r \in Requests, UpdateWrite(r) PROVE TypeInv'
  <2>1. members' \in [Spaces -> [Users -> Role \cup {NoRole}]]
    BY <1>30, SetRoleType DEF UpdateWrite, At, TypeInv, TypeOK
  <2>2. InvitesOK'
    BY <1>30 DEF UpdateWrite, TypeInv, TypeOK, InvitesOK
  <2> QED
    BY <1>30, <2>1, <2>2, WriteStep, ReplyStep, IdleType
       DEF UpdateWrite, TypeInv, TypeOK
<1>31. ASSUME NEW r \in Requests, Fail(r) PROVE TypeInv'
  BY <1>31, ReadStep, ReplyStep, IdleType DEF Fail
<1> QED
  BY <1>1, <1>2, <1>3, <1>4, <1>5, <1>6, <1>7, <1>8, <1>9, <1>10, <1>11,
     <1>12, <1>13, <1>14, <1>15, <1>16, <1>17, <1>18, <1>19, <1>20, <1>21,
     <1>22, <1>23, <1>24, <1>25, <1>26, <1>27, <1>28, <1>29, <1>30, <1>31
     DEF Next, Begin, Serve

\* Rows and handler locals keep their types, whatever interleaves.
THEOREM TypeCorrect == Spec => []TypeOK
<1>1. TypeInv => TypeOK
  BY DEF TypeInv
<1> QED
  BY <1>1, TypeInit, TypeStep, PTL DEF Spec

LEMMA TypeInvariant == Spec => []TypeInv
BY TypeInit, TypeStep, PTL DEF Spec

-----------------------------------------------------------------------------
(***************************************************************************)
(* The creator is the OWNER.  CreatorIsOwner is not inductive: a handler   *)
(* past its guard writes by what it read before.  The strengthening says   *)
(* what those reads still guarantee: the workspace is founded for good, so *)
(* a target found not to be its creator stays that, and no role in flight  *)
(* is OWNER.                                                               *)
(***************************************************************************)

Founded(w) == ownerId[w] \in Users /\ IsOwner(w, ownerId[w])

\* What the locals c of a handler in flight may count on.
Backed(c) ==
  /\ c.at = "addOwner" => /\ c.by = ownerId[c.space]
                          /\ \A u \in Users : ~IsMember(c.space, u)
  /\ c.at \in Inviting \cup Accepting => Founded(c.space) /\ c.role # "OWNER"
  /\ c.at \in {"removeWrite", "updateRead", "updateWrite"} =>
       Founded(c.space) /\ c.user # ownerId[c.space]
  /\ c.at \in {"updateRead", "updateWrite"} => c.role # "OWNER"

\* No two requests are creating the same workspace.
SoleCreate ==
  \A r, q \in Requests :
    /\ call[r].at = "addOwner" /\ call[q].at = "addOwner"
    /\ call[r].space = call[q].space
    => r = q

InvitesBacked ==
  \A i \in 1..issued :
    Founded(invites[i].space) /\ invites[i].role # "OWNER"

OwnerInv ==
  /\ CreatorIsOwner
  /\ InvitesBacked
  /\ \A r \in Requests : Backed(call[r])
  /\ SoleCreate

LEMMA OwnerInit == Init => OwnerInv
BY UsersAssumption
   DEF Init, Idle, OwnerInv, CreatorIsOwner, IsMember, IsOwner, InvitesBacked,
       Backed, Inviting, Accepting, SoleCreate, NoRole

\* A step that leaves workspaces and members alone.
LEMMA OwnerKept ==
  ASSUME TypeInv, OwnerInv, NEW r \in Requests, NEW c, Goto(r, c), Backed(c),
         c.at # "addOwner", InvitesBacked', UNCHANGED <<ownerId, members>>
  PROVE  OwnerInv'
<1>1. \A q \in Requests : call'[q] = IF q = r THEN c ELSE call[q]
  BY DEF Goto, TypeInv, TypeOK
<1>2. CreatorIsOwner'
  BY DEF OwnerInv, CreatorIsOwner, IsMember, IsOwner
<1>3. \A q \in Requests : Backed(call[q])'
  BY <1>1 DEF OwnerInv, Backed, Founded, IsMember, IsOwner
<1>4. SoleCreate'
  BY <1>1 DEF OwnerInv, SoleCreate
<1> QED
  BY <1>2, <1>3, <1>4 DEF OwnerInv

LEMMA OwnerRead ==
  ASSUME TypeInv, OwnerInv, NEW r \in Requests, NEW c, Goto(r, c), Backed(c),
         c.at # "addOwner", UNCHANGED tables
  PROVE  OwnerInv'
<1>1. InvitesBacked'
  BY DEF OwnerInv, InvitesBacked, Founded, IsOwner, tables
<1> QED
  BY <1>1, OwnerKept DEF tables

\* A step that only rewrites a status.
LEMMA OwnerStatus ==
  ASSUME TypeInv, OwnerInv, NEW r \in Requests, NEW c, Goto(r, c), Backed(c),
         c.at # "addOwner", NEW i \in 1..issued, NEW status,
         SetStatus(i, status), UNCHANGED <<ownerId, members, issued>>
  PROVE  OwnerInv'
<1>1. \A j \in 1..issued : /\ invites'[j].space = invites[j].space
                           /\ invites'[j].role = invites[j].role
  BY BoundsAssumption DEF TypeInv, TypeOK, SetStatus, InviteIds, Invite
<1>2. InvitesBacked'
  BY <1>1 DEF OwnerInv, InvitesBacked, Founded, IsOwner
<1> QED
  BY <1>2, OwnerKept

LEMMA IdleBacked == Backed(Idle) /\ Idle.at # "addOwner"
BY DEF Idle, Backed, Inviting, Accepting

\* A member's workspace is founded.
LEMMA MemberFounded ==
  ASSUME TypeInv, OwnerInv, NEW w \in Spaces, NEW u \in Users, IsMember(w, u)
  PROVE  Founded(w) /\ (IsOwner(w, u) => u = ownerId[w])
BY DEF OwnerInv, CreatorIsOwner, Founded, TypeInv, TypeOK

LEMMA OwnerIsMember ==
  ASSUME TypeInv, OwnerInv, NEW w \in Spaces, NEW u \in Users, IsOwner(w, u)
  PROVE  Founded(w) /\ u = ownerId[w]
BY MemberFounded DEF IsOwner, IsMember, NoRole


\* The writes to the members table other than the creator's own row.
LEMMA OwnerWrite ==
  ASSUME TypeInv, OwnerInv, NEW r \in Requests, NEW c, Goto(r, c), Backed(c),
         LocalsSet(c, issued), c.at # "addOwner", NEW w \in Spaces, NEW u \in Users, NEW role,
         SetRole(w, u, role), role # "OWNER", Founded(w), u # ownerId[w],
         UNCHANGED <<ownerId, invites, issued>>
  PROVE  OwnerInv'
<1>1. \A v \in Spaces, x \in Users :
        members'[v][x] = IF v = w /\ x = u THEN role ELSE members[v][x]
  BY DEF SetRole, TypeInv, TypeOK
<1>2. \A q \in Requests : call'[q] = IF q = r THEN c ELSE call[q]
  BY DEF Goto, TypeInv, TypeOK
<1>3. \A v \in Spaces : Founded(v) => Founded(v)'
  BY <1>1 DEF Founded, IsOwner
<1>4. CreatorIsOwner'
  <2> SUFFICES ASSUME NEW v \in Spaces, NEW x \in Users
               PROVE  /\ IsMember(v, x)' =>
                           ownerId'[v] # NoUser /\ IsOwner(v, ownerId[v])'
                      /\ IsOwner(v, x)' => x = ownerId'[v]
    BY DEF CreatorIsOwner
  <2>1. CASE v = w
    BY <1>1, <1>3, <2>1, UsersAssumption
       DEF OwnerInv, CreatorIsOwner, Founded, IsMember, IsOwner
  <2>2. CASE v # w
    BY <1>1, <2>2
       DEF OwnerInv, CreatorIsOwner, IsMember, IsOwner, TypeInv, TypeOK
  <2> QED
    BY <2>1, <2>2
<1>5. InvitesBacked'
  BY <1>3, InviteType DEF OwnerInv, InvitesBacked
<1>6. ASSUME NEW q \in Requests PROVE Backed(call[q])'
  <2> DEFINE d == call'[q]
  <2>1. LocalsSet(d, issued) /\ Backed(d)
    BY <1>2 DEF OwnerInv, TypeInv
  <2>2. d.at \in Inviting \cup Accepting
                 \cup {"addOwner", "removeWrite", "updateRead", "updateWrite"}
        => d.space \in Spaces
    BY <2>1 DEF LocalsSet, Managing
  <2>3. CASE d.at = "addOwner"
    <3>1. d.space # w
      BY <2>1, <2>2, <2>3 DEF Backed, Founded, IsMember, IsOwner, NoRole
    <3>2. d.by = ownerId'[d.space] 
          /\ \A x \in Users : members'[d.space][x] = NoRole
      BY <1>1, <2>1, <2>2, <2>3, <3>1 DEF Backed, IsMember
    <3> QED
      BY <2>3, <3>2 DEF Backed, IsMember, Inviting, Accepting
  <2>4. CASE d.at # "addOwner"
    BY <1>3, <2>1, <2>2, <2>4 DEF Backed
  <2> QED
    BY <2>3, <2>4
<1>7. SoleCreate'
  BY <1>2 DEF OwnerInv, SoleCreate
<1> QED
  BY <1>4, <1>5, <1>6, <1>7 DEF OwnerInv


LEMMA OwnerStep ==
  ASSUME "OWNER" \notin InviteRoles, TypeInv, OwnerInv, [Next]_vars
  PROVE  OwnerInv'
<1> USE DEF Inviting, Accepting
<1>1. CASE UNCHANGED vars \/ Tick
  BY <1>1 DEF vars, Tick, tables, OwnerInv, CreatorIsOwner, IsMember, IsOwner,
     InvitesBacked, Founded, Backed, SoleCreate
<1>2. ASSUME NEW r \in Requests, BeginCreate(r) PROVE OwnerInv'
  <2>1. PICK w \in Spaces, u \in Users :
          /\ ownerId[w] = NoUser
          /\ ownerId' = [ownerId EXCEPT ![w] = u]
          /\ Goto(r, [Idle EXCEPT !.at = "addOwner", !.by = u, !.space = w])
          /\ UNCHANGED <<members, invites, issued, now>>
    BY <1>2 DEF BeginCreate
  <2> DEFINE c == [Idle EXCEPT !.at = "addOwner", !.by = u, !.space = w]
  <2>2. c.at = "addOwner" /\ c.by = u /\ c.space = w
    BY DEF Idle
  <2>3. \A q \in Requests : call'[q] = IF q = r THEN c ELSE call[q]
    BY <2>1 DEF Goto, TypeInv, TypeOK
  <2>4. \A x \in Users : ~IsMember(w, x)
    BY <2>1, MemberFounded, UsersAssumption DEF Founded
  <2>5. \A v \in Spaces : Founded(v) => v # w /\ Founded(v)'
    BY <2>1, UsersAssumption DEF Founded, IsOwner, TypeInv, TypeOK
  <2>6. CreatorIsOwner'
    BY <2>1, <2>4, MemberFounded, OwnerIsMember
       DEF CreatorIsOwner, IsMember, IsOwner, Founded, OwnerInv, TypeInv, TypeOK,
           NoRole
  <2>7. InvitesBacked'
    BY <2>1, <2>5, InviteType DEF OwnerInv, InvitesBacked
  <2>8. \A q \in Requests : call[q].at = "addOwner" => call[q].space # w
    BY <2>1, UsersAssumption DEF OwnerInv, Backed, TypeInv, LocalsSet
  <2>9. \A q \in Requests : Backed(call[q])'
    <3>1. SUFFICES ASSUME NEW q \in Requests PROVE Backed(call[q])'
      OBVIOUS
    <3>2. CASE q = r
      BY <2>1, <2>2, <2>3, <2>4, <3>2 DEF Backed, IsMember, TypeInv, TypeOK
    <3>3. CASE q # r
      <4>1. call'[q] = call[q] /\ Backed(call[q]) /\ LocalsSet(call[q], issued)
        BY <2>3, <3>3 DEF OwnerInv, TypeInv
      <4>2. CASE call[q].at = "addOwner"
        BY <2>1, <2>8, <4>1, <4>2 DEF Backed, IsMember, TypeInv, TypeOK, LocalsSet
      <4>3. CASE call[q].at # "addOwner"
        BY <2>1, <2>5, <4>1, <4>3 DEF Backed, LocalsSet, Managing, TypeInv, TypeOK
      <4> QED
        BY <4>2, <4>3
    <3> QED
      BY <3>2, <3>3
  <2>10. SoleCreate'
    <3> SUFFICES ASSUME NEW p \in Requests, NEW q \in Requests,
                        call'[p].at = "addOwner", call'[q].at = "addOwner",
                        call'[p].space = call'[q].space
                 PROVE  p = q
      BY DEF SoleCreate
    <3>1. call'[r].space = w
      BY <2>2, <2>3
    <3>2. \A x \in Requests :
            x # r => /\ call'[x] = call[x]
                     /\ call[x].at # "addOwner" \/ call[x].space # w
      BY <2>3, <2>8
    <3>3. \A x, y \in Requests :
            /\ call[x].at = "addOwner" /\ call[y].at = "addOwner"
            /\ call[x].space = call[y].space
            => x = y
      BY DEF OwnerInv, SoleCreate
    <3>4. CASE p # r /\ q # r
      BY <3>2, <3>3, <3>4
    <3>5. CASE p = r \/ q = r
      BY <3>1, <3>2, <3>5
    <3> QED
      BY <3>4, <3>5
  <2> QED
    BY <2>6, <2>7, <2>9, <2>10 DEF OwnerInv
<1>3. ASSUME NEW r \in Requests, AddOwner(r) PROVE OwnerInv'
  <2> DEFINE w == call[r].space
             u == call[r].by
  <2>1. /\ call[r].at = "addOwner" /\ w \in Spaces /\ u \in Users
        /\ u = ownerId[w] /\ \A x \in Users : ~IsMember(w, x)
    BY <1>3 DEF AddOwner, At, OwnerInv, Backed, TypeInv, LocalsSet
  <2>2. \A v \in Spaces, x \in Users :
          members'[v][x] = IF v = w /\ x = u THEN "OWNER" ELSE members[v][x]
    BY <1>3, <2>1 DEF AddOwner, SetRole, TypeInv, TypeOK
  <2>3. \A q \in Requests : call'[q] = IF q = r THEN Idle ELSE call[q]
    BY <1>3 DEF AddOwner, Reply, TypeInv, TypeOK
  <2>4. UNCHANGED <<ownerId, invites, issued>>
    BY <1>3 DEF AddOwner
  <2>5. \A v \in Spaces : Founded(v) => Founded(v)'
    BY <2>2, <2>4 DEF Founded, IsOwner
  <2>6. CreatorIsOwner'
    <3> SUFFICES ASSUME NEW v \in Spaces, NEW x \in Users
                 PROVE  /\ IsMember(v, x)' =>
                             ownerId'[v] # NoUser /\ IsOwner(v, ownerId[v])'
                        /\ IsOwner(v, x)' => x = ownerId'[v]
      BY DEF CreatorIsOwner
    <3>1. CASE v = w
      BY <2>1, <2>2, <2>4, <3>1, UsersAssumption DEF IsMember, IsOwner, NoRole
    <3>2. CASE v # w
      BY <2>2, <2>4, <3>2
         DEF OwnerInv, CreatorIsOwner, IsMember, IsOwner, TypeInv, TypeOK
    <3> QED
      BY <3>1, <3>2
  <2>7. InvitesBacked'
    BY <2>4, <2>5, InviteType DEF OwnerInv, InvitesBacked
  <2>8. \A q \in Requests :
          q # r /\ call[q].at = "addOwner" => call[q].space # w
    BY <2>1 DEF OwnerInv, SoleCreate
  <2>9. ASSUME NEW q \in Requests PROVE Backed(call[q])'
    <3>1. CASE q = r
      BY <2>3, <3>1, IdleBacked DEF Backed, Idle
    <3>2. CASE q # r
      <4>1. call'[q] = call[q] /\ Backed(call[q]) /\ LocalsSet(call[q], issued)
        BY <2>3, <3>2 DEF OwnerInv, TypeInv
      <4>2. CASE call[q].at = "addOwner"
        BY <2>2, <2>4, <2>8, <3>2, <4>1, <4>2
           DEF Backed, IsMember, LocalsSet
      <4>3. CASE call[q].at # "addOwner"
        BY <2>4, <2>5, <4>1, <4>3 DEF Backed, LocalsSet, Managing
      <4> QED
        BY <4>2, <4>3
    <3> QED
      BY <3>1, <3>2
  <2>10. SoleCreate'
    BY <2>3 DEF OwnerInv, SoleCreate, Idle
  <2> QED
    BY <2>6, <2>7, <2>9, <2>10 DEF OwnerInv
<1>4. ASSUME NEW r \in Requests, BeginInvite(r) PROVE OwnerInv'
  BY <1>4, OwnerRead, OwnerIsMember
     DEF BeginInvite, tables, Idle, Backed
<1>5. ASSUME NEW r \in Requests, BeginListPending(r) PROVE OwnerInv'
  BY <1>5, OwnerRead DEF BeginListPending, tables, Idle, Backed
<1>6. ASSUME NEW r \in Requests, BeginRevoke(r) PROVE OwnerInv'
  BY <1>6, OwnerRead DEF BeginRevoke, tables, Idle, Backed
<1>7. ASSUME NEW r \in Requests, BeginRemove(r) PROVE OwnerInv'
  BY <1>7, OwnerRead DEF BeginRemove, tables, Idle, Backed
<1>8. ASSUME NEW r \in Requests, BeginLeave(r) PROVE OwnerInv'
  BY <1>8, OwnerRead, MemberFounded
     DEF BeginLeave, Removable, Founded, tables, Idle, Backed
<1>9. ASSUME NEW r \in Requests, BeginUpdateRole(r) PROVE OwnerInv'
  BY <1>9, OwnerRead, OwnerIsMember
     DEF BeginUpdateRole, NotSelf, AssignableRoles, tables, Idle, Backed
<1>10. ASSUME NEW r \in Requests, BeginGetInvite(r) PROVE OwnerInv'
  BY <1>10, OwnerRead DEF BeginGetInvite, LapseThenReply, tables, Idle, Backed
<1>11. ASSUME NEW r \in Requests, BeginMyInvites(r) PROVE OwnerInv'
  BY <1>11, OwnerRead DEF BeginMyInvites, LapseThenReply, tables, Idle, Backed
<1>12. ASSUME NEW r \in Requests, BeginAccept(r) PROVE OwnerInv'
  BY <1>12, OwnerRead
     DEF BeginAccept, LapseThenReply, MayAnswer, Exists, OwnerInv, InvitesBacked,
         tables, Idle, Backed
<1>13. ASSUME NEW r \in Requests, BeginDecline(r) PROVE OwnerInv'
  BY <1>13, OwnerRead DEF BeginDecline, tables, Idle, Backed
<1>14. ASSUME NEW r \in Requests, CheckInvitee(r) PROVE OwnerInv'
  BY <1>14, OwnerRead, AdvanceStep, ReplyStep, IdleBacked
     DEF CheckInvitee, At, Label, OwnerInv, Backed, tables
<1>15. ASSUME NEW r \in Requests, FindMember(r) PROVE OwnerInv'
  BY <1>15, OwnerRead, AdvanceStep, ReplyStep, IdleBacked
     DEF FindMember, At, Label, OwnerInv, Backed, tables
<1>16. ASSUME NEW r \in Requests, RemoveRead(r) PROVE OwnerInv'
  <2>1. CASE Reply(r)
    BY <1>16, <2>1, OwnerRead, ReplyStep, IdleBacked DEF RemoveRead
  <2>2. CASE Advance(r, "removeWrite") /\ Removable(call[r].space, call[r].user)
    <3>1. Founded(call[r].space) /\ call[r].user # ownerId[call[r].space]
      BY <1>16, <2>2, MemberFounded
         DEF RemoveRead, At, Removable, Founded, TypeInv, LocalsSet, Managing
    <3> QED
      BY <1>16, <2>2, <3>1, OwnerRead, AdvanceStep
         DEF RemoveRead, Label, Backed
  <2> QED
    BY <1>16, <2>1, <2>2 DEF RemoveRead
<1>17. ASSUME NEW r \in Requests, UpdateRead(r) PROVE OwnerInv'
  BY <1>17, OwnerRead, AdvanceStep, ReplyStep, IdleBacked
     DEF UpdateRead, At, Label, OwnerInv, Backed
<1>18. ASSUME NEW r \in Requests, FindPending(r) PROVE OwnerInv'
  <2>1. call[r].at = "findPending" /\ UNCHANGED tables
    BY <1>18 DEF FindPending, At, tables
  <2>2. Founded(call[r].space) /\ call[r].role # "OWNER"
    BY <2>1 DEF OwnerInv, Backed
  <2>3. CASE Advance(r, "createInvite")
    BY <2>1, <2>2, <2>3, OwnerRead, AdvanceStep DEF Label, Backed
  <2>4. ASSUME NEW i, NEW l \in {"expireOld", "refreshInvite"},
               Goto(r, [call[r] EXCEPT !.at = l, !.inv = i])
        PROVE  OwnerInv'
    BY <2>1, <2>2, <2>4, OwnerRead DEF TypeInv, TypeOK, Call, Backed
  <2> QED
    BY <1>18, <2>3, <2>4 DEF FindPending
<1>19. ASSUME NEW r \in Requests, ExpireOld(r) PROVE OwnerInv'
  <2> DEFINE c == [call[r] EXCEPT !.at = "createInvite", !.inv = 0]
  <2>1. call[r].at = "expireOld" /\ call[r].inv \in 1..issued
    BY <1>19 DEF ExpireOld, At, TypeInv, LocalsSet
  <2>2. Backed(c) /\ c.at # "addOwner"
    BY <2>1 DEF OwnerInv, Backed, TypeInv, TypeOK, Call
  <2> QED
    BY <1>19, <2>1, <2>2, OwnerStatus DEF ExpireOld
<1>20. ASSUME NEW r \in Requests, CreateInvite(r) PROVE OwnerInv'
  <2>1. /\ call[r].at = "createInvite" /\ call[r].role # "OWNER"
        /\ Founded(call[r].space)
    BY <1>20 DEF CreateInvite, At, OwnerInv, Backed
  <2>2. \A i \in 1..issued' :
          \/ /\ i \in 1..issued
             /\ invites'[i] = invites[i]
          \/ /\ invites'[i].space = call[r].space
             /\ invites'[i].role = call[r].role
    BY <1>20, BoundsAssumption DEF CreateInvite, TypeInv, TypeOK, InviteIds
  <2>3. InvitesBacked'
    BY <1>20, <2>1, <2>2
       DEF CreateInvite, OwnerInv, InvitesBacked, Founded, IsOwner
  <2> QED
    BY <1>20, <2>3, OwnerKept, ReplyStep, IdleBacked DEF CreateInvite
<1>21. ASSUME NEW r \in Requests, RefreshInvite(r) PROVE OwnerInv'
  <2>1. /\ call[r].at = "refreshInvite" /\ call[r].role # "OWNER"
        /\ call[r].inv \in 1..issued
    BY <1>21 DEF RefreshInvite, At, OwnerInv, Backed, TypeInv, LocalsSet
  <2>2. \A i \in 1..issued :
          /\ invites'[i].space = invites[i].space
          /\ \/ invites'[i].role = invites[i].role
             \/ invites'[i].role = call[r].role
    BY <1>21, <2>1, BoundsAssumption
       DEF RefreshInvite, TypeInv, TypeOK, InviteIds, Invite
  <2>3. InvitesBacked'
    BY <1>21, <2>1, <2>2
       DEF RefreshInvite, OwnerInv, InvitesBacked, Founded, IsOwner
  <2> QED
    BY <1>21, <2>3, OwnerKept, ReplyStep, IdleBacked DEF RefreshInvite
<1>22. ASSUME NEW r \in Requests, ListRead(r) PROVE OwnerInv'
  <2>1. CASE Reply(r)
    BY <1>22, <2>1, OwnerRead, ReplyStep, IdleBacked DEF ListRead
  <2>2. ASSUME NEW S, LapseThenReply(r, S) PROVE OwnerInv'
    BY <1>22, <2>2, OwnerRead DEF ListRead, LapseThenReply, Idle, Backed
  <2> QED
    BY <1>22, <2>1, <2>2 DEF ListRead
<1>23. ASSUME NEW r \in Requests, Lapse(r) PROVE OwnerInv'
  <2>1. PICK i \in call[r].todo :
          /\ SetStatus(i, "EXPIRED")
          /\ \/ Reply(r)
             \/ call' = [call EXCEPT ![r].todo = @ \ {i}]
          /\ call[r].at = "lapse"
          /\ UNCHANGED <<ownerId, members, issued, now>>
    BY <1>23 DEF Lapse, At
  <2>2. i \in 1..issued
    BY <2>1 DEF TypeInv, LocalsSet
  <2>3. CASE Reply(r)
    BY <2>1, <2>2, <2>3, OwnerStatus, ReplyStep, IdleBacked
  <2>4. CASE call' = [call EXCEPT ![r].todo = @ \ {i}]
    <3> DEFINE c == [call[r] EXCEPT !.todo = @ \ {i}]
    <3>1. Backed(c) /\ c.at # "addOwner"
      BY <2>1 DEF TypeInv, TypeOK, Call, Backed
    <3>2. Goto(r, c)
      BY <2>4 DEF Goto
    <3> QED
      BY <2>1, <2>2, <3>1, <3>2, OwnerStatus
  <2> QED
    BY <2>1, <2>3, <2>4
<1>24. ASSUME NEW r \in Requests, AddMember(r) PROVE OwnerInv'
  <2>1. /\ call[r].at = "addMember" /\ call[r].role # "OWNER"
        /\ call[r].space \in Spaces /\ call[r].by \in Users
        /\ Founded(call[r].space) /\ call[r].inv \in 1..issued
    BY <1>24 DEF AddMember, At, OwnerInv, Backed, TypeInv, LocalsSet
  <2>2. CASE Reply(r) /\ UNCHANGED members
    BY <1>24, <2>2, OwnerRead, ReplyStep, IdleBacked DEF AddMember, tables
  <2>3. CASE /\ MayInsert(call[r].space, call[r].by)
             /\ SetRole(call[r].space, call[r].by, call[r].role)
             /\ Advance(r, "markAccepted")
    <3>1. call[r].by # ownerId[call[r].space]
      BY <2>1, <2>3 DEF MayInsert, Founded, IsMember, IsOwner, NoRole
    <3>2. PICK c \in Call :
            /\ Goto(r, c)
            /\ c.at = "markAccepted" /\ c.by = call[r].by
            /\ c.space = call[r].space /\ c.role = call[r].role
            /\ c.inv = call[r].inv /\ c.todo = call[r].todo
      BY <2>3, AdvanceStep DEF Label
    <3>3. Backed(c) /\ LocalsSet(c, issued)
      BY <2>1, <3>2 DEF OwnerInv, Backed, TypeInv, LocalsSet, Managing
    <3> QED
      BY <1>24, <2>1, <2>3, <3>1, <3>2, <3>3, OwnerWrite DEF AddMember
  <2> QED
    BY <1>24, <2>2, <2>3 DEF AddMember
<1>25. ASSUME NEW r \in Requests, MarkAccepted(r) PROVE OwnerInv'
  <2>1. call[r].inv \in 1..issued
    BY <1>25 DEF MarkAccepted, At, TypeInv, LocalsSet
  <2> QED
    BY <1>25, <2>1, OwnerStatus, ReplyStep, IdleBacked DEF MarkAccepted
<1>26. ASSUME NEW r \in Requests, RevokeWrite(r) PROVE OwnerInv'
  <2>1. call[r].inv \in 1..issued
    BY <1>26 DEF RevokeWrite, At, TypeInv, LocalsSet
  <2> QED
    BY <1>26, <2>1, OwnerStatus, ReplyStep, IdleBacked DEF RevokeWrite
<1>27. ASSUME NEW r \in Requests, RevokeRead(r) PROVE OwnerInv'
  BY <1>27, OwnerRead, ReplyStep, IdleBacked DEF RevokeRead, Idle, Backed
<1>28. ASSUME NEW r \in Requests, RemoveWrite(r) PROVE OwnerInv'
  <2>1. /\ call[r].space \in Spaces /\ call[r].user \in Users
        /\ Founded(call[r].space) /\ call[r].user # ownerId[call[r].space]
    BY <1>28 DEF RemoveWrite, At, OwnerInv, Backed, TypeInv, LocalsSet, Managing
  <2> QED
    BY <1>28, <2>1, OwnerWrite, ReplyStep, IdleBacked, IdleType
       DEF RemoveWrite, DropMember, NoRole
<1>29. ASSUME NEW r \in Requests, UpdateWrite(r) PROVE OwnerInv'
  <2>1. /\ call[r].space \in Spaces /\ call[r].user \in Users
        /\ Founded(call[r].space) /\ call[r].user # ownerId[call[r].space]
        /\ call[r].role # "OWNER"
    BY <1>29 DEF UpdateWrite, At, OwnerInv, Backed, TypeInv, LocalsSet, Managing
  <2>2. CASE UNCHANGED members
    BY <1>29, <2>2, OwnerRead, ReplyStep, IdleBacked DEF UpdateWrite, tables
  <2>3. CASE SetRole(call[r].space, call[r].user, call[r].role)
    BY <1>29, <2>1, <2>3, OwnerWrite, ReplyStep, IdleBacked, IdleType
       DEF UpdateWrite
  <2> QED
    BY <1>29, <2>2, <2>3 DEF UpdateWrite
<1>30. ASSUME NEW r \in Requests, Fail(r) PROVE OwnerInv'
  BY <1>30, OwnerRead, ReplyStep, IdleBacked DEF Fail
<1> QED
  BY <1>1, <1>2, <1>3, <1>4, <1>5, <1>6, <1>7, <1>8, <1>9, <1>10, <1>11,
     <1>12, <1>13, <1>14, <1>15, <1>16, <1>17, <1>18, <1>19, <1>20, <1>21,
     <1>22, <1>23, <1>24, <1>25, <1>26, <1>27, <1>28, <1>29, <1>30 DEF
     Next, Begin, Serve

\* When no invite offers OWNER, the user who created a workspace stays its one
\* OWNER through any interleaving of the handlers.
THEOREM CreatorStaysOwner ==
  ASSUME "OWNER" \notin InviteRoles
  PROVE  Spec => []CreatorIsOwner
<1>1. Init => TypeInv /\ OwnerInv
  BY TypeInit, OwnerInit
<1>2. TypeInv /\ OwnerInv /\ [Next]_vars => (TypeInv /\ OwnerInv)'
  BY TypeStep, OwnerStep
<1>3. OwnerInv => CreatorIsOwner
  BY DEF OwnerInv
<1> QED
  BY <1>1, <1>2, <1>3, PTL DEF Spec


-----------------------------------------------------------------------------
(***************************************************************************)
(* The handlers implement Roster.                                          *)
(***************************************************************************)

\* Only four statements write the members table.
LEMMA OtherStepsKeepMembers ==
  ASSUME [Next]_vars,
         ~\E r \in Requests :
            AddOwner(r) \/ AddMember(r) \/ RemoveWrite(r) \/ UpdateWrite(r)
  PROVE  UNCHANGED members
<1>1. CASE UNCHANGED vars \/ Tick
  BY <1>1 DEF vars, Tick, tables
<1>2. ASSUME NEW r \in Requests, Begin(r) PROVE UNCHANGED members
  BY <1>2
     DEF Begin, tables, BeginCreate, BeginInvite, BeginGetInvite,
         BeginMyInvites, BeginListPending, BeginAccept, BeginDecline,
         BeginRevoke, BeginRemove, BeginLeave, BeginUpdateRole
<1>3. ASSUME NEW r \in Requests, Serve(r) \/ Fail(r) PROVE UNCHANGED members
  BY <1>3
     DEF Serve, Fail, tables, CheckInvitee, FindPending, ExpireOld,
         CreateInvite, RefreshInvite, ListRead, Lapse, FindMember,
         MarkAccepted, RevokeRead, RevokeWrite, RemoveRead, UpdateRead
<1> QED
  BY <1>1, <1>2, <1>3 DEF Next

LEMMA RosterStep ==
  ASSUME TypeInv, OwnerInv, [Next]_vars
  PROVE  [R!Next]_members
<1> USE DEF Accepting
<1>1. ASSUME NEW r \in Requests, AddOwner(r) PROVE R!Next
  <2> DEFINE w == call[r].space
             u == call[r].by
  <2>1. w \in Spaces /\ u \in Users /\ \A x \in Users : members[w][x] = NoRole
    BY <1>1 DEF AddOwner, At, OwnerInv, Backed, TypeInv, LocalsSet, IsMember
  <2>2. members[w] = R!Nobody
    BY <2>1 DEF R!Nobody, TypeInv, TypeOK
  <2>3. R!Found(w, u)
    BY <1>1, <2>2 DEF AddOwner, SetRole, R!Found
  <2> QED
    BY <2>1, <2>3 DEF R!Next
<1>2. ASSUME NEW r \in Requests, AddMember(r), members' # members PROVE R!Next
  <2> DEFINE w == call[r].space
             u == call[r].by
  <2>1. /\ w \in Spaces /\ u \in Users /\ call[r].role \in R!LowerRole
        /\ Founded(w)
    BY <1>2
       DEF AddMember, At, OwnerInv, Backed, TypeInv, LocalsSet, Role,
           R!LowerRole
  <2>2. members[w] # R!Nobody
    BY <2>1 DEF Founded, IsOwner, R!Nobody, NoRole
  <2>3. R!Join(w, u, call[r].role)
    BY <1>2, <2>2 DEF AddMember, MayInsert, IsMember, SetRole, R!Join
  <2> QED
    BY <2>1, <2>3 DEF R!Next
<1>3. ASSUME NEW w \in Spaces, NEW u \in Users, Founded(w), u # ownerId[w],
             IsMember(w, u)
      PROVE  members[w][u] \in R!LowerRole
  BY <1>3 DEF OwnerInv, CreatorIsOwner, IsMember, IsOwner, TypeInv, TypeOK,
     Role, R!LowerRole
<1>4. ASSUME NEW r \in Requests, RemoveWrite(r), members' # members PROVE R!Next
  <2> DEFINE w == call[r].space
             u == call[r].user
  <2>1. w \in Spaces /\ u \in Users /\ Founded(w) /\ u # ownerId[w]
    BY <1>4
       DEF RemoveWrite, At, OwnerInv, Backed, TypeInv, LocalsSet, Managing
  <2>2. IsMember(w, u)
    BY <1>4, <2>1
       DEF RemoveWrite, DropMember, SetRole, IsMember, TypeInv, TypeOK
  <2>3. R!Leave(w, u)
    BY <1>3, <1>4, <2>1, <2>2 DEF RemoveWrite, DropMember, SetRole, R!Leave
  <2> QED
    BY <2>1, <2>3 DEF R!Next
<1>5. ASSUME NEW r \in Requests, UpdateWrite(r), members' # members PROVE R!Next
  <2> DEFINE w == call[r].space
             u == call[r].user
  <2>1. /\ w \in Spaces /\ u \in Users /\ Founded(w) /\ u # ownerId[w]
        /\ call[r].role \in R!LowerRole
    BY <1>5
       DEF UpdateWrite, At, OwnerInv, Backed, TypeInv, LocalsSet, Managing,
           Role, R!LowerRole
  <2>2. R!ChangeRole(w, u, call[r].role)
    BY <1>3, <1>5, <2>1 DEF UpdateWrite, SetRole, R!ChangeRole
  <2> QED
    BY <2>1, <2>2 DEF R!Next
<1> QED
  BY <1>1, <1>2, <1>4, <1>5, OtherStepsKeepMembers

\* Whatever interleaves, the members table moves as Roster allows: one founder,
\* OWNER for good, and everybody else coming, changing and going below it.
THEOREM ImplementsRoster ==
  ASSUME "OWNER" \notin InviteRoles
  PROVE  Spec => RefinesRoster
<1>1. Init => TypeInv /\ OwnerInv
  BY TypeInit, OwnerInit
<1>2. TypeInv /\ OwnerInv /\ [Next]_vars => (TypeInv /\ OwnerInv)'
  BY TypeStep, OwnerStep
<1>3. Init => R!Init
  BY DEF Init, R!Init, R!Nobody
<1>4. TypeInv /\ OwnerInv /\ [Next]_vars => [R!Next]_members
  BY RosterStep
<1> QED
  BY <1>1, <1>2, <1>3, <1>4, PTL DEF Spec, RefinesRoster, R!Spec

-----------------------------------------------------------------------------
(***************************************************************************)
(* Nobody joins uninvited.  An invite keeps its workspace and e-mail for   *)
(* good, and an accept in flight holds one addressed to its caller.        *)
(***************************************************************************)

Invited(w, u) ==
  \E i \in 1..issued : invites[i].space = w /\ invites[i].email = u

\* What a handler that will write a member holds.
Held(c) ==
  /\ c.at \in Accepting => Invited(c.space, c.by)
  /\ c.at = "addOwner" => c.by = ownerId[c.space]

ProvenanceInv == Provenance /\ \A r \in Requests : Held(call[r])

\* The invites table only grows, and its rows keep their addressees.
LEMMA InvitesKept ==
  ASSUME TypeInv, [Next]_vars
  PROVE  /\ \A i \in 1..issued : /\ i \in 1..issued'
                                 /\ invites'[i].space = invites[i].space
                                 /\ invites'[i].email = invites[i].email
         /\ \A w, u : Invited(w, u) => Invited(w, u)'
<1> DEFINE Kept == \A i \in 1..issued :
                     /\ i \in 1..issued'
                     /\ invites'[i].space = invites[i].space
                     /\ invites'[i].email = invites[i].email
<1>1. ASSUME UNCHANGED vars \/ Tick PROVE Kept
  <2>1. UNCHANGED <<invites, issued>>
    BY <1>1 DEF vars, Tick, tables
  <2> QED
    BY <2>1
<1>2. ASSUME NEW r \in Requests, Begin(r) PROVE Kept
  <2>1. UNCHANGED <<invites, issued>>
    BY <1>2
       DEF Begin, tables, BeginCreate, BeginInvite, BeginGetInvite,
           BeginMyInvites, BeginListPending, BeginAccept, BeginDecline,
           BeginRevoke, BeginRemove, BeginLeave, BeginUpdateRole
  <2> QED
    BY <2>1
<1>3. ASSUME NEW i \in 1..issued, NEW status, SetStatus(i, status),
             UNCHANGED issued
      PROVE  Kept
  BY <1>3, BoundsAssumption DEF SetStatus, TypeInv, TypeOK, InviteIds, Invite
<1>4. ASSUME NEW r \in Requests, CreateInvite(r) PROVE Kept
  BY <1>4, BoundsAssumption DEF CreateInvite, TypeInv, TypeOK, InviteIds
<1>5. ASSUME NEW r \in Requests, RefreshInvite(r) PROVE Kept
  <2>1. call[r].inv \in 1..issued
    BY <1>5 DEF RefreshInvite, At, TypeInv, LocalsSet
  <2> QED
    BY <1>5, <2>1, BoundsAssumption
       DEF RefreshInvite, TypeInv, TypeOK, InviteIds, Invite
<1>6. ASSUME NEW r \in Requests, Lapse(r) PROVE Kept
  BY <1>3, <1>6 DEF Lapse, TypeInv, LocalsSet
<1>7. ASSUME NEW r \in Requests,
             ExpireOld(r) \/ MarkAccepted(r) \/ RevokeWrite(r)
      PROVE  Kept
  <2>1. call[r].inv \in 1..issued
    BY <1>7
       DEF ExpireOld, MarkAccepted, RevokeWrite, At, TypeInv, LocalsSet,
           Accepting
  <2> QED
    BY <1>3, <1>7, <2>1 DEF ExpireOld, MarkAccepted, RevokeWrite
<1>8. ASSUME NEW r \in Requests,
             \/ AddOwner(r) \/ CheckInvitee(r) \/ FindPending(r) \/ ListRead(r)
             \/ FindMember(r) \/ AddMember(r) \/ RevokeRead(r)
             \/ RemoveRead(r) \/ RemoveWrite(r) \/ UpdateRead(r)
             \/ UpdateWrite(r) \/ Fail(r)
      PROVE  Kept
  <2>1. UNCHANGED <<invites, issued>>
    BY <1>8
       DEF tables, AddOwner, CheckInvitee, FindPending, ListRead, FindMember,
           AddMember, RevokeRead, RemoveRead, RemoveWrite, UpdateRead,
           UpdateWrite, Fail
  <2> QED
    BY <2>1
<1>9. Kept
  BY <1>1, <1>2, <1>4, <1>5, <1>6, <1>7, <1>8 DEF Next, Serve
<1> QED
  BY <1>9 DEF Invited

\* A workspace's creator is recorded once.
LEMMA OwnerIdKept ==
  ASSUME TypeInv, [Next]_vars, NEW w \in Spaces, ownerId[w] # NoUser
  PROVE  ownerId'[w] = ownerId[w]
<1>1. CASE UNCHANGED vars \/ Tick
  BY <1>1 DEF vars, Tick, tables
<1>2. ASSUME NEW r \in Requests, BeginCreate(r) PROVE ownerId'[w] = ownerId[w]
  BY <1>2 DEF BeginCreate, TypeInv, TypeOK
<1>3. ASSUME NEW r \in Requests, Begin(r), ~BeginCreate(r)
      PROVE  UNCHANGED ownerId
  BY <1>3
     DEF Begin, tables, BeginInvite, BeginGetInvite, BeginMyInvites,
         BeginListPending, BeginAccept, BeginDecline, BeginRevoke, BeginRemove,
         BeginLeave, BeginUpdateRole
<1>4. ASSUME NEW r \in Requests, Serve(r) \/ Fail(r) PROVE UNCHANGED ownerId
  BY <1>4
     DEF Serve, Fail, tables, AddOwner, CheckInvitee, FindPending, ExpireOld,
         CreateInvite, RefreshInvite, ListRead, Lapse, FindMember, AddMember,
         MarkAccepted, RevokeRead, RevokeWrite, RemoveRead, RemoveWrite,
         UpdateRead, UpdateWrite
<1> QED
  BY <1>1, <1>2, <1>3, <1>4 DEF Next

\* A request untouched by a step still holds what it held.
LEMMA HeldKept ==
  ASSUME TypeInv, [Next]_vars, NEW q \in Requests, Held(call[q]),
         call'[q] = call[q]
  PROVE  Held(call[q])'
<1>1. CASE call[q].at \in Accepting
  BY <1>1, InvitesKept DEF Held, Accepting
<1>2. CASE call[q].at = "addOwner"
  <2>1. call[q].space \in Spaces /\ call[q].by \in Users
    BY <1>2 DEF TypeInv, LocalsSet
  <2>2. ownerId'[call[q].space] = ownerId[call[q].space]
    BY <1>2, <2>1, OwnerIdKept, UsersAssumption DEF Held
  <2> QED
    BY <1>2, <2>2 DEF Held, Accepting
<1>3. CASE call[q].at \notin Accepting \cup {"addOwner"}
  BY <1>3 DEF Held
<1> QED
  BY <1>1, <1>2, <1>3

\* Only three reads hand a request on to a statement that writes a member.
LEMMA OtherStepsHoldNothing ==
  ASSUME TypeInv, [Next]_vars, NEW q \in Requests, call'[q] # call[q],
         ~\E r \in Requests :
            BeginCreate(r) \/ BeginAccept(r) \/ FindMember(r) \/ AddMember(r)
  PROVE  call'[q].at \notin Accepting \cup {"addOwner"}
<1> DEFINE Free(l) == l \notin Accepting \cup {"addOwner"}
<1>1. ~(UNCHANGED vars \/ Tick)
  BY DEF vars, Tick, tables
<1>2. ASSUME NEW r \in Requests, NEW c, Goto(r, c), Free(c.at)
      PROVE  Free(call'[q].at)
  BY <1>2 DEF Goto, TypeInv, TypeOK
<1>3. ASSUME NEW r \in Requests, Reply(r) PROVE Free(call'[q].at)
  BY <1>2, <1>3, ReplyStep DEF Idle, Accepting
<1>4. ASSUME NEW r \in Requests, NEW l \in Label, Advance(r, l), Free(l)
      PROVE  Free(call'[q].at)
  BY <1>2, <1>4, AdvanceStep
<1>5. ASSUME NEW r \in Requests, NEW S, LapseThenReply(r, S)
      PROVE  Free(call'[q].at)
  BY <1>2, <1>5 DEF LapseThenReply, Idle, Accepting
<1>6. ASSUME NEW r \in Requests,
             BeginGetInvite(r) \/ BeginMyInvites(r)
      PROVE  Free(call'[q].at)
  BY <1>5, <1>6 DEF BeginGetInvite, BeginMyInvites
<1>7. ASSUME NEW r \in Requests,
             \/ BeginInvite(r) \/ BeginListPending(r) \/ BeginDecline(r)
             \/ BeginRevoke(r) \/ BeginRemove(r) \/ BeginLeave(r)
             \/ BeginUpdateRole(r)
      PROVE  Free(call'[q].at)
  <2> USE <1>2 DEF Idle, Accepting
  <2>1. CASE BeginInvite(r)
    BY <2>1 DEF BeginInvite
  <2>2. CASE BeginListPending(r)
    BY <2>2 DEF BeginListPending
  <2>3. CASE BeginDecline(r)
    BY <2>3 DEF BeginDecline
  <2>4. CASE BeginRevoke(r)
    BY <2>4 DEF BeginRevoke
  <2>5. CASE BeginRemove(r)
    BY <2>5 DEF BeginRemove
  <2>6. CASE BeginLeave(r)
    BY <2>6 DEF BeginLeave
  <2>7. CASE BeginUpdateRole(r)
    BY <2>7 DEF BeginUpdateRole
  <2> QED
    BY <1>7, <2>1, <2>2, <2>3, <2>4, <2>5, <2>6, <2>7
<1>8. ASSUME NEW r \in Requests,
             \/ AddOwner(r) \/ CreateInvite(r) \/ RefreshInvite(r)
             \/ MarkAccepted(r) \/ RevokeWrite(r) \/ RemoveWrite(r)
             \/ UpdateWrite(r) \/ Fail(r)
      PROVE  Free(call'[q].at)
  BY <1>3, <1>8
     DEF AddOwner, CreateInvite, RefreshInvite, MarkAccepted, RevokeWrite,
         RemoveWrite, UpdateWrite, Fail
<1>9. ASSUME NEW r \in Requests,
             CheckInvitee(r) \/ RemoveRead(r) \/ UpdateRead(r)
      PROVE  Free(call'[q].at)
  <2>1. \/ Reply(r) \/ Advance(r, "findPending") \/ Advance(r, "removeWrite")
        \/ Advance(r, "updateWrite")
    BY <1>9 DEF CheckInvitee, RemoveRead, UpdateRead
  <2> QED
    BY <1>3, <1>4, <2>1 DEF Label, Accepting
<1>10. ASSUME NEW r \in Requests, FindPending(r) PROVE Free(call'[q].at)
  <2>1. CASE Advance(r, "createInvite")
    BY <1>4, <2>1 DEF Label, Accepting
  <2>2. ASSUME NEW i, NEW l \in {"expireOld", "refreshInvite"},
               Goto(r, [call[r] EXCEPT !.at = l, !.inv = i])
        PROVE  Free(call'[q].at)
    BY <1>2, <2>2 DEF TypeInv, TypeOK, Call, Accepting
  <2> QED
    BY <1>10, <2>1, <2>2 DEF FindPending
<1>11. ASSUME NEW r \in Requests, ExpireOld(r) PROVE Free(call'[q].at)
  <2>1. Goto(r, [call[r] EXCEPT !.at = "createInvite", !.inv = 0])
    BY <1>11 DEF ExpireOld
  <2> QED
    BY <1>2, <2>1 DEF TypeInv, TypeOK, Call, Accepting
<1>12. ASSUME NEW r \in Requests, ListRead(r) PROVE Free(call'[q].at)
  <2>1. CASE Reply(r)
    BY <1>3, <2>1
  <2>2. ASSUME NEW S, LapseThenReply(r, S) PROVE Free(call'[q].at)
    BY <1>5, <2>2
  <2> QED
    BY <1>12, <2>1, <2>2 DEF ListRead
<1>13. ASSUME NEW r \in Requests, Lapse(r) PROVE Free(call'[q].at)
  <2>1. CASE Reply(r)
    BY <1>3, <2>1
  <2>2. ASSUME NEW S, call' = [call EXCEPT ![r].todo = S]
        PROVE  Free(call'[q].at)
    <3>1. call[r].at = "lapse"
      BY <1>13 DEF Lapse, At
    <3> QED
      BY <2>2, <3>1 DEF TypeInv, TypeOK, Call, Accepting
  <2> QED
    BY <1>13, <2>1, <2>2 DEF Lapse
<1>14. ASSUME NEW r \in Requests, RevokeRead(r) PROVE Free(call'[q].at)
  <2>1. CASE Reply(r)
    BY <1>3, <2>1
  <2>2. CASE Goto(r, [Idle EXCEPT !.at = "revokeWrite", !.inv = call[r].inv])
    BY <1>2, <2>2 DEF Idle, Accepting
  <2> QED
    BY <1>14, <2>1, <2>2 DEF RevokeRead
<1> QED
  BY <1>1, <1>6, <1>7, <1>8, <1>9, <1>10, <1>11, <1>12, <1>13, <1>14
     DEF Next, Begin, Serve

\* A new member is the creator or was invited.
LEMMA JoinsInvited ==
  ASSUME TypeInv, ProvenanceInv, [Next]_vars, NEW w \in Spaces, NEW u \in Users,
         IsMember(w, u)'
  PROVE  IsMember(w, u) \/ Invited(w, u) \/ u = ownerId[w]
<1>1. ASSUME NEW r \in Requests, AddOwner(r)
      PROVE  IsMember(w, u) \/ u = ownerId[w]
  BY <1>1 DEF AddOwner, At, SetRole, IsMember, ProvenanceInv, Held, TypeInv,
     TypeOK
<1>2. ASSUME NEW r \in Requests, AddMember(r)
      PROVE  IsMember(w, u) \/ Invited(w, u)
  BY <1>2 DEF AddMember, At, SetRole, IsMember, ProvenanceInv, Held, Accepting,
     TypeInv, TypeOK
<1>3. ASSUME NEW r \in Requests, RemoveWrite(r) PROVE IsMember(w, u)
  BY <1>3 DEF RemoveWrite, DropMember, SetRole, IsMember, TypeInv, TypeOK
<1>4. ASSUME NEW r \in Requests, UpdateWrite(r) PROVE IsMember(w, u)
  BY <1>4 DEF UpdateWrite, SetRole, IsMember, TypeInv, TypeOK
<1>5. CASE UNCHANGED members
  BY <1>5 DEF IsMember
<1> QED
  BY <1>1, <1>2, <1>3, <1>4, <1>5, OtherStepsKeepMembers

LEMMA ProvenanceInit == Init => ProvenanceInv
BY DEF Init, Idle, ProvenanceInv, Provenance, Held, IsMember, Accepting

LEMMA ProvenanceStep ==
  ASSUME TypeInv, ProvenanceInv, [Next]_vars
  PROVE  ProvenanceInv'
<1>1. Provenance'
  <2> SUFFICES ASSUME NEW w \in Spaces, NEW u \in Users, IsMember(w, u)',
                      u # ownerId'[w]
               PROVE  Invited(w, u)'
    BY DEF Provenance, Invited
  <2>1. u # ownerId[w]
    BY OwnerIdKept, UsersAssumption
  <2>2. Invited(w, u)
    BY <2>1, JoinsInvited DEF ProvenanceInv, Provenance, Invited
  <2> QED
    BY <2>2, InvitesKept
<1>2. ASSUME NEW q \in Requests PROVE Held(call[q])'
  <2>1. CASE call'[q] = call[q]
    BY <2>1, HeldKept DEF ProvenanceInv
  <2>2. ASSUME NEW r \in Requests, BeginCreate(r), call'[q] # call[q]
        PROVE  Held(call[q])'
    <3>1. PICK w \in Spaces, u \in Users :
            /\ ownerId' = [ownerId EXCEPT ![w] = u]
            /\ Goto(r, [Idle EXCEPT !.at = "addOwner", !.by = u, !.space = w])
      BY <2>2 DEF BeginCreate
    <3>2. /\ call'[q].at = "addOwner" /\ call'[q].by = u
          /\ call'[q].space = w
      BY <2>2, <3>1 DEF Goto, Idle, TypeInv, TypeOK
    <3>3. ownerId'[w] = u
      BY <3>1 DEF TypeInv, TypeOK
    <3> QED
      BY <3>2, <3>3 DEF Held, Accepting
  <2>3. ASSUME NEW r \in Requests, BeginAccept(r), call'[q] # call[q]
        PROVE  Held(call[q])'
    <3>1. PICK i \in InviteIds, u \in Users :
            /\ MayAnswer(i)
            /\ \/ LapseThenReply(r, {i})
               \/ /\ AddressedTo(i, u)
                  /\ Goto(r, [Idle EXCEPT !.at = "findMember", !.by = u,
                                          !.inv = i,
                                          !.space = invites[i].space,
                                          !.role = invites[i].role])
      BY <2>3 DEF BeginAccept
    <3>2. CASE LapseThenReply(r, {i})
      BY <2>3, <3>2
         DEF LapseThenReply, Goto, Idle, TypeInv, TypeOK, Held, Accepting
    <3>3. CASE /\ AddressedTo(i, u)
               /\ Goto(r, [Idle EXCEPT !.at = "findMember", !.by = u, !.inv = i,
                                       !.space = invites[i].space,
                                       !.role = invites[i].role])
      <4>1. /\ call'[q].at = "findMember" /\ call'[q].by = u
            /\ call'[q].space = invites[i].space
        BY <2>3, <3>3 DEF Goto, Idle, TypeInv, TypeOK
      <4>2. PICK w : w = invites[i].space
        OBVIOUS
      <4>3. Invited(w, u)
        BY <3>1, <3>3, <4>2 DEF MayAnswer, Exists, AddressedTo, Invited
      <4>4. Invited(w, u)'
        BY <4>3, InvitesKept
      <4> QED
        BY <4>1, <4>2, <4>4 DEF Held, Invited
    <3> QED
      BY <3>1, <3>2, <3>3
  <2>4. ASSUME NEW r \in Requests, FindMember(r) \/ AddMember(r),
               call'[q] # call[q]
        PROVE  Held(call[q])'
    <3>1. call[r].at \in Accepting
      BY <2>4 DEF FindMember, AddMember, At, Accepting
    <3>2. \/ Reply(r)
          \/ \E l \in {"addMember", "markAccepted"} : Advance(r, l)
      BY <2>4 DEF FindMember, AddMember
    <3>3. CASE Reply(r)
      BY <2>4, <3>3 DEF Reply, Idle, TypeInv, TypeOK, Held, Accepting
    <3>4. ASSUME NEW l \in {"addMember", "markAccepted"}, Advance(r, l)
          PROVE  Held(call[q])'
      <4>1. /\ q = r
            /\ call'[q].at = l
            /\ call'[q].space = call[q].space
            /\ call'[q].by = call[q].by
        BY <2>4, <3>4 DEF Advance, TypeInv, TypeOK, Call
      <4>2. Invited(call[q].space, call[q].by)
        BY <3>1, <4>1 DEF ProvenanceInv, Held
      <4> QED
        BY <4>1, <4>2, InvitesKept DEF Held, Invited
    <3> QED
      BY <3>2, <3>3, <3>4
  <2>5. CASE /\ call'[q] # call[q]
             /\ ~\E r \in Requests : \/ BeginCreate(r) \/ BeginAccept(r)
                                     \/ FindMember(r) \/ AddMember(r)
    BY <2>5, OtherStepsHoldNothing DEF Held
  <2> QED
    BY <2>1, <2>2, <2>3, <2>4, <2>5
<1> QED
  BY <1>1, <1>2 DEF ProvenanceInv

\* Nobody is a member uninvited, the creator apart, whatever interleaves and
\* whatever roles the invites offer.
THEOREM NoUninvitedMember == Spec => []Provenance
<1>1. Init => TypeInv /\ ProvenanceInv
  BY TypeInit, ProvenanceInit
<1>2. TypeInv /\ ProvenanceInv /\ [Next]_vars => (TypeInv /\ ProvenanceInv)'
  BY TypeStep, ProvenanceStep
<1>3. ProvenanceInv => Provenance
  BY DEF ProvenanceInv
<1> QED
  BY <1>1, <1>2, <1>3, PTL DEF Spec

-----------------------------------------------------------------------------
(***************************************************************************)
(* One request at a time.  Nothing comes between a handler's read and its  *)
(* write then, so what was read still holds when a later statement relies  *)
(* on it: that is what Current says of the locals, and with it the         *)
(* properties below hold for any invites, OWNER ones included.  The runs   *)
(* ws_ownerless and ws_revoked_join show two of them broken as soon as two *)
(* requests overlap.                                                       *)
(***************************************************************************)

Alone == \A r, q \in Requests : r = q

Owned(w) == \E u \in Users : IsOwner(w, u)

\* What the locals c of the handler in flight say of the tables.
Current(c) ==
  /\ c.at = "addOwner" => c.by = ownerId[c.space]
  /\ c.at \in Inviting => Owned(c.space)
  /\ c.at = "createInvite" => NonePending(c.space, c.user)
  /\ c.at = "expireOld" => /\ Pending(c.inv)
                           /\ invites[c.inv].space = c.space
                           /\ invites[c.inv].email = c.user
  /\ c.at \in Accepting => /\ Pending(c.inv)
                           /\ invites[c.inv].space = c.space
                           /\ invites[c.inv].email = c.by
                           /\ invites[c.inv].role = c.role
  /\ c.at = "revokeWrite" => Pending(c.inv)
  /\ \A i \in c.todo : c.at = "lapse" /\ Pending(i)
  /\ c.at = "removeWrite" => ~IsOwner(c.space, c.user)
  /\ c.at \in {"updateRead", "updateWrite"} =>
       c.by \in Users /\ c.by # c.user /\ IsOwner(c.space, c.by)

InvitesOwned == \A i \in 1..issued : Owned(invites[i].space)

SerialInv ==
  /\ HasOwner
  /\ OneOpenInvite
  /\ InvitesOwned
  /\ \A r \in Requests : Current(call[r])

LEMMA SerialInit == Init => SerialInv
BY DEF Init, Idle, SerialInv, HasOwner, OneOpenInvite, InvitesOwned, Current,
       IsMember, Inviting, Accepting

LEMMA IdleCurrent == Current(Idle)
BY DEF Idle, Current, Inviting, Accepting

\* The one request is the one that moves.
LEMMA SerialMove ==
  ASSUME Alone, NEW r \in Requests, Current(call[r])', HasOwner', OneOpenInvite',
         InvitesOwned'
  PROVE  SerialInv'
BY DEF Alone, SerialInv

\* A step that only reads.
LEMMA SerialRead ==
  ASSUME Alone, TypeInv, SerialInv, NEW r \in Requests, NEW c, Goto(r, c),
         Current(c), UNCHANGED tables
  PROVE  SerialInv'
<1>1. call'[r] = c
  BY DEF Goto, TypeInv, TypeOK
<1>2. UNCHANGED <<ownerId, members, invites, issued>>
  BY DEF tables
<1>3. Current(call[r])'
  BY <1>1, <1>2 DEF Current, NonePending, Owned, IsOwner, Pending
<1>4. HasOwner' /\ OneOpenInvite' /\ InvitesOwned'
  BY <1>2 DEF SerialInv, HasOwner, OneOpenInvite, InvitesOwned, Owned, IsMember,
     IsOwner, Pending
<1> QED
  BY <1>3, <1>4, SerialMove

\* A step that answers a PENDING invite.
LEMMA SerialStatus ==
  ASSUME Alone, TypeInv, SerialInv, NEW r \in Requests, NEW i \in 1..issued,
         NEW status \in Status \ {"PENDING"}, SetStatus(i, status),
         Current(call[r])', UNCHANGED <<ownerId, members, issued>>
  PROVE  SerialInv'
<1>1. \A j \in 1..issued : /\ invites'[j].space = invites[j].space
                           /\ invites'[j].email = invites[j].email
                           /\ Pending(j)' => Pending(j)
  BY BoundsAssumption
     DEF SetStatus, Pending, TypeInv, TypeOK, InviteIds, Invite
<1>2. OneOpenInvite'
  BY <1>1 DEF SerialInv, OneOpenInvite
<1>3. HasOwner' /\ InvitesOwned'
  BY <1>1 DEF SerialInv, HasOwner, InvitesOwned, Owned, IsMember, IsOwner
<1> QED
  BY <1>2, <1>3, SerialMove

\* A step that changes a role or adds or deletes a row of the members table.
LEMMA SerialRole ==
  ASSUME Alone, TypeInv, SerialInv, NEW r \in Requests,
         NEW w \in Spaces, NEW u \in Users, NEW role \in Role \cup {NoRole},
         SetRole(w, u, role), Current(call[r])',
         role # "OWNER" => ~IsOwner(w, u) \/ \E v \in Users \ {u} : IsOwner(w, v),
         role \notin {"OWNER", NoRole} => Owned(w),
         UNCHANGED <<ownerId, invites, issued>>
  PROVE  SerialInv'
<1>1. \A x \in Spaces, y \in Users :
        members'[x][y] = IF x = w /\ y = u THEN role ELSE members[x][y]
  BY DEF SetRole, TypeInv, TypeOK
<1>2. ASSUME NEW x \in Spaces, Owned(x) PROVE Owned(x)'
  <2>1. PICK y \in Users : IsOwner(x, y)
    BY <1>2 DEF Owned
  <2>2. CASE x # w \/ y # u \/ role = "OWNER"
    BY <1>1, <2>1, <2>2 DEF Owned, IsOwner
  <2>3. CASE x = w /\ y = u /\ role # "OWNER"
    BY <1>1, <2>1, <2>3 DEF Owned, IsOwner
  <2> QED BY <2>2, <2>3
<1>3. ASSUME NEW x \in Spaces, NEW y \in Users, IsMember(x, y)' PROVE Owned(x)'
  <2>1. CASE IsMember(x, y)
    BY <1>2, <2>1 DEF SerialInv, HasOwner, Owned
  <2>2. CASE ~IsMember(x, y)
    <3>1. x = w /\ y = u /\ role # NoRole /\ members'[w][u] = role
      BY <1>1, <1>3, <2>2 DEF IsMember
    <3>2. CASE role = "OWNER"
      BY <3>1, <3>2 DEF Owned, IsOwner
    <3>3. CASE role # "OWNER"
      BY <1>2, <3>1, <3>3
    <3> QED BY <3>2, <3>3
  <2> QED BY <2>1, <2>2
<1>4. HasOwner'
  BY <1>3 DEF HasOwner, Owned
<1>5. InvitesOwned'
  BY <1>2, InviteType DEF SerialInv, InvitesOwned
<1>6. OneOpenInvite'
  BY DEF SerialInv, OneOpenInvite, Pending
<1> QED
  BY <1>4, <1>5, <1>6, SerialMove

LEMMA SerialReads ==
  ASSUME Alone, TypeInv, SerialInv, NEW r \in Requests,
         \/ BeginInvite(r) \/ BeginGetInvite(r) \/ BeginMyInvites(r)
         \/ BeginListPending(r) \/ BeginAccept(r) \/ BeginDecline(r)
         \/ BeginRevoke(r) \/ BeginRemove(r) \/ BeginLeave(r)
         \/ BeginUpdateRole(r)
  PROVE  SerialInv'
<1> USE DEF Inviting, Accepting, Current, Idle
<1>1. CASE BeginInvite(r)
  BY <1>1, SerialRead DEF BeginInvite, Owned
<1>2. CASE BeginListPending(r) \/ BeginRevoke(r) \/ BeginRemove(r)
  BY <1>2, SerialRead DEF BeginListPending, BeginRevoke, BeginRemove
<1>3. CASE BeginLeave(r)
  BY <1>3, SerialRead DEF BeginLeave, Removable
<1>4. CASE BeginUpdateRole(r)
  BY <1>4, SerialRead DEF BeginUpdateRole, NotSelf
<1>5. CASE BeginGetInvite(r)
  BY <1>5, SerialRead DEF BeginGetInvite, LapseThenReply, Lapsed
<1>6. CASE BeginMyInvites(r)
  BY <1>6, SerialRead DEF BeginMyInvites, LapseThenReply, Lapsed
<1>7. CASE BeginAccept(r)
  BY <1>7, SerialRead
     DEF BeginAccept, LapseThenReply, MayAnswer, AddressedTo
<1>8. CASE BeginDecline(r)
  BY <1>8, SerialRead DEF BeginDecline, MayAnswer
<1> QED
  BY <1>1, <1>2, <1>3, <1>4, <1>5, <1>6, <1>7, <1>8

LEMMA SerialStep ==
  ASSUME Alone, TypeInv, SerialInv, [Next]_vars
  PROVE  SerialInv'
<1> USE DEF Inviting, Accepting
<1>1. CASE UNCHANGED vars \/ Tick
  BY <1>1 DEF vars, Tick, tables, SerialInv, HasOwner, OneOpenInvite,
     InvitesOwned, Owned, IsMember, IsOwner, Current, Pending, NonePending
<1>2. ASSUME NEW r \in Requests, BeginCreate(r) PROVE SerialInv'
  <2>1. PICK w \in Spaces, u \in Users :
          /\ ownerId' = [ownerId EXCEPT ![w] = u]
          /\ Goto(r, [Idle EXCEPT !.at = "addOwner", !.by = u, !.space = w])
          /\ UNCHANGED <<members, invites, issued, now>>
    BY <1>2 DEF BeginCreate
  <2>2. /\ call'[r].at = "addOwner" /\ call'[r].by = u /\ call'[r].space = w
        /\ call'[r].todo = {} /\ ownerId'[w] = u
    BY <2>1 DEF Goto, Idle, TypeInv, TypeOK
  <2>3. Current(call[r])'
    BY <2>2 DEF Current
  <2>4. HasOwner' /\ OneOpenInvite' /\ InvitesOwned'
    BY <2>1 DEF SerialInv, HasOwner, OneOpenInvite, InvitesOwned, Owned,
       IsMember, IsOwner, Pending
  <2> QED
    BY <2>3, <2>4, SerialMove
<1>3. ASSUME NEW r \in Requests,
             \/ BeginInvite(r) \/ BeginGetInvite(r) \/ BeginMyInvites(r)
             \/ BeginListPending(r) \/ BeginAccept(r) \/ BeginDecline(r)
             \/ BeginRevoke(r) \/ BeginRemove(r) \/ BeginLeave(r)
             \/ BeginUpdateRole(r)
      PROVE  SerialInv'
  BY <1>3, SerialReads
<1>4. ASSUME NEW r \in Requests, Reply(r) PROVE Current(call[r])'
  BY <1>4 DEF Reply, Idle, Current, TypeInv, TypeOK
<1>5. ASSUME NEW r \in Requests, AddOwner(r) PROVE SerialInv'
  <2>1. call[r].space \in Spaces /\ call[r].by \in Users
    BY <1>5 DEF AddOwner, At, TypeInv, LocalsSet
  <2> QED
    BY <1>4, <1>5, <2>1, SerialRole DEF AddOwner, Role
<1>6. ASSUME NEW r \in Requests, CheckInvitee(r) PROVE SerialInv'
  BY <1>6, SerialRead, AdvanceStep, ReplyStep, IdleCurrent
     DEF CheckInvitee, At, Label, SerialInv, Current
<1>7. ASSUME NEW r \in Requests, FindPending(r) PROVE SerialInv'
  <2>1. call[r].at = "findPending" /\ UNCHANGED tables /\ Current(call[r])
    BY <1>7 DEF FindPending, At, SerialInv
  <2>2. CASE NonePending(call[r].space, call[r].user) /\ Advance(r, "createInvite")
    <3>1. PICK c \in Call :
            /\ Goto(r, c)
            /\ c.at = "createInvite" /\ c.by = call[r].by
            /\ c.space = call[r].space /\ c.user = call[r].user
            /\ c.todo = call[r].todo
      BY <2>2, AdvanceStep DEF Label
    <3>2. Current(c)
      BY <2>1, <2>2, <3>1 DEF Current
    <3> QED BY <2>1, <3>1, <3>2, SerialRead
  <2>3. ASSUME NEW i \in InviteIds, NEW l \in {"expireOld", "refreshInvite"},
               NewestPending(call[r].space, call[r].user, i),
               Goto(r, [call[r] EXCEPT !.at = l, !.inv = i])
        PROVE  SerialInv'
    <3> DEFINE c == [call[r] EXCEPT !.at = l, !.inv = i]
    <3>1. /\ c.at = l /\ c.inv = i /\ c.space = call[r].space
          /\ c.user = call[r].user /\ c.todo = call[r].todo
      BY DEF TypeInv, TypeOK, Call
    <3>2. Current(c)
      BY <2>1, <2>3, <3>1 DEF Current, NewestPending
    <3> HIDE DEF c
    <3> QED BY <2>1, <2>3, <3>2, SerialRead DEF c
  <2> QED
    BY <1>7, <2>2, <2>3 DEF FindPending
<1>8. ASSUME NEW r \in Requests, ExpireOld(r) PROVE SerialInv'
  <2>0. PICK i : i = call[r].inv
    OBVIOUS
  <2>1. /\ call[r].at = "expireOld" /\ i \in 1..issued /\ Current(call[r])
        /\ i \in InviteIds /\ LocalsSet(call[r], issued)
    BY <1>8, <2>0, InviteType DEF ExpireOld, At, TypeInv, LocalsSet, SerialInv
  <2>2. /\ call'[r].at = "createInvite" /\ call'[r].space = call[r].space
        /\ call'[r].user = call[r].user /\ call'[r].todo = call[r].todo
    BY <1>8 DEF ExpireOld, Goto, TypeInv, TypeOK, Call
  <2>3. /\ invites' = [invites EXCEPT ![i].status = "EXPIRED"]
        /\ UNCHANGED <<ownerId, members, issued>>
    BY <1>8, <2>0 DEF ExpireOld, SetStatus
  <2>4. \A j \in 1..issued : /\ invites'[j].space = invites[j].space
                             /\ invites'[j].email = invites[j].email
                             /\ Pending(j)' => Pending(j) /\ j # i
    BY <2>1, <2>3, BoundsAssumption DEF Pending, TypeInv, TypeOK, InviteIds, Invite
  <2>5. NonePending(call[r].space, call[r].user)'
    BY <2>0, <2>1, <2>2, <2>3, <2>4 DEF NonePending, Current, SerialInv, OneOpenInvite
  <2>6. call[r].todo = {}
    BY <2>1 DEF Current
  <2>7. Current(call[r])'
    BY <2>1, <2>2, <2>3, <2>5, <2>6 DEF Current, Owned, IsOwner, NonePending, Pending
  <2> QED
    BY <1>8, <2>0, <2>1, <2>3, <2>7, SerialStatus DEF ExpireOld, Status
<1>9. ASSUME NEW r \in Requests, CreateInvite(r) PROVE SerialInv'
  <2> DEFINE c == call[r]
  <2>1. c.at = "createInvite" /\ Current(c) /\ c.space \in Spaces
    BY <1>9 DEF CreateInvite, At, TypeInv, LocalsSet, SerialInv
  <2>2. /\ Owned(c.space) /\ NonePending(c.space, c.user)
        /\ issued' = issued + 1 /\ UNCHANGED <<ownerId, members>>
    BY <1>9, <2>1 DEF CreateInvite, Current
  <2>3. \A i \in 1..issued' :
          \/ /\ i \in 1..issued /\ i # issued + 1
             /\ invites'[i] = invites[i]
          \/ /\ i = issued + 1
             /\ invites'[i].space = c.space
             /\ invites'[i].email = c.user
    BY <1>9, BoundsAssumption DEF CreateInvite, TypeInv, TypeOK, InviteIds
  <2>4. InvitesOwned'
    BY <2>2, <2>3 DEF SerialInv, InvitesOwned, Owned, IsOwner
  <2>5. OneOpenInvite'
    <3>1. SUFFICES ASSUME NEW i \in 1..issued', NEW j \in 1..issued',
                          Pending(i)', Pending(j)',
                          invites'[i].space = invites'[j].space,
                          invites'[i].email = invites'[j].email
                   PROVE  i = j
      BY DEF OneOpenInvite
    <3>2. CASE i \in 1..issued /\ j \in 1..issued
      <4>1. invites'[i] = invites[i] /\ invites'[j] = invites[j]
        BY <2>3, <3>2 DEF TypeInv, TypeOK
      <4> QED BY <3>1, <3>2, <4>1 DEF SerialInv, OneOpenInvite, Pending
    <3>3. CASE i = issued + 1 /\ j = issued + 1
      BY <3>3
    <3>4. ASSUME NEW k \in 1..issued, invites'[k] = invites[k], Pending(k)',
                 invites[k].space = c.space, invites[k].email = c.user
          PROVE  FALSE
      BY <2>2, <3>4 DEF NonePending, Pending
    <3> QED BY <2>3, <3>1, <3>2, <3>3, <3>4
  <2>6. HasOwner'
    BY <2>2 DEF SerialInv, HasOwner, IsMember, IsOwner
  <2>7. Current(call[r])'
    BY <1>4, <1>9 DEF CreateInvite
  <2> QED
    BY <2>4, <2>5, <2>6, <2>7, SerialMove
<1>10. ASSUME NEW r \in Requests, RefreshInvite(r) PROVE SerialInv'
  <2>1. call[r].inv \in 1..issued
    BY <1>10 DEF RefreshInvite, At, TypeInv, LocalsSet
  <2>2. /\ UNCHANGED <<ownerId, members, issued>>
        /\ \A i \in 1..issued : /\ invites'[i].space = invites[i].space
                                /\ invites'[i].email = invites[i].email
                                /\ invites'[i].status = invites[i].status
    BY <1>10, <2>1, BoundsAssumption
       DEF RefreshInvite, TypeInv, TypeOK, InviteIds, Invite
  <2>3. HasOwner' /\ OneOpenInvite' /\ InvitesOwned'
    BY <2>2 DEF SerialInv, HasOwner, OneOpenInvite, InvitesOwned, Owned,
       IsMember, IsOwner, Pending
  <2>4. Current(call[r])'
    BY <1>4, <1>10 DEF RefreshInvite
  <2> QED
    BY <2>3, <2>4, SerialMove
<1>11. ASSUME NEW r \in Requests, NEW S \in SUBSET (1..issued), LapseThenReply(r, S),
              \A i \in S : Pending(i), UNCHANGED tables
       PROVE  SerialInv'
  BY <1>11, SerialRead DEF LapseThenReply, Idle, Current
<1>12. ASSUME NEW r \in Requests, ListRead(r) PROVE SerialInv'
  <2>1. CASE Reply(r)
    BY <1>12, <2>1, SerialRead, ReplyStep, IdleCurrent DEF ListRead
  <2>2. ASSUME NEW S \in SUBSET (1..issued), LapseThenReply(r, S),
               \A i \in S : Lapsed(i)
        PROVE  SerialInv'
    BY <1>11, <1>12, <2>2 DEF ListRead, Lapsed
  <2> QED
    BY <1>12, <2>1, <2>2 DEF ListRead
<1>13. ASSUME NEW r \in Requests, Lapse(r) PROVE SerialInv'
  <2>1. PICK i \in call[r].todo :
          /\ SetStatus(i, "EXPIRED")
          /\ \/ Reply(r)
             \/ call' = [call EXCEPT ![r].todo = @ \ {i}]
          /\ call[r].at = "lapse"
          /\ UNCHANGED <<ownerId, members, issued, now>>
    BY <1>13 DEF Lapse, At
  <2>2. i \in 1..issued /\ call[r].todo \subseteq 1..issued
    BY <2>1 DEF TypeInv, LocalsSet
  <2>3. CASE Reply(r)
    BY <1>4, <2>1, <2>2, <2>3, SerialStatus DEF Status
  <2>4. CASE call' = [call EXCEPT ![r].todo = @ \ {i}]
    <3>1. call'[r].at = "lapse" /\ call'[r].todo = call[r].todo \ {i}
      BY <2>1, <2>4 DEF TypeInv, TypeOK, Call
    <3>2. \A j \in 1..issued : j # i => invites'[j] = invites[j]
      BY <2>1, BoundsAssumption DEF SetStatus, TypeInv, TypeOK, InviteIds
    <3>3. Current(call[r])
      BY DEF SerialInv
    <3>4. Current(call[r])'
      BY <2>2, <3>1, <3>2, <3>3 DEF Current, Pending
    <3> QED
      BY <2>1, <2>2, <3>4, SerialStatus DEF Status
  <2> QED
    BY <2>1, <2>3, <2>4
<1>14. ASSUME NEW r \in Requests, FindMember(r) PROVE SerialInv'
  <2>1. call[r].at = "findMember" /\ UNCHANGED tables /\ Current(call[r])
    BY <1>14 DEF FindMember, At, SerialInv
  <2>2. PICK l \in {"addMember", "markAccepted"} : Advance(r, l)
    BY <1>14 DEF FindMember
  <2>3. PICK c \in Call :
          /\ Goto(r, c)
          /\ c.at = l /\ c.by = call[r].by /\ c.space = call[r].space
          /\ c.role = call[r].role /\ c.inv = call[r].inv /\ c.todo = call[r].todo
    BY <2>2, AdvanceStep DEF Label
  <2>4. Current(c)
    BY <2>1, <2>3 DEF Current
  <2> QED BY <2>1, <2>3, <2>4, SerialRead
<1>15. ASSUME NEW r \in Requests, AddMember(r) PROVE SerialInv'
  <2> DEFINE c == call[r]
  <2>1. /\ c.at = "addMember" /\ Current(c) /\ c.space \in Spaces /\ c.by \in Users
        /\ c.role \in Role /\ c.inv \in 1..issued
    BY <1>15 DEF AddMember, At, TypeInv, LocalsSet, SerialInv
  <2>2. CASE Reply(r) /\ UNCHANGED members
    BY <1>15, <2>2, SerialRead, ReplyStep, IdleCurrent DEF AddMember, tables
  <2>3. CASE /\ MayInsert(c.space, c.by)
             /\ SetRole(c.space, c.by, c.role)
             /\ Advance(r, "markAccepted")
    <3>1. /\ call'[r].at = "markAccepted" /\ call'[r].by = c.by
          /\ call'[r].space = c.space /\ call'[r].role = c.role
          /\ call'[r].inv = c.inv /\ call'[r].todo = c.todo
      BY <2>3 DEF Advance, TypeInv, TypeOK, Call
    <3>2. UNCHANGED <<ownerId, invites, issued>>
      BY <1>15 DEF AddMember
    <3>3. Current(call[r])'
      BY <2>1, <3>1, <3>2 DEF Current, Pending
    <3>4. ~IsOwner(c.space, c.by) /\ Owned(c.space)
      BY <2>1, <2>3 DEF MayInsert, IsMember, IsOwner, NoRole, Current, SerialInv,
         InvitesOwned
    <3> QED
      BY <2>1, <2>3, <3>2, <3>3, <3>4, SerialRole
  <2> QED
    BY <1>15, <2>2, <2>3 DEF AddMember
<1>16. ASSUME NEW r \in Requests, MarkAccepted(r) \/ RevokeWrite(r) PROVE SerialInv'
  <2>1. call[r].inv \in 1..issued
    BY <1>16 DEF MarkAccepted, RevokeWrite, At, TypeInv, LocalsSet
  <2> QED
    BY <1>4, <1>16, <2>1, SerialStatus DEF MarkAccepted, RevokeWrite, Status
<1>17. ASSUME NEW r \in Requests, RevokeRead(r) PROVE SerialInv'
  <2>1. CASE Reply(r)
    BY <1>17, <2>1, SerialRead, ReplyStep, IdleCurrent DEF RevokeRead
  <2>2. CASE /\ Pending(call[r].inv)
             /\ Goto(r, [Idle EXCEPT !.at = "revokeWrite", !.inv = call[r].inv])
    BY <1>17, <2>2, SerialRead DEF RevokeRead, Idle, Current
  <2> QED
    BY <1>17, <2>1, <2>2 DEF RevokeRead, MayAnswer
<1>18. ASSUME NEW r \in Requests, RemoveRead(r) PROVE SerialInv'
  <2>1. CASE Reply(r)
    BY <1>18, <2>1, SerialRead, ReplyStep, IdleCurrent DEF RemoveRead
  <2>2. CASE ~IsOwner(call[r].space, call[r].user) /\ Advance(r, "removeWrite")
    BY <1>18, <2>2, SerialRead, AdvanceStep
       DEF RemoveRead, At, Label, SerialInv, Current
  <2> QED
    BY <1>18, <2>1, <2>2 DEF RemoveRead, Removable
<1>19. ASSUME NEW r \in Requests, RemoveWrite(r) PROVE SerialInv'
  <2>1. /\ call[r].space \in Spaces /\ call[r].user \in Users
        /\ ~IsOwner(call[r].space, call[r].user)
    BY <1>19
       DEF RemoveWrite, At, TypeInv, LocalsSet, Managing, SerialInv, Current
  <2> QED
    BY <1>4, <1>19, <2>1, SerialRole DEF RemoveWrite, DropMember
<1>20. ASSUME NEW r \in Requests, UpdateRead(r) PROVE SerialInv'
  BY <1>20, SerialRead, AdvanceStep, ReplyStep, IdleCurrent
     DEF UpdateRead, At, Label, SerialInv, Current
<1>21. ASSUME NEW r \in Requests, UpdateWrite(r) PROVE SerialInv'
  <2> DEFINE c == call[r]
  <2>1. /\ c.space \in Spaces /\ c.user \in Users /\ c.role \in Role
        /\ c.by \in Users \ {c.user} /\ IsOwner(c.space, c.by)
    BY <1>21
       DEF UpdateWrite, At, TypeInv, LocalsSet, Managing, SerialInv, Current
  <2>2. Current(call[r])' /\ UNCHANGED <<ownerId, invites, issued>>
    BY <1>4, <1>21 DEF UpdateWrite
  <2>3. CASE SetRole(c.space, c.user, c.role)
    BY <2>1, <2>2, <2>3, SerialRole DEF Owned
  <2>4. CASE UNCHANGED members
    BY <1>21, <2>4, SerialRead, ReplyStep, IdleCurrent DEF UpdateWrite, tables
  <2> QED
    BY <1>21, <2>3, <2>4 DEF UpdateWrite
<1>22. ASSUME NEW r \in Requests, Fail(r) PROVE SerialInv'
  BY <1>22, SerialRead, ReplyStep, IdleCurrent DEF Fail
<1> QED
  BY <1>1, <1>2, <1>3, <1>5, <1>6, <1>7, <1>8, <1>9, <1>10, <1>12, <1>13, <1>14,
     <1>15, <1>16, <1>17, <1>18, <1>19, <1>20, <1>21, <1>22 DEF Next, Begin, Serve

LEMMA SerialInvariant == ASSUME Alone PROVE Spec => [](TypeInv /\ SerialInv)
<1>1. Init => TypeInv /\ SerialInv
  BY TypeInit, SerialInit
<1>2. TypeInv /\ SerialInv /\ [Next]_vars => (TypeInv /\ SerialInv)'
  BY TypeStep, SerialStep
<1> QED
  BY <1>1, <1>2, PTL DEF Spec

\* Requests served one at a time leave no workspace with members and no OWNER.
THEOREM SerialRequestsKeepAnOwner == ASSUME Alone PROVE Spec => []HasOwner
<1>1. SerialInv => HasOwner
  BY DEF SerialInv
<1> QED
  BY <1>1, SerialInvariant, PTL

\* Inviting refreshes or replaces: one PENDING invite per workspace and e-mail.
THEOREM SerialInvitesAreOne == ASSUME Alone PROVE Spec => []OneOpenInvite
<1>1. SerialInv => OneOpenInvite
  BY DEF SerialInv
<1> QED
  BY <1>1, SerialInvariant, PTL

LEMMA SerialJoins ==
  ASSUME TypeInv, SerialInv, [Next]_vars, NEW w \in Spaces, NEW u \in Users,
         ~IsMember(w, u), IsMember(w, u)', u # ownerId[w]
  PROVE  \E i \in 1..issued : /\ Pending(i)
                              /\ invites[i].space = w
                              /\ invites[i].email = u
                              /\ invites[i].role = members'[w][u]
<1> USE DEF IsMember
<1>1. ASSUME NEW r \in Requests, AddOwner(r) PROVE FALSE
  <2>1. call[r].by = ownerId[call[r].space]
    BY <1>1 DEF AddOwner, At, SerialInv, Current
  <2> QED
    BY <1>1, <2>1 DEF AddOwner, SetRole, TypeInv, TypeOK
<1>2. ASSUME NEW r \in Requests, RemoveWrite(r) \/ UpdateWrite(r) PROVE FALSE
  BY <1>2 DEF RemoveWrite, UpdateWrite, DropMember, SetRole, TypeInv, TypeOK
<1>3. PICK r \in Requests : AddMember(r)
  BY <1>1, <1>2, OtherStepsKeepMembers
<1>4. call[r].at = "addMember" /\ Current(call[r]) /\ call[r].inv \in 1..issued
  BY <1>3 DEF AddMember, At, TypeInv, LocalsSet, Accepting, SerialInv
<1>5. w = call[r].space /\ u = call[r].by /\ members'[w][u] = call[r].role
  BY <1>3 DEF AddMember, SetRole, TypeInv, TypeOK
<1> QED
  BY <1>4, <1>5 DEF Current, Accepting

\* Whoever joins holds an invite that is open at that moment and says the role.
THEOREM SerialJoinsAreInvited == ASSUME Alone PROVE Spec => JoinsOnOpenInvite
<1>1. TypeInv /\ SerialInv /\ [Next]_vars =>
        [\A w \in Spaces, u \in Users : u # ownerId[w] => JoinsAsInvited(w, u)]_vars
  BY SerialJoins DEF JoinsAsInvited
<1> QED
  BY <1>1, SerialInvariant, PTL DEF Spec, JoinsOnOpenInvite

\* Only four statements write a status, each through an invite its handler read.
LEMMA SerialAnswers ==
  ASSUME TypeInv, SerialInv, [Next]_vars, NEW i \in 1..issued, ~Pending(i)
  PROVE  invites'[i].status = invites[i].status
<1>1. ASSUME NEW j \in 1..issued, NEW status, SetStatus(j, status), Pending(j)
      PROVE  invites'[i].status = invites[i].status
  BY <1>1, BoundsAssumption DEF SetStatus, TypeInv, TypeOK, InviteIds
<1>2. CASE UNCHANGED vars \/ Tick
  BY <1>2 DEF vars, Tick, tables
<1>3. ASSUME NEW r \in Requests, Begin(r) PROVE UNCHANGED invites
  BY <1>3
     DEF Begin, tables, BeginCreate, BeginInvite, BeginGetInvite,
         BeginMyInvites, BeginListPending, BeginAccept, BeginDecline,
         BeginRevoke, BeginRemove, BeginLeave, BeginUpdateRole
<1>4. ASSUME NEW r \in Requests,
             \/ AddOwner(r) \/ CheckInvitee(r) \/ FindPending(r) \/ ListRead(r)
             \/ FindMember(r) \/ AddMember(r) \/ RevokeRead(r) \/ RemoveRead(r)
             \/ RemoveWrite(r) \/ UpdateRead(r) \/ UpdateWrite(r) \/ Fail(r)
      PROVE  UNCHANGED invites
  BY <1>4
     DEF tables, AddOwner, CheckInvitee, FindPending, ListRead, FindMember,
         AddMember, RevokeRead, RemoveRead, RemoveWrite, UpdateRead, UpdateWrite,
         Fail
<1>5. ASSUME NEW r \in Requests,
             ExpireOld(r) \/ MarkAccepted(r) \/ RevokeWrite(r)
      PROVE  invites'[i].status = invites[i].status
  <2>1. call[r].inv \in 1..issued /\ Pending(call[r].inv)
    BY <1>5 DEF ExpireOld, MarkAccepted, RevokeWrite, At, TypeInv, LocalsSet,
       Accepting, SerialInv, Current
  <2> QED
    BY <1>1, <1>5, <2>1 DEF ExpireOld, MarkAccepted, RevokeWrite
<1>6. ASSUME NEW r \in Requests, Lapse(r)
      PROVE  invites'[i].status = invites[i].status
  <2>1. PICK j \in call[r].todo : SetStatus(j, "EXPIRED")
    BY <1>6 DEF Lapse
  <2>2. j \in 1..issued /\ Pending(j)
    BY <2>1 DEF TypeInv, LocalsSet, SerialInv, Current
  <2> QED
    BY <1>1, <2>1, <2>2
<1>7. ASSUME NEW r \in Requests, CreateInvite(r)
      PROVE  invites'[i].status = invites[i].status
  BY <1>7, BoundsAssumption DEF CreateInvite, TypeInv, TypeOK, InviteIds
<1>8. ASSUME NEW r \in Requests, RefreshInvite(r)
      PROVE  invites'[i].status = invites[i].status
  <2>1. call[r].inv \in 1..issued
    BY <1>8 DEF RefreshInvite, At, TypeInv, LocalsSet
  <2> QED
    BY <1>8, <2>1, BoundsAssumption
       DEF RefreshInvite, TypeInv, TypeOK, InviteIds, Invite
<1> QED
  BY <1>2, <1>3, <1>4, <1>5, <1>6, <1>7, <1>8 DEF Next, Serve

\* An invite is answered once: no later statement of any handler overwrites it.
THEOREM SerialAnswersAreFinal == ASSUME Alone PROVE Spec => AnswerIsFinal
<1> DEFINE Final ==
      \A i \in 1..issued : ~Pending(i) => invites'[i].status = invites[i].status
<1>1. TypeInv /\ SerialInv /\ [Next]_vars => Final
  BY SerialAnswers
<1> HIDE DEF Final
<1>2. TypeInv /\ SerialInv /\ [Next]_vars => [Final]_vars
  BY <1>1
<1> USE DEF Final
<1> QED
  BY <1>2, SerialInvariant, PTL DEF Spec, AnswerIsFinal

=============================================================================
