----------------------------- MODULE Workspaces -----------------------------
(***************************************************************************)
(* Membership and invites of the API server:                               *)
(* src/api/src/services/workspace.service.ts over its two query modules    *)
(* and the Prisma tables Workspace, WorkspaceMember and WorkspaceInvite.   *)
(*                                                                         *)
(* No handler opens a transaction here, so each awaited query is a step of *)
(* its own and the steps of concurrent HTTP requests interleave.  Begin... *)
(* actions run a handler up to its first query's answer; the other actions *)
(* run one later query and what follows it up to the next await.  A        *)
(* handler that answers an error having written nothing leaves the state   *)
(* alone, so its first step is simply not enabled; a later one returns the *)
(* request to Idle.                                                        *)
(*                                                                         *)
(* A user stands for the account and for its (normalised, unique) e-mail.  *)
(* Invites are numbered in order of createdAt; the number stands for the   *)
(* row's id and for its token.                                             *)
(***************************************************************************)
EXTENDS Naturals

CONSTANTS
  Users,        \* accounts, each with its e-mail address
  Spaces,       \* workspaces that may be created
  Requests,     \* slots of HTTP requests in flight at once
  Routes,       \* the routes clients call
  InviteRoles,  \* the roles inviters ask for
  MaxInvites,   \* bound: invites ever created
  MaxTime,      \* bound: the clock stops here
  Ttl           \* life of an invite (7 days in the code)

Role == {"OWNER", "EDITOR", "VIEWER"}
NoRole == "NONE"    \* no WorkspaceMember row
NoUser == "nobody"  \* no Workspace row

\* The handlers behind routes/workspace.routes.ts and workspaceInvite.routes.ts
\* that touch members or invites.
AllRoutes ==
  {"create", "invite", "getInvite", "accept", "listPending", "revoke",
   "removeMember", "updateRole", "myInvites", "leave", "decline"}

ASSUME RoutesAssumption == Routes \subseteq AllRoutes
ASSUME UsersAssumption == NoUser \notin Users
\* validations/workspace.validation.ts: inviteSchema admits all three roles.
ASSUME InviteRolesAssumption == InviteRoles \subseteq Role
ASSUME BoundsAssumption ==
  MaxInvites \in Nat /\ MaxTime \in Nat /\ Ttl \in Nat

InviteIds == 1..MaxInvites
Status == {"PENDING", "ACCEPTED", "REVOKED", "EXPIRED"}
Invite == [space : Spaces, email : Users, role : Role, status : Status,
           expires : 0..(MaxTime + Ttl)]
NoInvite == [status |-> "NONE"]

VARIABLES
  ownerId,  \* ownerId[w]: Workspace.ownerId, NoUser before w is inserted
  members,  \* members[w][u]: role of the WorkspaceMember row, or NoRole
  invites,  \* the WorkspaceInvite table
  issued,   \* number of invites inserted so far
  now,      \* the server's clock
  call      \* call[r]: where request slot r is and the handler's locals

vars == <<ownerId, members, invites, issued, now, call>>
tables == <<ownerId, members, invites, issued>>

\* What the in-flight handler waits to run next.
Label ==
  {"idle", "addOwner", "checkInvitee", "findPending", "expireOld",
   "createInvite", "refreshInvite", "lapse", "findMember", "addMember",
   "markAccepted", "revokeRead", "revokeWrite", "removeRead", "removeWrite",
   "updateRead", "updateWrite", "listRead"}

\* A handler's locals: who called (by), the workspace, the other user, the
\* role asked for or read, the invite it holds and the invites it found lapsed.
Call == [at : Label, by : Users \cup {NoUser}, space : Spaces \cup {NoUser},
         user : Users \cup {NoUser}, role : Role \cup {NoRole},
         inv : InviteIds \cup {0}, todo : SUBSET InviteIds]

Idle == [at |-> "idle", by |-> NoUser, space |-> NoUser, user |-> NoUser,
         role |-> NoRole, inv |-> 0, todo |-> {}]

Init ==
  /\ ownerId = [w \in Spaces |-> NoUser]
  /\ members = [w \in Spaces |-> [u \in Users |-> NoRole]]
  /\ invites = [i \in InviteIds |-> NoInvite]
  /\ issued = 0
  /\ now = 0
  /\ call = [r \in Requests |-> Idle]

-----------------------------------------------------------------------------
(***************************************************************************)
(* Queries and guards.                                                     *)
(***************************************************************************)

Exists(i) == i \in 1..issued
Pending(i) == invites[i].status = "PENDING"
Expired(i) == now > invites[i].expires

\* Faulty variant: an answered invite past its date counts as lapsed too.
LapsedWhateverStatus(i) == Expired(i)

\* A reader will mark it EXPIRED.
Lapsed(i) == Pending(i) /\ Expired(i)

IsMember(w, u) == members[w][u] # NoRole

IsOwner(w, u) == members[w][u] = "OWNER"

\* findPendingWorkspaceInvite: the newest PENDING row for a workspace and e-mail.
NewestPending(w, u, i) ==
  LET match == {j \in 1..issued : /\ invites[j].space = w
                                  /\ invites[j].email = u
                                  /\ Pending(j)}
  IN i \in match /\ \A j \in match : j <= i

NonePending(w, u) ==
  \A j \in 1..issued :
    ~(invites[j].space = w /\ invites[j].email = u /\ Pending(j))

\* The writes.  updateWorkspaceInvite is an unconditional update by id: it does
\* not look at the status the row has by then.
SetStatus(i, status) == invites' = [invites EXCEPT ![i].status = status]
SetRole(w, u, role) == members' = [members EXCEPT ![w][u] = role]
DropMember(w, u) == SetRole(w, u, NoRole)

\* addWorkspaceMember runs into the unique index (workspaceId, userId).
MayInsert(w, u) == ~IsMember(w, u)

Start(r, route) == call[r].at = "idle" /\ route \in Routes
At(r, label) == call[r].at = label
Goto(r, c) == call' = [call EXCEPT ![r] = c]
Advance(r, label) == call' = [call EXCEPT ![r].at = label]
Reply(r) == call' = [call EXCEPT ![r] = Idle]

-----------------------------------------------------------------------------
(***************************************************************************)
(* createWorkspaceService: the workspace row, then its OWNER row.          *)
(***************************************************************************)

BeginCreate(r) ==
  \E w \in Spaces, u \in Users :
    /\ Start(r, "create")
    /\ ownerId[w] = NoUser
    /\ ownerId' = [ownerId EXCEPT ![w] = u]
    /\ Goto(r, [Idle EXCEPT !.at = "addOwner", !.by = u, !.space = w])
    /\ UNCHANGED <<members, invites, issued, now>>

AddOwner(r) ==
  /\ At(r, "addOwner")
  /\ SetRole(call[r].space, call[r].by, "OWNER")
  /\ Reply(r)
  /\ UNCHANGED <<ownerId, invites, issued, now>>

-----------------------------------------------------------------------------
(***************************************************************************)
(* inviteUserToWorkspace.                                                  *)
(***************************************************************************)

BeginInvite(r) ==
  \E w \in Spaces, u, v \in Users, role \in InviteRoles :
    /\ Start(r, "invite")
    /\ IsOwner(w, u)
    /\ Goto(r, [Idle EXCEPT !.at = "checkInvitee", !.by = u, !.space = w,
                            !.user = v, !.role = role])
    /\ UNCHANGED <<tables, now>>

\* findUserByEmail and findWorkspaceMember; a member is not invited.
CheckInvitee(r) ==
  /\ At(r, "checkInvitee")
  /\ IF IsMember(call[r].space, call[r].user)
       THEN Reply(r)
       ELSE Advance(r, "findPending")
  /\ UNCHANGED <<tables, now>>

\* An invite still open is refreshed, a lapsed one expired and replaced.
FindPending(r) ==
  /\ At(r, "findPending")
  /\ \/ /\ NonePending(call[r].space, call[r].user)
        /\ Advance(r, "createInvite")
     \/ \E i \in InviteIds :
          /\ NewestPending(call[r].space, call[r].user, i)
          /\ Goto(r, [call[r] EXCEPT
                        !.at = IF Expired(i) THEN "expireOld"
                                             ELSE "refreshInvite",
                        !.inv = i])
  /\ UNCHANGED <<tables, now>>

\* Faulty variant: the lapsed invite is replaced but stays PENDING.
ExpireOldForgotten(r) ==
  /\ At(r, "expireOld")
  /\ Goto(r, [call[r] EXCEPT !.at = "createInvite", !.inv = 0])
  /\ UNCHANGED <<tables, now>>

ExpireOld(r) ==
  /\ At(r, "expireOld")
  /\ SetStatus(call[r].inv, "EXPIRED")
  /\ Goto(r, [call[r] EXCEPT !.at = "createInvite", !.inv = 0])
  /\ UNCHANGED <<ownerId, members, issued, now>>

\* The bound stops creation: a request waiting here may still Fail.
CreateInvite(r) ==
  /\ At(r, "createInvite")
  /\ issued < MaxInvites
  /\ issued' = issued + 1
  /\ invites' = [invites EXCEPT ![issued + 1] =
                   [space |-> call[r].space, email |-> call[r].user,
                    role |-> call[r].role, status |-> "PENDING",
                    expires |-> now + Ttl]]
  /\ Reply(r)
  /\ UNCHANGED <<ownerId, members, now>>

\* Role and expiry are rewritten, the status is not.
RefreshInvite(r) ==
  /\ At(r, "refreshInvite")
  /\ invites' = [invites EXCEPT ![call[r].inv].role = call[r].role,
                                ![call[r].inv].expires = now + Ttl]
  /\ Reply(r)
  /\ UNCHANGED <<ownerId, members, issued, now>>

-----------------------------------------------------------------------------
(***************************************************************************)
(* Reading invites.  Every reader marks the lapsed ones it met EXPIRED,    *)
(* one row at a time, newest first.                                        *)
(***************************************************************************)

LapseThenReply(r, lapsed) ==
  /\ lapsed # {}
  /\ Goto(r, [Idle EXCEPT !.at = "lapse", !.todo = lapsed])

\* getWorkspaceInvite: anyone who has the token.
BeginGetInvite(r) ==
  \E i \in InviteIds :
    /\ Start(r, "getInvite")
    /\ Exists(i)
    /\ LapseThenReply(r, {j \in {i} : Lapsed(j)})
    /\ UNCHANGED <<tables, now>>

\* getUserPendingInvites.
BeginMyInvites(r) ==
  \E u \in Users :
    /\ Start(r, "myInvites")
    /\ LapseThenReply(r, {j \in 1..issued : invites[j].email = u /\ Lapsed(j)})
    /\ UNCHANGED <<tables, now>>

\* getWorkspacePendingInvites.
BeginListPending(r) ==
  \E w \in Spaces, u \in Users :
    /\ Start(r, "listPending")
    /\ IsOwner(w, u)
    /\ Goto(r, [Idle EXCEPT !.at = "listRead", !.space = w])
    /\ UNCHANGED <<tables, now>>

ListRead(r) ==
  /\ At(r, "listRead")
  /\ LET lapsed == {j \in 1..issued : /\ invites[j].space = call[r].space
                                      /\ Lapsed(j)}
     IN IF lapsed = {} THEN Reply(r) ELSE LapseThenReply(r, lapsed)
  /\ UNCHANGED <<tables, now>>

Lapse(r) ==
  \E i \in InviteIds :
    /\ At(r, "lapse")
    /\ i \in call[r].todo
    /\ \A j \in call[r].todo : j <= i
    /\ SetStatus(i, "EXPIRED")
    /\ IF call[r].todo = {i}
         THEN Reply(r)
         ELSE call' = [call EXCEPT ![r].todo = @ \ {i}]
    /\ UNCHANGED <<ownerId, members, issued, now>>

-----------------------------------------------------------------------------
(***************************************************************************)
(* acceptWorkspaceInvite and declineWorkspaceInvite.                       *)
(***************************************************************************)

\* Faulty variant: the status is not looked at.
MayAnswerAgain(i) == Exists(i)

MayAnswer(i) == Exists(i) /\ Pending(i)

\* Faulty variant: whoever has the token may accept.
AddressedToBearer(i, u) == TRUE

AddressedTo(i, u) == u = invites[i].email

\* The row read here, its role included, serves the whole handler.
BeginAccept(r) ==
  \E i \in InviteIds, u \in Users :
    /\ Start(r, "accept")
    /\ MayAnswer(i)
    /\ \/ /\ Expired(i)
          /\ LapseThenReply(r, {i})
       \/ /\ ~Expired(i)
          /\ AddressedTo(i, u)
          /\ Goto(r, [Idle EXCEPT !.at = "findMember", !.by = u, !.inv = i,
                                  !.space = invites[i].space,
                                  !.role = invites[i].role])
    /\ UNCHANGED <<tables, now>>

\* Faulty variants: the insert is forgotten; an existing row takes the invite's
\* role.
FindMemberNoInsert(r) ==
  /\ At(r, "findMember")
  /\ Advance(r, "markAccepted")
  /\ UNCHANGED <<tables, now>>

FindMemberUpgrades(r) ==
  /\ At(r, "findMember")
  /\ IF IsMember(call[r].space, call[r].by)
       THEN /\ SetRole(call[r].space, call[r].by, call[r].role)
            /\ Advance(r, "markAccepted")
       ELSE Advance(r, "addMember") /\ UNCHANGED members
  /\ UNCHANGED <<ownerId, invites, issued, now>>

FindMember(r) ==
  /\ At(r, "findMember")
  /\ Advance(r, IF IsMember(call[r].space, call[r].by) THEN "markAccepted"
                                                       ELSE "addMember")
  /\ UNCHANGED <<tables, now>>

\* A duplicate insert fails with P2002, which the error handler answers.
AddMember(r) ==
  /\ At(r, "addMember")
  /\ IF MayInsert(call[r].space, call[r].by)
       THEN /\ SetRole(call[r].space, call[r].by, call[r].role)
            /\ Advance(r, "markAccepted")
       ELSE Reply(r) /\ UNCHANGED members
  /\ UNCHANGED <<ownerId, invites, issued, now>>

MarkAccepted(r) ==
  /\ At(r, "markAccepted")
  /\ SetStatus(call[r].inv, "ACCEPTED")
  /\ Reply(r)
  /\ UNCHANGED <<ownerId, members, issued, now>>

\* Declining looks at the status but not at the expiry.
BeginDecline(r) ==
  \E i \in InviteIds, u \in Users :
    /\ Start(r, "decline")
    /\ MayAnswer(i)
    /\ AddressedTo(i, u)
    /\ Goto(r, [Idle EXCEPT !.at = "revokeWrite", !.inv = i])
    /\ UNCHANGED <<tables, now>>

-----------------------------------------------------------------------------
(***************************************************************************)
(* revokeWorkspaceInviteService.                                           *)
(***************************************************************************)

BeginRevoke(r) ==
  \E w \in Spaces, u \in Users, i \in InviteIds :
    /\ Start(r, "revoke")
    /\ IsOwner(w, u)
    /\ Goto(r, [Idle EXCEPT !.at = "revokeRead", !.space = w, !.inv = i])
    /\ UNCHANGED <<tables, now>>

RevokeRead(r) ==
  LET i == call[r].inv
  IN /\ At(r, "revokeRead")
     /\ IF MayAnswer(i) /\ invites[i].space = call[r].space
          THEN Goto(r, [Idle EXCEPT !.at = "revokeWrite", !.inv = i])
          ELSE Reply(r)
     /\ UNCHANGED <<tables, now>>

\* Faulty variant: a status the schema's enum does not have.
RevokeWriteDeclined(r) ==
  /\ At(r, "revokeWrite")
  /\ SetStatus(call[r].inv, "DECLINED")
  /\ Reply(r)
  /\ UNCHANGED <<ownerId, members, issued, now>>

\* The last statement of revoking and of declining.
RevokeWrite(r) ==
  /\ At(r, "revokeWrite")
  /\ SetStatus(call[r].inv, "REVOKED")
  /\ Reply(r)
  /\ UNCHANGED <<ownerId, members, issued, now>>

-----------------------------------------------------------------------------
(***************************************************************************)
(* removeWorkspaceMemberService, leaveWorkspaceService and                 *)
(* updateMemberRoleService.                                                *)
(***************************************************************************)

\* Faulty variant: the target's role is not looked at.
RemovableWhateverRole(w, u) == IsMember(w, u)

\* An OWNER row is never deleted.
Removable(w, u) == IsMember(w, u) /\ ~IsOwner(w, u)

BeginRemove(r) ==
  \E w \in Spaces, u, v \in Users :
    /\ Start(r, "removeMember")
    /\ IsOwner(w, u)
    /\ v # u
    /\ Goto(r, [Idle EXCEPT !.at = "removeRead", !.space = w, !.user = v])
    /\ UNCHANGED <<tables, now>>

RemoveRead(r) ==
  /\ At(r, "removeRead")
  /\ IF Removable(call[r].space, call[r].user)
       THEN Advance(r, "removeWrite")
       ELSE Reply(r)
  /\ UNCHANGED <<tables, now>>

BeginLeave(r) ==
  \E w \in Spaces, u \in Users :
    /\ Start(r, "leave")
    /\ Removable(w, u)
    /\ Goto(r, [Idle EXCEPT !.at = "removeWrite", !.space = w, !.user = u])
    /\ UNCHANGED <<tables, now>>

\* Deleting a row that is gone fails with P2025; the role read is not rechecked.
RemoveWrite(r) ==
  /\ At(r, "removeWrite")
  /\ DropMember(call[r].space, call[r].user)
  /\ Reply(r)
  /\ UNCHANGED <<ownerId, invites, issued, now>>

\* Faulty variant: the schema of invites used for role changes.
AssignableAnyRole == Role

\* updateMemberRoleSchema: EDITOR or VIEWER, never OWNER.
AssignableRoles == {"EDITOR", "VIEWER"}

\* Faulty variant: an owner may change its own role.
MaybeSelf(u, v) == TRUE

NotSelf(u, v) == u # v

BeginUpdateRole(r) ==
  \E w \in Spaces, u, v \in Users, role \in AssignableRoles :
    /\ Start(r, "updateRole")
    /\ IsOwner(w, u)
    /\ NotSelf(u, v)
    /\ Goto(r, [Idle EXCEPT !.at = "updateRead", !.by = u, !.space = w,
                            !.user = v, !.role = role])
    /\ UNCHANGED <<tables, now>>

\* The target may be any other member, an OWNER too.
UpdateRead(r) ==
  /\ At(r, "updateRead")
  /\ IF IsMember(call[r].space, call[r].user)
       THEN Advance(r, "updateWrite")
       ELSE Reply(r)
  /\ UNCHANGED <<tables, now>>

\* Updating a row that is gone fails with P2025.
UpdateWrite(r) ==
  /\ At(r, "updateWrite")
  /\ IF IsMember(call[r].space, call[r].user)
       THEN SetRole(call[r].space, call[r].user, call[r].role)
       ELSE UNCHANGED members
  /\ Reply(r)
  /\ UNCHANGED <<ownerId, invites, issued, now>>

-----------------------------------------------------------------------------
\* A query rejects or the process dies: what was written stays.
Fail(r) ==
  /\ ~At(r, "idle")
  /\ Reply(r)
  /\ UNCHANGED <<tables, now>>

Tick ==
  /\ now < MaxTime
  /\ now' = now + 1
  /\ UNCHANGED <<tables, call>>

Begin(r) ==
  \/ BeginCreate(r) \/ BeginInvite(r) \/ BeginGetInvite(r) \/ BeginMyInvites(r)
  \/ BeginListPending(r) \/ BeginAccept(r) \/ BeginDecline(r)
  \/ BeginRevoke(r) \/ BeginRemove(r) \/ BeginLeave(r) \/ BeginUpdateRole(r)

Serve(r) ==
  \/ AddOwner(r)
  \/ CheckInvitee(r) \/ FindPending(r) \/ ExpireOld(r)
  \/ CreateInvite(r) \/ RefreshInvite(r)
  \/ ListRead(r) \/ Lapse(r)
  \/ FindMember(r) \/ AddMember(r) \/ MarkAccepted(r)
  \/ RevokeRead(r) \/ RevokeWrite(r)
  \/ RemoveRead(r) \/ RemoveWrite(r)
  \/ UpdateRead(r) \/ UpdateWrite(r)

Next == Tick \/ \E r \in Requests : Begin(r) \/ Serve(r) \/ Fail(r)

Spec == Init /\ [][Next]_vars

-----------------------------------------------------------------------------
(***************************************************************************)
(* Properties.                                                             *)
(***************************************************************************)

\* Every row and every handler's locals have the shape the schema gives them;
\* the invites are exactly the first `issued` ids.
TypeOK ==
  /\ ownerId \in [Spaces -> Users \cup {NoUser}]
  /\ members \in [Spaces -> [Users -> Role \cup {NoRole}]]
  /\ issued \in 0..MaxInvites
  /\ invites \in [InviteIds -> Invite \cup {NoInvite}]
  /\ \A i \in InviteIds : invites[i] \in Invite <=> i \in 1..issued
  /\ now \in 0..MaxTime
  /\ call \in [Requests -> Call]

\* A workspace that has any member has an OWNER: no sequence of handlers
\* leaves members behind whom nobody may manage.
HasOwner ==
  \A w \in Spaces :
    (\E u \in Users : IsMember(w, u)) => \E u \in Users : IsOwner(w, u)

\* While invites never offer OWNER, the user who created the workspace is its
\* one OWNER as soon as it has a member, whatever the requests in flight.
CreatorIsOwner ==
  \A w \in Spaces, u \in Users :
    /\ IsMember(w, u) => ownerId[w] # NoUser /\ IsOwner(w, ownerId[w])
    /\ IsOwner(w, u) => u = ownerId[w]

\* Nobody but the creator is a member without an invite to this workspace
\* having been addressed to them.
Provenance ==
  \A w \in Spaces, u \in Users :
    IsMember(w, u) /\ u # ownerId[w] =>
      \E i \in 1..issued : invites[i].space = w /\ invites[i].email = u

\* An EDITOR or VIEWER never becomes OWNER: not by a role change, not by
\* accepting an OWNER invite while already a member, not by two accepts at once.
NoPromotionToOwner ==
  [][\A w \in Spaces, u \in Users :
       members[w][u] \in {"EDITOR", "VIEWER"} => members'[w][u] # "OWNER"]_vars

\* Re-inviting refreshes the open invite instead of adding one: a workspace has
\* at most one PENDING invite per e-mail.
OneOpenInvite ==
  \A i, j \in 1..issued :
    /\ Pending(i) /\ Pending(j)
    /\ invites[i].space = invites[j].space
    /\ invites[i].email = invites[j].email
    => i = j

\* u becomes a member of w on an invite open at that moment, with its role.
JoinsAsInvited(w, u) ==
  ~IsMember(w, u) /\ IsMember(w, u)' =>
    \E i \in 1..issued : /\ Pending(i)
                         /\ invites[i].space = w
                         /\ invites[i].email = u
                         /\ invites[i].role = members'[w][u]

\* Whoever becomes a member other than the creator has a PENDING invite at
\* that moment, with the role they get.
JoinsOnOpenInvite ==
  [][\A w \in Spaces, u \in Users : u # ownerId[w] => JoinsAsInvited(w, u)]_vars

\* The answer an invite got is final: once ACCEPTED, REVOKED or EXPIRED its
\* status does not change.
AnswerIsFinal ==
  [][\A i \in 1..issued :
       ~Pending(i) => invites'[i].status = invites[i].status]_vars

\* An invite is marked ACCEPTED only while its addressee is a member.
AcceptedAdmits ==
  [][\A i \in 1..issued :
       /\ Pending(i)
       /\ invites'[i].status = "ACCEPTED"
       => IsMember(invites[i].space, invites[i].email)]_vars

R == INSTANCE Roster WITH Users <- Users, Spaces <- Spaces, NoRole <- NoRole, members <- members

\* The handlers implement the abstract roster: whatever interleaves, each write
\* to the members table is one of the moves Roster allows.
RefinesRoster == R!Spec

=============================================================================
