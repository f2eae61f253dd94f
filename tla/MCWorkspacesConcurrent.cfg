SPECIFICATION Spec
CONSTANTS
  Users = {u1, u2, u3}
  Spaces = {w1}
  Requests = {r1, r2}
  Routes = {"create", "invite", "getInvite", "accept", "listPending", "revoke", "removeMember", "updateRole", "myInvites", "leave", "decline"}
  InviteRoles = {"VIEWER"}
  MaxInvites = 2
  MaxTime = 1
  Ttl = 0
SYMMETRY Symmetry
INVARIANTS CreatorIsOwner Provenance
PROPERTIES RefinesRoster
\* The bounds let every client run out of calls to make.
CHECK_DEADLOCK FALSE
