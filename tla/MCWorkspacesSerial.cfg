SPECIFICATION Spec
CONSTANTS
  Users = {u1, u2, u3}
  Spaces = {w1}
  Requests = {r1}
  Routes = {"create", "invite", "getInvite", "accept", "listPending", "revoke", "removeMember", "updateRole", "myInvites", "leave", "decline"}
  InviteRoles = {"OWNER", "VIEWER"}
  MaxInvites = 2
  MaxTime = 2
  Ttl = 1
SYMMETRY Symmetry
INVARIANTS HasOwner OneOpenInvite
PROPERTIES JoinsOnOpenInvite AnswerIsFinal
\* The bounds let every client run out of calls to make.
CHECK_DEADLOCK FALSE
