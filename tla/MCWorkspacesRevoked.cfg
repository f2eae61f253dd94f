SPECIFICATION Spec
CONSTANTS
  Users = {u1, u2}
  Spaces = {w1}
  Requests = {r1, r2}
  Routes = {"create", "invite", "accept", "revoke"}
  InviteRoles = {"VIEWER"}
  MaxInvites = 1
  MaxTime = 0
  Ttl = 0
PROPERTY JoinsOnOpenInvite
CHECK_DEADLOCK FALSE
