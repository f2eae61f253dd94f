SPECIFICATION Spec
CONSTANTS
  Users = {u1, u2}
  Spaces = {w1}
  Requests = {r1, r2}
  Routes = {"create", "invite", "accept", "updateRole"}
  InviteRoles = {"OWNER"}
  MaxInvites = 1
  MaxTime = 0
  Ttl = 0
SYMMETRY Symmetry
INVARIANT HasOwner
CHECK_DEADLOCK FALSE
