------------------------------- MODULE Roster -------------------------------
(***************************************************************************)
(* What workspace membership promises its users, with no requests, invites *)
(* or clock in sight: a workspace is founded by one user, who is its OWNER *)
(* from then on and for good; everybody else comes in at a lower role,     *)
(* moves between the lower roles, goes, and may come back.                 *)
(***************************************************************************)
CONSTANTS Users, Spaces, NoRole

LowerRole == {"EDITOR", "VIEWER"}

VARIABLES members

Nobody == [u \in Users |-> NoRole]

Init == members = [w \in Spaces |-> Nobody]

Found(w, u) ==
  /\ members[w] = Nobody
  /\ members' = [members EXCEPT ![w][u] = "OWNER"]

Join(w, u, role) ==
  /\ members[w] # Nobody
  /\ members[w][u] = NoRole
  /\ members' = [members EXCEPT ![w][u] = role]

ChangeRole(w, u, role) ==
  /\ members[w][u] \in LowerRole
  /\ members' = [members EXCEPT ![w][u] = role]

Leave(w, u) ==
  /\ members[w][u] \in LowerRole
  /\ members' = [members EXCEPT ![w][u] = NoRole]

Next ==
  \E w \in Spaces, u \in Users :
    \/ Found(w, u)
    \/ \E role \in LowerRole : Join(w, u, role) \/ ChangeRole(w, u, role)
    \/ Leave(w, u)

Spec == Init /\ [][Next]_members

=============================================================================
