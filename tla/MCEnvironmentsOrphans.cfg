SPECIFICATION Spec
CONSTANTS
  Envs = {e1}
  Names = {n1}
  Requests = {r1, r2}
  MaxSaves = 1
  MaxVars = 1
SYMMETRY Symmetry
INVARIANT NoOrphans
CHECK_DEADLOCK FALSE
