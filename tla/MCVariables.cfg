SPECIFICATION VariablesSpec
CONSTANTS
  Envs = {e1, e2}
  Names = {n1}
  Requests = {r1, r2}
  MaxSaves = 3
  MaxVars = 2
  Windowed = {d1, d2}
  Texts = {0, 1}
  Empty = 0
  MaxRows = 2
  MaxIds = 2
  MaxCalls = 2
  VarNames = {a, b}
  Values = {1, 2}
  Sends = {s1, s2}
  None = None
  Gone = Gone
SYMMETRY Symmetry
INVARIANTS LatestSurvives OldOnlyIfOverlapping  
PROPERTIES DeletedForGood
\* The bounds let every client run out of calls to make.
CHECK_DEADLOCK FALSE
