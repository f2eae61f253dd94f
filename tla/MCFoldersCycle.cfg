SPECIFICATION Spec
CONSTANTS
  Spaces = {w1}
  Folders = {f1, f2}
  Collections = {}
  Clients = {k1, k2}
  Routes = {"create", "drag"}
  AnswersLost = FALSE
SYMMETRY Symmetry
INVARIANT Tree
CHECK_DEADLOCK FALSE
