SPECIFICATION SidebarSpec
CONSTANTS
  Spaces = {w1, w2}
  Folders = {f1, f2, f3, f4}
  Collections = {c1}
  Clients = {k1, k2}
  Routes = {"create", "update", "reorder", "drag", "delete", "clear"}
  AnswersLost = TRUE
SYMMETRY Symmetry
INVARIANTS Filed
PROPERTIES GoesForCause SidebarMoves
\* Every id may have been used.
CHECK_DEADLOCK FALSE
