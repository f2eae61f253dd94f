SPECIFICATION LibrarySpec
CONSTANTS
  w1 = w1
  w2 = w2
  c1 = c1
  c2 = c2
  Workspaces = {w1, w2}
  Collections = {c1, c2}
  Home <- OneEach
  Requests = {q1, q2}
  Tags = {g1, g2}
  Names = {n1}
  Calls = {k1, k2}
  Nowhere = Nowhere
  Length = 3
  Ids = {a, b, c}
  FolderNames = {n}
  Root = Root
  MaxItems = 2
  MaxEdits = 2
  MaxImports = 1
  Undefined = Undefined
  SchemaNames = {sa, sb, sc}
  MaxLinks = 1
  Params = {p, q}
  MaxParams = 2
  Limit = 17
  MaxLater = 1
  None = None
SYMMETRY Alike
INVARIANTS TagsAtHome TagsOfOneUpdate ImportExact SavedAsRun ReadUnlessLoop 
PROPERTIES WritesWhereAllowed
\* Imports end, and so do requests and tags, whose ids are not used twice.
CHECK_DEADLOCK FALSE
