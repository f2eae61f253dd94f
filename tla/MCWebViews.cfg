SPECIFICATION ViewsSpec
CONSTANTS
  Collections = {c1, c2}
  Requests = {1, 2}
  Folders = {f1}
  PageSize = 1
  MaxJobs = 2
  Root = Root
  Gone = Gone
  Unmade = Unmade
  NotLoaded = NotLoaded
  Tabs = {t1, t2}
  Envs = {e1, e2}
  Values = {0, 1}
  Fresh = 0
  Played = {r1}
  MaxHistory = 1
  MaxEntries = 3
  None = None
  MaxRecorded = 2
  PageLimit = 1
  Findable = 2
  Quota = 2
  Plain = {"0", "1", "x", "y"}
  Digits <- ThreeDigits
  Odd = {"o-"}
  Dotted = {"x.y"}
  PartsOf <- XAndY
  MaxNodes = 4
  Large = 1
  Many = 1
  MaxClicks = 2
  FormKeys = {"k", "l"}
  Files = {a1, a2}
  MaxRows = 2
  MaxSteps = 3
  ItemNames = {"h", "H", "x"}
  ItemValues = {1, 2}
  MaxItems = 2
  MaxEdits = 2
     
PROPERTIES  SentAsMeant
\* Without a job, a send or a click left, the browser rests.
CHECK_DEADLOCK FALSE
