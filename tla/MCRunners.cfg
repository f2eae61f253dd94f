SPECIFICATION RunnersSpec
CONSTANTS
  Runs = {r1}
  Senders = {s1}
  Callers = {r1, s1}
  Ids = {1, 2}
  Size = 2
  Pre = {1}
  Test = {1}
  Assertions <- SomeAssertions
INVARIANTS NothingLeft ConsoleIsOwn SummaryTrue ExitAndBail
PROPERTIES RefinesOrderedRun RunsEnd
\* Runs and processes end.
CHECK_DEADLOCK FALSE
