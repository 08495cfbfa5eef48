\* Two sessions under one root make calls, one of them is listed; a read or a
\* write fails or a session dies.
SPECIFICATION FairSpec
CONSTANTS
  writer = writer
  other = other
  c1 = c1
  c2 = c2
  Sessions = {writer, other}
  Calls = {c1, c2}
  Owner <- TwoOwners
  Listers = {writer}
  OldRuns = {old}
  Failing = {c1}
  MaxFailures = 2
  MaxFaults = 1
INVARIANTS
  TypeOK
  IndexMatchesEvents
  IndexIsPast
  HistoryKept
PROPERTIES
  FinishedIsIndexed
  FinishedStaysIndexed
CHECK_DEADLOCK FALSE
