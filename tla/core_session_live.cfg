\* Two calls that share one circuit; the event loop is fair.
SPECIFICATION FairSpec
CONSTANTS
  safe = safe
  risky = risky
  absent = absent
  Calls = {c1, c2}
  Targets = {safe}
  Registered = {safe}
  Risk <- MCRisk
  Requests <- SharedTargetRequests
  ThrownTypes = {"process_crash"}
  MaxRetries = 1
  FailureThreshold = 2
  OpenMs = 1
  MaxNow = 1
  MaxWriteFaults = 0
PROPERTY AnswerBounded
CHECK_DEADLOCK FALSE
