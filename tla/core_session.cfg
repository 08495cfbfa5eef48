\* Two calls, every kind of request, one failing write.
SPECIFICATION Spec
CONSTANTS
  safe = safe
  risky = risky
  absent = absent
  Calls = {c1, c2}
  Targets = {safe, risky, absent}
  Registered = {safe, risky}
  Risk <- MCRisk
  Requests <- AllRequests
  ThrownTypes = {"process_crash", "malformed_json"}
  MaxRetries = 1
  FailureThreshold = 2
  OpenMs = 1
  MaxNow = 1
  MaxWriteFaults = 1
SYMMETRY CallSymmetry
INVARIANTS
  TypeOK
  WithinBudget
  CircuitTracksFailures
  CircuitEventsMatch
  CompleteAccount
  SuccessHasEvidence
PROPERTY RefinesMediatedCall
CHECK_DEADLOCK FALSE
