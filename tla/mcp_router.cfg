\* Two servers whose tools share a virtual name, one of them with a tool
\* that has the name of the stub for blocked calls; two calls; health changes twice.
SPECIFICATION Spec
CONSTANTS
  alpha = alpha
  beta = beta
  shared = shared
  gate = gate
  unknown = unknown
  Calls = {c1, c2}
  Servers <- MCServers
  ToolsOf <- MCToolsOf
  Names = {shared, gate, unknown}
  VirtualName <- MCVirtualName
  BlockedName <- MCBlockedName
  AllowUnhealthyPreflight = FALSE
  MaxRetries = 1
  MaxFlips = 2
SYMMETRY Alike
INVARIANTS
  RightToolRuns
PROPERTIES
  OnlyProbesLift
  ClosedForGood
CHECK_DEADLOCK FALSE
