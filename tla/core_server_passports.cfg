\* One MCP host is verified.
SPECIFICATION Spec
CONSTANTS
  fetch = fetch
  send = send
  wipe = wipe
  bad = bad
  seed = seed
  replay = replay
  verify = verify
  wrapped = wrapped
  browse = browse
  simulate = simulate
  cli = cli
  Calls = {}
  Tasks = {verify}
  Forwarded = {}
  NoCall = NoCall
  RequestOf <- MCHostRequestOf
  MaxRequests = 1
  MaxNow = 0
  MaxRestarts = 0
  MaxWrites = 0
  CutAt <- MCCutAt
  MaxFailing = 1
  MaxRetries = 1
  Threshold = 2
  OpenTicks = 1
  Hour = 0
INVARIANT ClaimScopedToHost
CHECK_DEADLOCK FALSE
