\* One call in a directory that is neither temporary nor a repository.
SPECIFICATION Spec
CONSTANTS
  fetch = fetch
  send = send
  wipe = wipe
  bad = bad
  seed = seed
  replay = replay
  verify = verify
  wrapped = wrapped
  browse = browse
  simulate = simulate
  cli = cli
  Calls = {fetch}
  Tasks = {}
  Forwarded = {}
  NoCall = NoCall
  RequestOf <- MCPlainRequestOf
  MaxRequests = 1
  MaxNow = 0
  MaxRestarts = 0
  MaxWrites = 1
  CutAt <- MCCutAt
  MaxFailing = 1
  MaxRetries = 1
  Threshold = 2
  OpenTicks = 1
  Hour = 0
PROPERTY CounterEvidenceHolds
CHECK_DEADLOCK FALSE
