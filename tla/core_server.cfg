\* Two requests of any kind to a core that is ended and started again once.
SPECIFICATION Spec
CONSTANTS
  fetch = fetch
  send = send
  wipe = wipe
  bad = bad
  seed = seed
  replay = replay
  verify = verify
  wrapped = wrapped
  browse = browse
  simulate = simulate
  cli = cli
  Calls = {fetch, send, wipe, bad, seed, replay}
  Tasks = {verify, wrapped, browse, simulate}
  Forwarded = {cli}
  NoCall = NoCall
  RequestOf <- MCRequestOf
  MaxRequests = 2
  MaxNow = 1
  MaxRestarts = 1
  MaxWrites = 1
  CutAt <- MCCutAt
  MaxFailing = 1
  MaxRetries = 1
  Threshold = 2
  OpenTicks = 1
  Hour = 0
INVARIANTS
  TypeOK
  GraphClosed
  ClientTold
PROPERTIES
  ClearedWasQuiet
  SeverityNeverDrops
  ClaimSurvivesRestart
CHECK_DEADLOCK FALSE
