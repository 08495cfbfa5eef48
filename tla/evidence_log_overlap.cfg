\* Two streams rewrite the file at the same time, each in one write call.
SPECIFICATION FairSpec
CONSTANTS
  Streams = {s1, s2}
  Posted = {}
  Clients = {u1}
  Numbers <- OwnCount
  OccurredAt <- ForwardedEarlier
  Unheard <- SecondUnheard
  Hole = Hole
  ChunkSize = 8
  MaxEvents = 2
  MaxFaults = 0
  MaxDrops = 0
INVARIANT AcknowledgedOnDisk
CHECK_DEADLOCK FALSE
