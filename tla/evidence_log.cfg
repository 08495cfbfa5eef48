\* A stream of the session, one that forwards events of another session, and a
\* timeline; a write fails, a connection breaks.
SPECIFICATION FairSpec
CONSTANTS
  Streams = {s1, s2}
  Posted = {s2}
  Clients = {u1}
  Numbers <- OwnCount
  OccurredAt <- ForwardedEarlier
  Unheard <- SecondUnheard
  Hole = Hole
  ChunkSize = 4
  MaxEvents = 2
  MaxFaults = 1
  MaxDrops = 1
INVARIANTS
  TypeOK
  NothingMisplaced
  SmallFileIsPrefix
  
  NoGap
  ViewInOrder
PROPERTY HeardIsShown
CHECK_DEADLOCK FALSE
