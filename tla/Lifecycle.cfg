SPECIFICATION FairSpec
CONSTANTS
  a1 = a1
  a2 = a2
  Asks = {a1, a2}
  Capacity = 1
  MaxBehaviours = 4
  MaxPanics = 1
CHECK_DEADLOCK FALSE
INVARIANTS
  TypeOK
  ReadyActor
  Paired
  ChannelOwned
  EndedReleases
PROPERTY Settles
