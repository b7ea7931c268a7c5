SPECIFICATION FairSpec
CONSTANTS
  d1 = d1
  p1 = p1
  p2 = p2
  p3 = p3
  w1 = w1
  w2 = w2
  Discoveries = {d1}
  Ports = {p1, p2, p3}
  DiscoveryOf <- OneDiscovery
  Watchers = {w1, w2}
  Worlds <- AllWorlds
  EventCap = 1
  FeedCap = 1
  MaxRuns = 2
  Nobody = nobody
  Feeder = feeder
INVARIANTS DiscoveryInv WatcherInStep CacheOfFirstRuns
PROPERTY AllComeThrough
CHECK_DEADLOCK FALSE
