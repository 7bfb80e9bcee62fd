SPECIFICATION WatcherFairSpec
CONSTANTS
  c1 = c1
  c2 = c2
  Contracts <- MCContracts
  Events <- MCEvents
  StartPin = 0
  CallSize = 1
  MaxLedger = 3
INVARIANTS
  NothingSkipped
  SeamDispatchedOnce
PROPERTIES
  EventsAreDispatched
