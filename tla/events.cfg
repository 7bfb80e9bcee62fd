SPECIFICATION FairSpec
CONSTANTS
  m1 = m1
  m2 = m2
  s1 = s1
  p1 = p1
  p2 = p2
  Machines <- TwoMachines
  Sockets <- OneSocket
  Pps <- TwoPps
  OwnerOf <- MCOwnerOf
  OperatorOf <- MCOperatorOf
  MaxEvents = 2
  MaxFaults = 2
INVARIANTS
  DeliveredExactly
  NoListenerLeft
PROPERTIES
  EventsReach
