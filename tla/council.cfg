SPECIFICATION FairSpec
CONSTANTS
  c1 = c1
  c2 = c2
  p1 = p1
  p2 = p2
  r1 = r1
  NoPp = NoPp
  Contracts <- OneCouncil
  Pps <- OneProvider
  Requests <- OneRequest
  Events <- MembersAndChannel
  StartPin = 0
  CallSize = 25
  MaxLedger = 3
  MaxCrashes = 1
INVARIANTS
  CouncilTypeOK
  DisabledByCouncil
  ActiveWasAdmitted
PROPERTIES
  NotKnockedOffline
  
