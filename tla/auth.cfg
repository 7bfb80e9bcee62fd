SPECIFICATION FairSpec
CONSTANTS
  c1 = c1
  p1 = p1
  h1 = h1
  n1 = n1
  n2 = n2
  r1 = r1
  r2 = r2
  NoClient = NoClient
  NoPp = NoPp
  Clients <- OneClient
  Pps <- OnePp
  Hashes <- OneHash
  Nonces <- TwoNonces
  Requests <- TwoRequests
  MaxPending = 1
INVARIANTS
  AuthTypeOK
  TokenIssuedOnce
  NonceAcceptedOnce
  
PROPERTIES
  NeverDowngraded
  StoreRecovers
