SPECIFICATION Spec
CONSTANTS
  b1 = b1
  b2 = b2
  u1 = u1
  u2 = u2
  r1 = r1
  r2 = r2
  NoBundle = NoBundle
  Bundles <- TwoBundles
  Utxos <- TwoUtxos
  Requests <- TwoRequests
  operations <- MCOperations
  MaxOperations = 3
  DefaultTtl = 3
  RpcTimeout = 1
  MaxLedger = 3
  MaxRestarts = 1
SYMMETRY Symmetry
INVARIANTS
  AdmissionTypeOK
  UtxosRecorded
  FeeIsPayable
  
