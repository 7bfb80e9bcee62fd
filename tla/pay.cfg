SPECIFICATION FairSpec
CONSTANTS
  d1 = d1
  w1 = w1
  u1 = u1
  r1 = r1
  r2 = r2
  Deposits <- OneDeposit
  Wallets <- OneWallet
  Usernames <- OneName
  Requests <- TwoRequests
  Amounts = {1}
  Funds = {2}
  MaxSends = 1
INVARIANTS
  PayTypeOK
  AccountsReconcile
  ClaimedOnce
PROPERTIES
  SuspendedCannotSpend
  RequestsAnswered
