-------------------------------- MODULE Pay --------------------------------
(***************************************************************************)
(* The pay service of provider-platform: custodial accounts and their      *)
(* balances, sends from custodial accounts and from self-custodial         *)
(* wallets, the escrow that holds what is sent to an address without       *)
(* verified KYC, and the claim that releases it.                           *)
(*                                                                         *)
(* A step of a request is one statement, or one group of statements behind *)
(* a row lock, of its database transaction.  Locks are FOR UPDATE locks    *)
(* and are released at the commit or the rollback.  The writes of a        *)
(* transaction become visible at its commit.                               *)
(***************************************************************************)
EXTENDS Integers, Sequences, FiniteSets, Functions

CONSTANTS Deposits,     \* deposit addresses that registration generates
          Wallets,      \* addresses of self-custodial users
          Usernames,
          Requests,     \* HTTP requests and claims that may overlap
          Amounts,      \* amounts a send may ask for; validation lets only
                        \* positive ones through
          Funds,        \* bound: an account is deposited to once, one of these amounts
          MaxSends      \* bound: no send starts once that many are recorded

ASSUME PayAssumption ==
  /\ Deposits \cap Wallets = {}
  /\ Amounts \subseteq Nat \ {0}
  /\ Funds \subseteq Nat /\ MaxSends \in Nat
  /\ Cardinality(Usernames) <= Cardinality(Deposits)

VARIABLES
  accounts,    \* pay_custodial_accounts, by deposit address
  kyc,         \* pay_kyc: status by address, "NONE" without a row
  escrows,     \* pay_escrow
  sends,       \* pay_transactions of type SEND
  received,    \* pay_transactions of type RECEIVE: how many for each escrow
  req,         \* requests in progress
  funded       \* external: what was deposited to each account

escrowVars == <<escrows, received>>
vars == <<accounts, kyc, escrowVars, sends, req, funded>>

Addresses == Deposits \cup Wallets
NoAccount == [name |-> "", balance |-> 0, status |-> "none"]
Exists(a) == accounts[a] # NoAccount
Idle == [op |-> "idle", from |-> "", to |-> "", amount |-> 0, mode |-> "",
         verified |-> FALSE, locked |-> {}, rows |-> {}, read |-> 0, send |-> 0]

(* Row locks.  A transaction holds at most one account and the escrows it  *)
(* has selected.                                                           *)
AccountFree(a) == \A r \in Requests : a \notin req[r].locked
EscrowsFree(rows) == \A r \in Requests : req[r].rows \cap rows = {}

HeldFor(address) == {i \in DOMAIN escrows : escrows[i].for = address /\ escrows[i].status = "HELD"}
Custodial(rows) == {i \in rows : escrows[i].mode = "custodial"}
EscrowAmount == [i \in DOMAIN escrows |-> escrows[i].amount]
AmountOf(rows) == SumFunctionOnSet(EscrowAmount, rows)

(* What GET /pay/escrow shows the receiver.                                *)
getEscrowSummary(address) ==
  [count |-> Cardinality(HeldFor(address)), totalAmount |-> AmountOf(HeldFor(address))]

-----------------------------------------------------------------------------
Init ==
  /\ accounts = [a \in Deposits |-> NoAccount]
  /\ kyc = [a \in Addresses |-> "NONE"]
  /\ escrows = <<>> /\ received = <<>> /\ sends = <<>>
  /\ req = [r \in Requests |-> Idle]
  /\ funded = [a \in Deposits |-> 0]

Answer(r) == req' = [req EXCEPT ![r] = Idle]

(* A statement fails, or the process ends: what the request's transaction  *)
(* has written is rolled back and what it committed before stays.          *)
RequestFails(r) ==
  /\ req[r] # Idle
  /\ Answer(r)
  /\ UNCHANGED <<accounts, kyc, escrowVars, sends, funded>>

-----------------------------------------------------------------------------
(* Registration: the name is looked up, and the row created later on; the  *)
(* column is UNIQUE.  Registration and login hand out tokens; a token is   *)
(* not revoked, so a request of any account may come at any time.          *)
Named(name) == {a \in Deposits : Exists(a) /\ accounts[a].name = name}

RegisterChecks(r, name) ==
  /\ req[r] = Idle
  /\ Named(name) = {}
  /\ req' = [req EXCEPT ![r] = [Idle EXCEPT !.op = "register", !.from = name]]
  /\ UNCHANGED <<accounts, kyc, escrowVars, sends, funded>>

RegisterCreates(r) ==
  /\ req[r].op = "register"
  /\ Named(req[r].from) = {}
  /\ \E a \in Deposits :
       /\ ~Exists(a)
       /\ accounts' = [accounts EXCEPT ![a] =
            [name |-> req[r].from, balance |-> 0, status |-> "ACTIVE"]]
  /\ Answer(r)
  /\ UNCHANGED <<kyc, escrowVars, sends, funded>>

(* The INSERT violates the constraint.                                     *)
RegisterConflicts(r) ==
  /\ req[r].op = "register" /\ Named(req[r].from) # {}
  /\ Answer(r)
  /\ UNCHANGED <<accounts, kyc, escrowVars, sends, funded>>

(* External: deposits and suspension.                                      *)
Deposit(a, n) ==
  /\ Exists(a) /\ AccountFree(a)
  /\ funded[a] = 0
  /\ funded' = [funded EXCEPT ![a] = n]
  /\ accounts' = [accounts EXCEPT ![a].balance = @ + n]
  /\ UNCHANGED <<kyc, escrowVars, sends, req>>

Suspend(a) ==
  /\ Exists(a) /\ AccountFree(a)
  /\ accounts' = [accounts EXCEPT ![a].status = "SUSPENDED"]
  /\ UNCHANGED <<kyc, escrowVars, sends, req, funded>>

-----------------------------------------------------------------------------
(* KYC: the owner of an address submits, an operator verifies (external).  *)
(* Submitting again puts a verified address back to PENDING; the address   *)
(* column is UNIQUE.                                                       *)
Owns(address) == address \in Deposits => Exists(address)

PostKyc(r, address) ==
  /\ req[r] = Idle /\ Owns(address)
  /\ req' = [req EXCEPT ![r] =
       [Idle EXCEPT !.op = "kyc", !.to = address, !.verified = kyc[address] # "NONE"]]
  /\ UNCHANGED <<accounts, kyc, escrowVars, sends, funded>>

KycWrites(r) ==
  /\ req[r].op = "kyc"
  /\ req[r].verified \/ kyc[req[r].to] = "NONE"
  /\ kyc' = [kyc EXCEPT ![req[r].to] = "PENDING"]
  /\ Answer(r)
  /\ UNCHANGED <<accounts, escrowVars, sends, funded>>

KycConflicts(r) ==
  /\ req[r].op = "kyc" /\ ~req[r].verified /\ kyc[req[r].to] # "NONE"
  /\ Answer(r)
  /\ UNCHANGED <<accounts, kyc, escrowVars, sends, funded>>

Verify(address) ==
  /\ kyc[address] = "PENDING"
  /\ kyc' = [kyc EXCEPT ![address] = "VERIFIED"]
  /\ UNCHANGED <<accounts, escrowVars, sends, req, funded>>

-----------------------------------------------------------------------------
(* Sends.  The receiver's KYC status is read first, outside the            *)
(* transaction that depends on it.                                         *)
SendChecksKyc(r, from, to, n, mode) ==
  /\ req[r] = Idle
  /\ Len(sends) < MaxSends
  /\ IF mode = "custodial" THEN from \in Deposits /\ Exists(from) ELSE from \in Wallets
  /\ req' = [req EXCEPT ![r] =
       [Idle EXCEPT !.op = mode, !.mode = mode, !.from = from, !.to = to, !.amount = n,
                    !.verified = kyc[to] = "VERIFIED"]]
  /\ UNCHANGED <<accounts, kyc, escrowVars, sends, funded>>

SendRecord(q) ==
  [status |-> IF q.verified THEN "PENDING" ELSE "COMPLETED",
   amount |-> q.amount, from |-> q.from, to |-> q.to, mode |-> q.mode]

(* After its record a send to a verified receiver is answered; otherwise   *)
(* the escrow is still to be created.                                      *)
Recorded(r) ==
  /\ sends' = Append(sends, SendRecord(req[r]))
  /\ req' = [req EXCEPT ![r] =
       IF @.verified THEN Idle
       ELSE [@ EXCEPT !.op = "escrow", !.locked = {}, !.send = Len(sends) + 1]]

(* Mutant: the suspension is left to the login. *)
MaySpendActiveAtLogin(account, n) == account.balance >= n

(* Mutant: the balance is not checked. *)
MaySpendUnlimited(account, n) == account.status # "SUSPENDED"

MaySpend(account, n) == account.status # "SUSPENDED" /\ account.balance >= n

DebitLocks(r) ==
  /\ req[r].op = "custodial" /\ AccountFree(req[r].from)
  /\ MaySpend(accounts[req[r].from], req[r].amount)
  /\ req' = [req EXCEPT ![r].op = "debit", ![r].locked = {req[r].from},
                        ![r].read = accounts[req[r].from].balance]
  /\ UNCHANGED <<accounts, kyc, escrowVars, sends, funded>>

DebitCommits(r) ==
  /\ req[r].op = "debit"
  /\ accounts' = [accounts EXCEPT ![req[r].from].balance = req[r].read - req[r].amount]
  /\ Recorded(r)
  /\ UNCHANGED <<kyc, escrowVars, funded>>

(* Mutant: a suspended account gets no answer. *)
DebitRejectedForBalance(r) ==
  /\ req[r].op = "custodial" /\ AccountFree(req[r].from)
  /\ accounts[req[r].from].balance < req[r].amount
  /\ Answer(r)
  /\ UNCHANGED <<accounts, kyc, escrowVars, sends, funded>>

(* Account suspended, or insufficient balance.                             *)
DebitRejected(r) ==
  /\ req[r].op = "custodial" /\ AccountFree(req[r].from)
  /\ ~MaySpend(accounts[req[r].from], req[r].amount)
  /\ Answer(r)
  /\ UNCHANGED <<accounts, kyc, escrowVars, sends, funded>>

(* POST /pay/self/send keeps no balance: it records the send.              *)
SelfSendRecords(r) ==
  /\ req[r].op = "self"
  /\ Recorded(r)
  /\ UNCHANGED <<accounts, kyc, escrowVars, funded>>

(* createEscrow, a statement of its own after the commit.                  *)
createEscrow(r) ==
  /\ req[r].op = "escrow"
  /\ escrows' = Append(escrows,
       [for |-> req[r].to, sender |-> req[r].from, amount |-> req[r].amount,
        status |-> "HELD", mode |-> req[r].mode, send |-> req[r].send])
  /\ received' = Append(received, 0)
  /\ Answer(r)
  /\ UNCHANGED <<accounts, kyc, sends, funded>>

-----------------------------------------------------------------------------
(* claimEscrowForAddress.  It has no caller in the repository besides its  *)
(* tests; its doc comment has it called after KYC verification.            *)
ClaimChecksKyc(r, address) ==
  /\ req[r] = Idle /\ kyc[address] = "VERIFIED"
  /\ req' = [req EXCEPT ![r] = [Idle EXCEPT !.op = "claim", !.to = address]]
  /\ UNCHANGED <<accounts, kyc, escrowVars, sends, funded>>

(* Mutant: SELECT without FOR UPDATE. *)
ClaimReads(r) ==
  /\ req[r].op = "claim"
  /\ req' = [req EXCEPT ![r] = IF HeldFor(req[r].to) = {} THEN Idle
                               ELSE [@ EXCEPT !.op = "credit", !.rows = HeldFor(req[r].to)]]
  /\ UNCHANGED <<accounts, kyc, escrowVars, sends, funded>>

ClaimLocks(r) ==
  /\ req[r].op = "claim" /\ EscrowsFree(HeldFor(req[r].to))
  /\ req' = [req EXCEPT ![r] = IF HeldFor(req[r].to) = {} THEN Idle
                               ELSE [@ EXCEPT !.op = "credit", !.rows = HeldFor(req[r].to)]]
  /\ UNCHANGED <<accounts, kyc, escrowVars, sends, funded>>

(* The account of the address, locked with the first custodial escrow.     *)
Credited(q) == {a \in Deposits : a = q.to /\ Exists(a) /\ Custodial(q.rows) # {}}

(* Mutant: the account is read without waiting for its lock. *)
ClaimReadsAccount(r) ==
  /\ req[r].op = "credit"
  /\ req' = [req EXCEPT ![r].op = "release", ![r].locked = Credited(req[r]),
               ![r].read = IF Credited(req[r]) = {} THEN 0 ELSE accounts[req[r].to].balance]
  /\ UNCHANGED <<accounts, kyc, escrowVars, sends, funded>>

ClaimLocksAccount(r) ==
  /\ req[r].op = "credit" /\ \A a \in Credited(req[r]) : AccountFree(a)
  /\ req' = [req EXCEPT ![r].op = "release", ![r].locked = Credited(req[r]),
               ![r].read = IF Credited(req[r]) = {} THEN 0 ELSE accounts[req[r].to].balance]
  /\ UNCHANGED <<accounts, kyc, escrowVars, sends, funded>>

(* Custodial escrows are added to the balance of the account, if there is  *)
(* one; all of them are marked CLAIMED, the self-custodial ones too.       *)
ClaimCommits(r) ==
  /\ req[r].op = "release"
  /\ accounts' = [a \in Deposits |-> IF a \in req[r].locked
       THEN [accounts[a] EXCEPT !.balance = req[r].read + AmountOf(Custodial(req[r].rows))]
       ELSE accounts[a]]
  /\ escrows' = [i \in DOMAIN escrows |-> IF i \in req[r].rows
                   THEN [escrows[i] EXCEPT !.status = "CLAIMED"] ELSE escrows[i]]
  /\ received' = [i \in DOMAIN escrows |-> received[i] + IF i \in req[r].rows THEN 1 ELSE 0]
  /\ Answer(r)
  /\ UNCHANGED <<kyc, sends, funded>>

-----------------------------------------------------------------------------
RequestStep(r) ==
  \/ RegisterCreates(r) \/ RegisterConflicts(r) \/ KycWrites(r) \/ KycConflicts(r)
  \/ DebitLocks(r) \/ DebitCommits(r) \/ DebitRejected(r) \/ SelfSendRecords(r) \/ createEscrow(r)
  \/ ClaimLocks(r) \/ ClaimLocksAccount(r) \/ ClaimCommits(r)

Next ==
  \/ \E r \in Requests : RequestStep(r) \/ RequestFails(r)
  \/ \E r \in Requests, name \in Usernames : RegisterChecks(r, name)
  \/ \E r \in Requests, a \in Addresses : PostKyc(r, a) \/ ClaimChecksKyc(r, a)
  \/ \E r \in Requests, from, to \in Addresses, n \in Amounts, mode \in {"custodial", "self"} :
       SendChecksKyc(r, from, to, n, mode)
  \/ \E a \in Deposits : Suspend(a)
  \/ \E a \in Deposits, n \in Funds : Deposit(a, n)
  \/ \E a \in Addresses : Verify(a)

Spec == Init /\ [][Next]_vars

(* A request in progress runs on; the database grants a row lock in the    *)
(* order of the requests for it, so nobody waits for ever.                 *)
FairSpec == Spec /\ \A r \in Requests : SF_vars(RequestStep(r))

-----------------------------------------------------------------------------
(* All variables have their types; a balance is never negative.            *)
PayTypeOK ==
  /\ accounts \in [Deposits -> {NoAccount} \cup
       [name : Usernames, balance : Nat, status : {"ACTIVE", "SUSPENDED"}]]
  /\ kyc \in [Addresses -> {"NONE", "PENDING", "VERIFIED"}]
  /\ sends \in Seq([status : {"PENDING", "COMPLETED"}, amount : Amounts,
                     from : Addresses, to : Addresses, mode : {"custodial", "self"}])
  /\ escrows \in Seq([for : Addresses, sender : Addresses, amount : Amounts,
                       status : {"HELD", "CLAIMED"}, mode : {"custodial", "self"},
                       send : DOMAIN sends])
  /\ received \in [DOMAIN escrows -> Nat]
  /\ DOMAIN req = Requests /\ \A r \in Requests :
       /\ req[r].op \in {"idle", "register", "kyc", "custodial", "self", "debit", "escrow",
                         "claim", "credit", "release"}
       /\ req[r].rows \subseteq DOMAIN escrows /\ req[r].locked \subseteq Deposits
       /\ req[r].send \in {0} \cup DOMAIN sends /\ req[r].read \in Nat
  /\ funded \in [Deposits -> {0} \cup Funds]

(* No spend and no credit is lost or applied twice when requests overlap:  *)
(* every balance is what was deposited, less the recorded sends, plus the  *)
(* recorded releases of escrow.                                            *)
SentFrom(a) == {i \in DOMAIN sends : sends[i].from = a /\ sends[i].mode = "custodial"}
ReceivedBy(a) == {i \in Custodial(DOMAIN escrows) : escrows[i].for = a}
SendAmount == [i \in DOMAIN sends |-> sends[i].amount]
ReceivedAmount == [i \in DOMAIN escrows |-> received[i] * escrows[i].amount]
Spent(a) == SumFunctionOnSet(SendAmount, SentFrom(a))
Released(a) == SumFunctionOnSet(ReceivedAmount, ReceivedBy(a))
AccountsReconcile ==
  \A a \in Deposits : Exists(a) => accounts[a].balance = funded[a] - Spent(a) + Released(a)

(* Concurrent claims do not credit an escrow twice: there is one RECEIVE   *)
(* record for a claimed escrow and none for one that is held, what was     *)
(* sent is held in one escrow at most, and the receiver is shown what it   *)
(* has not received (getEscrowSummary).                                    *)
ClaimedOnce ==
  /\ \A i \in DOMAIN escrows : received[i] = IF escrows[i].status = "CLAIMED" THEN 1 ELSE 0
  /\ \A i, j \in DOMAIN escrows : escrows[i].send = escrows[j].send => i = j
  /\ \A a \in Addresses : getEscrowSummary(a).totalAmount =
       AmountOf({i \in DOMAIN escrows : escrows[i].for = a /\ received[i] = 0})

(* A suspended account spends nothing, whatever token it still has and     *)
(* however far its requests had come.                                      *)
SuspendedCannotSpend ==
  [][\A a \in Deposits : accounts[a].status = "SUSPENDED"
       => accounts'[a].balance >= accounts[a].balance]_vars

(* Row locks never block for ever: every request is answered.              *)
RequestsAnswered == \A r \in Requests : req[r] # Idle ~> req[r] = Idle

=============================================================================
