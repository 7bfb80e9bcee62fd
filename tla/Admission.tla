----------------------------- MODULE Admission -----------------------------
(***************************************************************************)
(* The admission of bundles, P_AddOperationsBundle: the gate of a disabled *)
(* channel, the fee and the TTL a bundle gets, and the UTXO records that   *)
(* are written before it is handed to the mempool.  BundleLifecycle        *)
(* follows a bundle from there; here that part is Settle, Drop and         *)
(* Restart.                                                                *)
(*                                                                         *)
(* A step of a request is what it does between two awaits.  Time is        *)
(* counted in ledgers.                                                     *)
(***************************************************************************)
EXTENDS Integers, Sequences, FiniteSets, FiniteSetsExt, Functions

CONSTANTS Bundles,
          Utxos,
          Requests,
          operations,    \* the parsed operations of each bundle, in their order
          MaxOperations, \* BUNDLE_MAX_OPERATIONS
          DefaultTtl,    \* DEFAULT_BUNDLE_TTL_MS, in ledgers
          RpcTimeout,    \* ADMISSION_RPC_TIMEOUT_MS, in ledgers
          MaxLedger,     \* bound of the clock
          MaxRestarts,   \* bound on restarts
          NoBundle

Unsigned == 0
Operation ==
  [type : {"create"}, utxo : Utxos, amount : Nat]
  \cup [type : {"spend"}, utxo : Utxos, exp : Nat]
  \cup [type : {"deposit", "withdraw"}, amount : Nat]

ASSUME AdmissionAssumption ==
  /\ NoBundle \notin Bundles
  /\ operations \in [Bundles -> Seq(Operation)]
  /\ {MaxOperations, DefaultTtl, RpcTimeout, MaxLedger, MaxRestarts} \subseteq Nat
  /\ MaxLedger >= 1

VARIABLES
  rows,       \* operations_bundles
  utxos,      \* utxos
  queued,     \* bundles in the hands of the mempool and of what follows it
  req,        \* requests in progress
  disabled,   \* channelRegistry: the council has disabled the channel
  balances,   \* external: the balance of each UTXO on chain
  created,    \* external: the UTXOs that were ever created on chain
  now,        \* the latest ledger
  restarts

chain == <<balances, created>>
vars == <<rows, utxos, queued, req, disabled, chain, now, restarts>>

NoRow == [status |-> "none", fee |-> 0, ttl |-> 0]
NoUtxo == [amount |-> 0, createdAt |-> NoBundle, spentAt |-> NoBundle, known |-> FALSE]
Idle == [pc |-> "idle", bundle |-> NoBundle, id |-> NoBundle, reuse |-> FALSE, fee |-> 0,
         ledger |-> 0, todo |-> {}, read |-> 0, spent |-> [u \in Utxos |-> 0]]

-----------------------------------------------------------------------------
(* The operations of a bundle by type, as their places in the bundle.      *)
classifyOperations(b) ==
  [t \in {"create", "spend", "deposit", "withdraw"} |->
     {i \in DOMAIN operations[b] : operations[b][i].type = t}]

isWithdrawOnlyBundle(b) ==
  LET classified == classifyOperations(b) IN
  classified["deposit"] = {} /\ classified["withdraw"] # {}

Amounts(b, type) == [i \in classifyOperations(b)[type] |-> operations[b][i].amount]
Total(b, type) == SumFunctionOnSet(Amounts(b, type), classifyOperations(b)[type])
Outflows(b) == Total(b, "create") + Total(b, "withdraw")
Deposited(b) == Total(b, "deposit")

UtxosOf(b, type) == {operations[b][i].utxo : i \in classifyOperations(b)[type]}

(* fetchUtxoBalances: one answer of the network for all spends.            *)
SpendBalances(b) ==
  [i \in classifyOperations(b)["spend"] |-> balances[operations[b][i].utxo]]
Spendable(b) == SumFunctionOnSet(SpendBalances(b), classifyOperations(b)["spend"])

(* Mutant: withdrawals are not an outflow. *)
calculateFeeBeforeWithdrawals(b) ==
  (IF Deposited(b) <= 0 THEN Spendable(b) ELSE Deposited(b))
  - Total(b, "create")

(* With a deposit the spends do not count.                                 *)
calculateFee(b) ==
  (IF Deposited(b) <= 0 THEN Spendable(b) ELSE Deposited(b)) - Outflows(b)

Expirations(b) == {operations[b][i].exp : i \in classifyOperations(b)["spend"]}

(* Mutant: the last signature to expire counts. *)
calculateBundleTtlLatest(b, ledger) ==
  now + Min({DefaultTtl} \cup {Max(Expirations(b)) - ledger : e \in Expirations(b)})

(* The distance to the earliest expiration is taken from the ledger that   *)
(* was read and added to the present time.                                 *)
calculateBundleTtl(b, ledger) ==
  now + Min({DefaultTtl} \cup {e - ledger : e \in Expirations(b)})

-----------------------------------------------------------------------------
Init ==
  /\ rows = [b \in Bundles |-> NoRow]
  /\ utxos = [u \in Utxos |-> NoUtxo]
  /\ queued = {}
  /\ req = [r \in Requests |-> Idle]
  /\ disabled = FALSE
  /\ balances = [u \in Utxos |-> 0] /\ created = {}
  /\ now = 1
  /\ restarts = 0

Answer(r) == req' = [req EXCEPT ![r] = Idle]
Goto(r, pc) == req' = [req EXCEPT ![r].pc = pc]

(* A call of the request throws: the database, or an RPC that fails or     *)
(* does not answer within the timeout.  What was written stays.            *)
RequestFails(r) ==
  /\ req[r] # Idle
  /\ Answer(r)
  /\ UNCHANGED <<rows, utxos, queued, disabled, chain, now, restarts>>

(* assertBundleIsExpired and validateSpendOperations.  Requests without a  *)
(* valid session, an approved entity or a channel of the provider change   *)
(* nothing here and are left out.                                          *)
Reusable(status) == status \in {"EXPIRED", "FAILED"}

CheckBundle(r, b) ==
  /\ req[r] = Idle
  /\ Len(operations[b]) <= MaxOperations
  /\ rows[b] = NoRow \/ Reusable(rows[b].status)
  /\ Unsigned \notin Expirations(b)
  /\ req' = [req EXCEPT ![r] =
       [Idle EXCEPT !.pc = "gate", !.bundle = b, !.reuse = rows[b] # NoRow]]
  /\ UNCHANGED <<rows, utxos, queued, disabled, chain, now, restarts>>

(* CHANNEL_DISABLED, or on to the network.                                 *)
PassGate(r) ==
  /\ req[r].pc = "gate"
  /\ IF disabled /\ ~isWithdrawOnlyBundle(req[r].bundle) THEN Answer(r) ELSE Goto(r, "fee")
  /\ UNCHANGED <<rows, utxos, queued, disabled, chain, now, restarts>>

(* Mutant: a bundle that spends more than it has is let through. *)
TakeFeeUnchecked(r) ==
  /\ req[r].pc = "fee"
  /\ req' = [req EXCEPT ![r].pc = "ledger", ![r].fee = calculateFee(req[r].bundle)]
  /\ UNCHANGED <<rows, utxos, queued, disabled, chain, now, restarts>>

(* INSUFFICIENT_BALANCE, or the fee.                                       *)
TakeFee(r) ==
  LET fee == calculateFee(req[r].bundle) IN
  /\ req[r].pc = "fee"
  /\ req' = IF fee < 1 THEN [req EXCEPT ![r] = Idle]
            ELSE [req EXCEPT ![r].pc = "ledger", ![r].fee = fee]
  /\ UNCHANGED <<rows, utxos, queued, disabled, chain, now, restarts>>

getLatestLedger(r) ==
  /\ req[r].pc = "ledger"
  /\ req' = [req EXCEPT ![r].pc = "row", ![r].ledger = now]
  /\ UNCHANGED <<rows, utxos, queued, disabled, chain, now, restarts>>

(* The row.  The primary key refuses a second insertion.  An update        *)
(* resolves to an array, whose id is undefined: the UTXOs of a reused      *)
(* bundle are recorded without it.                                         *)
InTime(r) == now <= req[r].ledger + RpcTimeout
Row(r) == [status |-> "PENDING", fee |-> req[r].fee,
           ttl |-> calculateBundleTtl(req[r].bundle, req[r].ledger)]

Creates(r) == classifyOperations(req[r].bundle)["create"]
Spends(r) == classifyOperations(req[r].bundle)["spend"]

(* From here on the request persists the UTXOs for bundleEntity.id.        *)
PersistFor(r, id) ==
  req' = [req EXCEPT ![r] = [Idle EXCEPT !.pc = "create", !.bundle = req[r].bundle,
                                         !.id = id, !.reuse = req[r].reuse,
                                         !.todo = Creates(r)]]

CreateRow(r) ==
  LET b == req[r].bundle IN
  /\ req[r].pc = "row" /\ ~req[r].reuse /\ InTime(r)
  /\ rows[b] = NoRow
  /\ rows' = [rows EXCEPT ![b] = Row(r)]
  /\ PersistFor(r, b)
  /\ UNCHANGED <<utxos, queued, disabled, chain, now, restarts>>

RowConflicts(r) ==
  /\ req[r].pc = "row" /\ ~req[r].reuse
  /\ rows[req[r].bundle] # NoRow
  /\ Answer(r)
  /\ UNCHANGED <<rows, utxos, queued, disabled, chain, now, restarts>>

ReuseRow(r) ==
  /\ req[r].pc = "row" /\ req[r].reuse /\ InTime(r)
  /\ rows' = [rows EXCEPT ![req[r].bundle] = Row(r)]
  /\ PersistFor(r, NoBundle)
  /\ UNCHANGED <<utxos, queued, disabled, chain, now, restarts>>

-----------------------------------------------------------------------------
(* The loops over the operations: the place one has reached, the operation *)
(* there, and the request as it goes on to the next.                       *)
Place(r) == Min(req[r].todo)
Current(r) == operations[req[r].bundle][Place(r)]
Advance(r, pc) == [req EXCEPT ![r].pc = pc, ![r].todo = req[r].todo \ {Place(r)}, ![r].read = 0]

(* persistCreateOperations: one operation after the other, a find and, for *)
(* an unknown UTXO, an insertion that the primary key may refuse.          *)
FindCreated(r) ==
  /\ req[r].pc = "create" /\ req[r].todo # {}
  /\ req' = IF utxos[Current(r).utxo].known THEN Advance(r, "create")
            ELSE [req EXCEPT ![r].pc = "insert"]
  /\ UNCHANGED <<rows, utxos, queued, disabled, chain, now, restarts>>

InsertUtxo(r) ==
  LET op == Current(r) IN
  /\ req[r].pc = "insert"
  /\ IF utxos[op.utxo].known
     THEN Answer(r) /\ UNCHANGED utxos
     ELSE /\ utxos' = [utxos EXCEPT ![op.utxo] =
               [amount |-> op.amount, createdAt |-> req[r].id, spentAt |-> NoBundle,
                known |-> TRUE]]
          /\ req' = Advance(r, "create")
  /\ UNCHANGED <<rows, queued, disabled, chain, now, restarts>>

CreatesPersisted(r) ==
  /\ req[r].pc = "create" /\ req[r].todo = {}
  /\ Goto(r, IF Spends(r) = {} THEN "queue" ELSE "balances")
  /\ UNCHANGED <<rows, utxos, queued, disabled, chain, now, restarts>>

(* persistSpendOperations: the balances once more, and for each spend a    *)
(* find and an update of what was found.                                   *)
FetchBalances(r) ==
  /\ req[r].pc = "balances"
  /\ req' = [req EXCEPT ![r].pc = "spend", ![r].todo = Spends(r),
       ![r].spent = [u \in Utxos |-> IF u \in UtxosOf(req[r].bundle, "spend")
                                     THEN balances[u] ELSE 0]]
  /\ UNCHANGED <<rows, utxos, queued, disabled, chain, now, restarts>>

(* Mutant: an unknown UTXO is skipped. *)
FindSpentSkipsUnknown(r) ==
  LET row == utxos[Current(r).utxo] IN
  /\ req[r].pc = "spend" /\ req[r].todo # {}
  /\ req' = IF row.known THEN [req EXCEPT ![r].pc = "update", ![r].read = row.amount]
            ELSE Advance(r, "spend")
  /\ UNCHANGED <<rows, utxos, queued, disabled, chain, now, restarts>>

(* UTXO_NOT_FOUND, or the row that is to be updated.                       *)
FindSpent(r) ==
  LET row == utxos[Current(r).utxo] IN
  /\ req[r].pc = "spend" /\ req[r].todo # {}
  /\ req' = IF row.known THEN [req EXCEPT ![r].pc = "update", ![r].read = row.amount]
            ELSE [req EXCEPT ![r] = Idle]
  /\ UNCHANGED <<rows, utxos, queued, disabled, chain, now, restarts>>

(* An undefined id leaves the column as it was.                            *)
UpdateSpent(r) ==
  /\ req[r].pc = "update"
  /\ utxos' = [utxos EXCEPT ![Current(r).utxo] =
       [utxos[Current(r).utxo] EXCEPT
          !.amount = req[r].read - req[r].spent[Current(r).utxo],
          !.spentAt = IF req[r].id = NoBundle THEN @ ELSE req[r].id]]
  /\ req' = Advance(r, "spend")
  /\ UNCHANGED <<rows, queued, disabled, chain, now, restarts>>

SpendsPersisted(r) ==
  /\ req[r].pc = "spend" /\ req[r].todo = {}
  /\ Goto(r, "queue")
  /\ UNCHANGED <<rows, utxos, queued, disabled, chain, now, restarts>>

(* createSlotBundle throws for a reused bundle, whose ttl is undefined.    *)
AddToMempool(r) ==
  /\ req[r].pc = "queue"
  /\ queued' = IF req[r].reuse THEN queued ELSE queued \cup {req[r].bundle}
  /\ Answer(r)
  /\ UNCHANGED <<rows, utxos, disabled, chain, now, restarts>>

-----------------------------------------------------------------------------
(* What follows admission.  The channel contract applies a bundle whose    *)
(* inputs exist, whose signatures are valid and whose outputs are new; the *)
(* verifier reports it, or gave it up before (FAILED).                     *)
Applicable(b) ==
  /\ \A u \in UtxosOf(b, "spend") : balances[u] > 0
  /\ \A e \in Expirations(b) : now <= e
  /\ UtxosOf(b, "create") \cap created = {}

(* What a bundle creates of UTXO u.                                        *)
Creation(b, u) ==
  operations[b][CHOOSE i \in classifyOperations(b)["create"] : operations[b][i].utxo = u]

Settle(b) ==
  /\ b \in queued /\ Applicable(b)
  /\ balances' = [u \in Utxos |->
       IF u \in UtxosOf(b, "spend") THEN 0
       ELSE IF u \in UtxosOf(b, "create") THEN Creation(b, u).amount
       ELSE balances[u]]
  /\ created' = created \cup UtxosOf(b, "create")
  /\ \E s \in {"COMPLETED", "FAILED"} : rows' = [rows EXCEPT ![b].status = s]
  /\ queued' = queued \ {b}
  /\ UNCHANGED <<utxos, req, disabled, now, restarts>>

(* Its TTL passes or its execution fails: the two are the same here.       *)
Drop(b) ==
  /\ b \in queued
  /\ rows' = [rows EXCEPT ![b].status = "EXPIRED"]
  /\ queued' = queued \ {b}
  /\ UNCHANGED <<utxos, req, disabled, chain, now, restarts>>

(* The requests are gone; every bundle that is still to be executed is     *)
(* loaded, also one whose request had failed half way.                     *)
Restart ==
  /\ restarts < MaxRestarts
  /\ restarts' = restarts + 1
  /\ req' = [r \in Requests |-> Idle]
  /\ queued' = {b \in Bundles : rows[b].status = "PENDING"}
  /\ UNCHANGED <<rows, utxos, disabled, chain, now>>

SetChannelState ==
  /\ disabled' = ~disabled
  /\ UNCHANGED <<rows, utxos, queued, req, chain, now, restarts>>

LedgerCloses ==
  /\ now < MaxLedger
  /\ now' = now + 1
  /\ UNCHANGED <<rows, utxos, queued, req, disabled, chain, restarts>>

-----------------------------------------------------------------------------
RequestStep(r) ==
  \/ PassGate(r) \/ TakeFee(r) \/ getLatestLedger(r)
  \/ CreateRow(r) \/ RowConflicts(r) \/ ReuseRow(r)
  \/ FindCreated(r) \/ InsertUtxo(r) \/ CreatesPersisted(r)
  \/ FetchBalances(r) \/ FindSpent(r) \/ UpdateSpent(r) \/ SpendsPersisted(r)
  \/ AddToMempool(r)

Next ==
  \/ \E r \in Requests, b \in Bundles : CheckBundle(r, b)
  \/ \E r \in Requests : RequestStep(r) \/ RequestFails(r)
  \/ \E b \in Bundles : Settle(b) \/ Drop(b)
  \/ Restart \/ SetChannelState \/ LedgerCloses

Spec == Init /\ [][Next]_vars

-----------------------------------------------------------------------------
Request ==
  [pc : {"idle", "gate", "fee", "ledger", "row", "create", "insert", "balances", "spend",
         "update", "queue"},
   bundle : Bundles \cup {NoBundle}, id : Bundles \cup {NoBundle}, reuse : BOOLEAN,
   fee : Nat, ledger : Nat, todo : SUBSET Nat, read : Int, spent : [Utxos -> Nat]]

(* All variables have their types, and a request is at an operation of its *)
(* bundle.                                                                 *)
AdmissionTypeOK ==
  /\ rows \in [Bundles -> [status : {"none", "PENDING", "COMPLETED", "FAILED", "EXPIRED"},
                           fee : Nat, ttl : Int]]
  /\ utxos \in [Utxos -> [amount : Int, createdAt : Bundles \cup {NoBundle},
                          spentAt : Bundles \cup {NoBundle}, known : BOOLEAN]]
  /\ queued \subseteq Bundles
  /\ req \in [Requests -> Request]
  /\ \A r \in Requests :
       /\ req[r].pc # "idle" => req[r].bundle \in Bundles
       /\ req[r].id \in {NoBundle, req[r].bundle}
       /\ req[r].pc \in {"create", "insert"} => req[r].todo \subseteq Creates(r)
       /\ req[r].pc \in {"spend", "update"} => req[r].todo \subseteq Spends(r)
       /\ req[r].pc \in {"insert", "update"} => req[r].todo # {}
  /\ disabled \in BOOLEAN
  /\ balances \in [Utxos -> Nat] /\ created \subseteq Utxos
  /\ now \in 1..MaxLedger /\ restarts \in 0..MaxRestarts

(* The UTXO records tell the history of the UTXOs, whatever requests race: *)
(* what is recorded as created or spent by a bundle is created or spent by *)
(* it, and a request hands a new bundle over only when each of its UTXOs   *)
(* has its record and each one it spends is marked as spent.               *)
UtxosRecorded ==
  /\ \A u \in Utxos, b \in Bundles :
       /\ utxos[u].createdAt = b => u \in UtxosOf(b, "create") /\ rows[b] # NoRow
       /\ utxos[u].spentAt = b => u \in UtxosOf(b, "spend") /\ rows[b] # NoRow
  /\ \A r \in Requests : req[r].pc = "queue" /\ ~req[r].reuse =>
       /\ \A u \in UtxosOf(req[r].bundle, "create") : utxos[u].known
       /\ \A u \in UtxosOf(req[r].bundle, "spend") : utxos[u].spentAt # NoBundle

(* A bundle that cannot pay its fee would make the transaction of its slot *)
(* fail.  The balances behind a fee are old when the bundle is executed;   *)
(* still, while none of its inputs was spent by another bundle, the        *)
(* bundle leaves at least the fee it is queued with.                       *)
FeeIsPayable ==
  \A b \in queued :
    (\A u \in UtxosOf(b, "spend") : balances[u] > 0) =>
      rows[b].fee >= 1 /\ Spendable(b) + Deposited(b) - Outflows(b) >= rows[b].fee

(* "A bundle kept past that point can never settle on-chain": no bundle    *)
(* has a TTL later than its earliest signature allows, up to the time the  *)
(* answer with the latest ledger may take.                                 *)
TtlWithinSignatures ==
  \A b \in Bundles : rows[b] # NoRow =>
    \A e \in Expirations(b) : rows[b].ttl <= e + RpcTimeout
=============================================================================
