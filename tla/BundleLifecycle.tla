--------------------------- MODULE BundleLifecycle ---------------------------
(***************************************************************************)
(* The life of a bundle through one provider process: admission            *)
(* (P_AddOperationsBundle), the queue (Mempool), the executor, the         *)
(* verifier, the TTL sweep, crash and boot, over the database they share   *)
(* and the Stellar network.                                                *)
(*                                                                         *)
(* The process is single threaded: a handler runs alone up to its next     *)
(* await.  Every database statement and every RPC call whose answer        *)
(* matters is therefore a step of its own, and the program counters below  *)
(* name the await a handler is suspended in.  Loops over the bundles of a  *)
(* slot keep the set still to do; their order is left open.                *)
(***************************************************************************)
EXTENDS Mempool

CONSTANTS
    Requests,        \* concurrent POST bundle requests
    Txs,             \* transaction hashes
    NoTx,            \* no transaction
    VerifierCycles,  \* invocations of verifyTransactions that may overlap
    MaxRetry,        \* MEMPOOL_MAX_RETRY_ATTEMPTS
    StartupExpiry,   \* MEMPOOL_STARTUP_MAX_BUNDLE_AGE_MS > 0
    MaxCrashes,      \* bound: process exits followed by a restart
    MaxFaults        \* bound: failing database statements and RPC calls

ASSUME CallersAssumption == {"executor", "boot"} \cap Requests = {}
ASSUME NoTxAssumption == NoTx \notin Txs
ASSUME MaxRetryAssumption == MaxRetry \in Nat \ {0}
ASSUME StartupExpiryAssumption == StartupExpiry \in BOOLEAN
ASSUME BoundsAssumption == MaxCrashes \in Nat /\ MaxFaults \in Nat

VARIABLES
    \* the database
    status,      \* operations_bundles.status
    retryCount,  \* operations_bundles.retry_count
    links,       \* bundles_transactions, a set of <<transaction, bundle>>
    txStatus,    \* transactions.status
    \* the process
    phase,       \* "down", "booting" (initialize) or "up"
    bootQueue,   \* the bundles initialize has yet to add
    call,        \* per caller of addBundle, where it is
    ex,          \* the executor
    sweeping,    \* removed by expireBundles, to be marked EXPIRED
    ver,         \* the verifier's cycles
    \* the network and the clock
    chain,       \* what became of each transaction
    content,     \* the bundles in each submitted transaction
    expired,     \* the bundles past their TTL
    timedOut,    \* the transactions past transactions.timeout
    \* history and bounds
    executions,  \* executions of a bundle since it was last admitted
    crashes, faults

db == <<status, retryCount, links, txStatus>>
process == <<slots, phase, bootQueue, call, ex, sweeping, ver>>
world == <<chain, content, expired, timedOut>>
vars == <<db, process, world, executions, crashes, faults>>

Active == {"PENDING", "PROCESSING"}
Reusable == {"EXPIRED", "FAILED"}
Terminal == Reusable \cup {"COMPLETED"}
Status == {"none"} \cup Active \cup Terminal

Callers == Requests \cup {"executor", "boot"}

IdleCall == [pc |-> "idle", bundle |-> NoBundle]
IdleEx == [pc |-> "idle", hand |-> {}, todo |-> {}, retrying |-> {},
           det |-> FALSE, tx |-> NoTx]
IdleCycle == [pc |-> "idle", todo |-> {}, tx |-> NoTx, ids |-> {}, res |-> "none"]

Init ==
    /\ MempoolInit
    /\ status = [b \in Bundles |-> "none"]
    /\ retryCount = [b \in Bundles |-> 0]
    /\ links = {}
    /\ txStatus = [t \in Txs |-> "none"]
    /\ phase = "down"
    /\ bootQueue = {}
    /\ call = [c \in Callers |-> IdleCall]
    /\ ex = IdleEx
    /\ sweeping = {}
    /\ ver = [v \in VerifierCycles |-> IdleCycle]
    /\ chain = [t \in Txs |-> "unused"]
    /\ content = [t \in Txs |-> {}]
    /\ expired = {}
    /\ timedOut = {}
    /\ executions = [b \in Bundles |-> 0]
    /\ crashes = 0
    /\ faults = 0

(* A database statement or an RPC call fails. *)
Fault ==
    /\ faults < MaxFaults
    /\ faults' = faults + 1

-----------------------------------------------------------------------------
(* Database statements *)

(* BaseRepository.update with a status: no row, no effect; otherwise the
   status is replaced whatever it was. *)
Overwritten(b, s) ==
    [status EXCEPT ![b] = IF @ = "none" THEN "none" ELSE s]

(* Mutant: the gate on the status is missing. *)
IfActiveUngated(b, s) == [status EXCEPT ![b] = s]

(* updateStatusIfActive and updateIfStatusIn: only an active row changes. *)
IfActive(b, s) ==
    [status EXCEPT ![b] = IF @ \in Active THEN s ELSE @]

(* Mutant: the links are read without the condition on the transaction. *)
LinkedBundlesOfAny(t) == {b \in Bundles : \E u \in Txs : <<u, b>> \in links}

LinkedBundles(t) == {b \in Bundles : <<t, b>> \in links}

Linked(b) == \E t \in Txs : <<t, b>> \in links

-----------------------------------------------------------------------------
(* Admission: P_AddOperationsBundle *)

(* assertBundleIsExpired: an unknown bundle will be created, an EXPIRED or
   FAILED one reused.  Everything between this read and the write of the row
   awaits the network. *)
CheckBundle(r, b) ==
    /\ phase = "up"
    /\ call[r].pc = "idle"
    /\ status[b] \in {"none"} \cup Reusable
    /\ call' = [call EXCEPT ![r] =
                  [pc |-> IF status[b] = "none" THEN "create" ELSE "reuse",
                   bundle |-> b]]
    /\ UNCHANGED <<db, slots, phase, bootQueue, ex, sweeping, ver, world,
                   executions, crashes, faults>>

(* BUNDLE_ALREADY_EXISTS *)
BundleAlreadyExists(r, b) ==
    /\ phase = "up"
    /\ call[r].pc = "idle"
    /\ status[b] \notin {"none"} \cup Reusable
    /\ UNCHANGED vars

(* The checks between the read and the write throw: unsigned spend, disabled
   channel, no positive fee, RPC unavailable. *)
RejectBundle(r) ==
    /\ call[r].pc \in {"create", "reuse"}
    /\ call' = [call EXCEPT ![r] = IdleCall]
    /\ UNCHANGED <<db, slots, phase, bootQueue, ex, sweeping, ver, world,
                   executions, crashes, faults>>

(* Mutant: the insertion is an upsert. *)
CreateRowUpserts(r) ==
    /\ call[r].pc = "create"
    /\ status' = [status EXCEPT ![call[r].bundle] = "PENDING"]
    /\ call' = [call EXCEPT ![r].pc = "persist"]
    /\ UNCHANGED <<retryCount, links, txStatus, slots, phase, bootQueue, ex,
                   sweeping, ver, world, executions, crashes, faults>>

(* The row is inserted; the primary key refuses a second insertion. *)
CreateRow(r) ==
    LET b == call[r].bundle IN
    /\ call[r].pc = "create"
    /\ \/ /\ status[b] = "none"
          /\ status' = [status EXCEPT ![b] = "PENDING"]
          /\ call' = [call EXCEPT ![r].pc = "persist"]
       \/ /\ status[b] # "none"
          /\ call' = [call EXCEPT ![r] = IdleCall]
          /\ UNCHANGED status
    /\ UNCHANGED <<retryCount, links, txStatus, slots, phase, bootQueue, ex,
                   sweeping, ver, world, executions, crashes, faults>>

(***************************************************************************)
(* The reuse of a row.  The update is unconditional and gives the bundle a *)
(* new TTL.  It resolves to the array of updated rows, not to a row, so    *)
(* the fields read from it are undefined and createSlotBundle throws on    *)
(* ttl.getTime(): the bundle is PENDING and the request ends before        *)
(* addBundle.                                                              *)
(***************************************************************************)
ReuseRow(r) ==
    LET b == call[r].bundle IN
    /\ call[r].pc = "reuse"
    /\ status' = Overwritten(b, "PENDING")
    /\ retryCount' = [retryCount EXCEPT ![b] = 0]
    /\ executions' = [executions EXCEPT ![b] = 0]
    /\ expired' \in {expired, expired \ {b}}
    /\ call' = [call EXCEPT ![r] = IdleCall]
    /\ UNCHANGED <<links, txStatus, slots, phase, bootQueue, ex, sweeping, ver,
                   chain, content, timedOut, crashes, faults>>

(* persistCreateOperations and persistSpendOperations; when one of them
   throws (UTXO_NOT_FOUND, RPC timeout) the row stays as it is. *)
PersistUtxos(r) ==
    /\ call[r].pc = "persist"
    /\ \/ call' = [call EXCEPT ![r].pc = "place"]
       \/ call' = [call EXCEPT ![r] = IdleCall]
    /\ UNCHANGED <<db, slots, phase, bootQueue, ex, sweeping, ver, world,
                   executions, crashes, faults>>

-----------------------------------------------------------------------------
(* Mempool.addBundle, for whoever called it *)

(* isBundleExpired: the bundle is marked EXPIRED instead of queued. *)
AddExpiredBundle(c) ==
    LET b == call[c].bundle IN
    /\ call[c].pc = "place"
    /\ b \in expired
    /\ status' = Overwritten(b, "EXPIRED")
    /\ call' = [call EXCEPT ![c] = IdleCall]
    /\ UNCHANGED <<retryCount, links, txStatus, slots, phase, bootQueue, ex,
                   sweeping, ver, world, executions, crashes, faults>>

QueueBundle(c) ==
    LET b == call[c].bundle IN
    /\ call[c].pc = "place"
    /\ b \notin expired
    /\ PlaceBundle(b)
    /\ call' = [call EXCEPT ![c].pc = "confirm"]
    /\ UNCHANGED <<db, phase, bootQueue, ex, sweeping, ver, world,
                   executions, crashes, faults>>

(* SLOT_FULL; reAddBundles logs it, a request answers with it. *)
QueueBundleSlotFull(c) ==
    LET b == call[c].bundle IN
    /\ c # "boot"
    /\ call[c].pc = "place"
    /\ b \notin expired
    /\ PlaceBundleSlotFull(b)
    /\ call' = [call EXCEPT ![c] = IdleCall]
    /\ UNCHANGED <<db, phase, bootQueue, ex, sweeping, ver, world,
                   executions, crashes, faults>>

(* updateStatusIfActive to PROCESSING; a bundle that is no longer active is
   purged from the queue. *)
ConfirmQueued(c) ==
    LET b == call[c].bundle IN
    /\ call[c].pc = "confirm"
    /\ status' = IfActive(b, "PROCESSING")
    /\ IF status[b] \in Active THEN UNCHANGED slots ELSE EvictBundles({b})
    /\ call' = [call EXCEPT ![c] = IdleCall]
    /\ UNCHANGED <<retryCount, links, txStatus, phase, bootQueue, ex, sweeping,
                   ver, world, executions, crashes, faults>>

(* The update of addBundle throws: a queued bundle is purged again. *)
AddBundleFault(c) ==
    /\ Fault
    /\ c # "boot"
    /\ \/ call[c].pc = "place" /\ call[c].bundle \in expired /\ UNCHANGED slots
       \/ call[c].pc = "confirm" /\ EvictBundles({call[c].bundle})
    /\ call' = [call EXCEPT ![c] = IdleCall]
    /\ UNCHANGED <<db, phase, bootQueue, ex, sweeping, ver, world,
                   executions, crashes>>

-----------------------------------------------------------------------------
(* The executor: executeNext *)

(* The loop over ex.todo is done with b; after the last one, next. *)
AfterBundle(b, next) ==
    IF ex.todo = {b} THEN next ELSE [ex EXCEPT !.todo = @ \ {b}]

(* isProcessing *)
ExecutorBusy == ex.pc # "idle" \/ call["executor"].pc # "idle"

(* Mutant: the first slot is looked at (getNextSlot) and stays in the queue. *)
TakeSlotPeeks ==
    /\ phase = "up"
    /\ ~ExecutorBusy
    /\ slots # <<>>
    /\ ex' = [IdleEx EXCEPT !.pc = "build", !.hand = slots[1].bundles]
    /\ UNCHANGED <<db, slots, phase, bootQueue, call, sweeping, ver, world,
                   executions, crashes, faults>>

(* removeFirstSlot, and the bundles of the slot past their TTL are set
   aside by expireSlotBundlesPastTtl. *)
TakeSlot ==
    LET taken == slots[1].bundles IN
    /\ phase = "up"
    /\ ~ExecutorBusy
    /\ RemoveFirstSlot
    /\ ex' = IF taken \cap expired = {}
             THEN [IdleEx EXCEPT !.pc = "build", !.hand = taken]
             ELSE [IdleEx EXCEPT !.pc = "evict", !.hand = taken \ expired,
                                 !.todo = taken \cap expired]
    /\ UNCHANGED <<db, phase, bootQueue, call, sweeping, ver, world,
                   executions, crashes, faults>>

EvictAtGate(b) ==
    /\ ex.pc = "evict"
    /\ b \in ex.todo
    /\ \/ status' = IfActive(b, "EXPIRED") /\ UNCHANGED faults
       \/ Fault /\ UNCHANGED status
    /\ ex' = AfterBundle(b, IF ex.hand = {} THEN IdleEx
                            ELSE [ex EXCEPT !.pc = "build", !.todo = {}])
    /\ UNCHANGED <<retryCount, links, txStatus, slots, phase, bootQueue, call,
                   sweeping, ver, world, executions, crashes>>

(* An execution of the slot in hand begins to have an outcome. *)
CountExecution ==
    executions' = [b \in Bundles |-> executions[b] + IF b \in ex.hand THEN 1 ELSE 0]

(* Context, build, pre-flight or submission throw; nothing was accepted by
   the network.  det: isDeterministic. *)
ExecutionFails(det) ==
    /\ ex.pc = "build"
    /\ CountExecution
    /\ ex' = [ex EXCEPT !.pc = "fail", !.todo = ex.hand, !.det = det]
    /\ UNCHANGED <<db, slots, phase, bootQueue, call, sweeping, ver, world,
                   crashes, faults>>

InsufficientFees ==
    /\ ex.pc = "build"
    /\ CountExecution
    /\ ex' = [ex EXCEPT !.pc = "fees", !.todo = ex.hand]
    /\ UNCHANGED <<db, slots, phase, bootQueue, call, sweeping, ver, world,
                   crashes, faults>>

(* Mutant: the hash the network returns is not kept. *)
SubmitTransactionForgetsHash(t) ==
    /\ ex.pc = "build"
    /\ chain[t] = "unused"
    /\ CountExecution
    /\ chain' = [chain EXCEPT ![t] = "inflight"]
    /\ content' = [content EXCEPT ![t] = ex.hand]
    /\ ex' = [ex EXCEPT !.pc = "record"]
    /\ UNCHANGED <<db, slots, phase, bootQueue, call, sweeping, ver, expired,
                   timedOut, crashes, faults>>

(* The network accepts the transaction.  Its hash is returned, or the answer
   is lost and the submission throws. *)
SubmitTransaction(t) ==
    /\ ex.pc = "build"
    /\ chain[t] = "unused"
    /\ CountExecution
    /\ chain' = [chain EXCEPT ![t] = "inflight"]
    /\ content' = [content EXCEPT ![t] = ex.hand]
    /\ \/ /\ ex' = [ex EXCEPT !.pc = "record", !.tx = t]
          /\ UNCHANGED faults
       \/ /\ Fault
          /\ ex' = [ex EXCEPT !.pc = "fail", !.todo = ex.hand]
    /\ UNCHANGED <<db, slots, phase, bootQueue, call, sweeping, ver, expired,
                   timedOut, crashes>>

(* createTransactionRecord inserts the transaction and then one link per
   bundle; a failure leaves what was inserted and goes to the failure path. *)
RecordTransaction ==
    /\ ex.pc = "record"
    /\ txStatus' = [txStatus EXCEPT ![ex.tx] = "UNVERIFIED"]
    /\ ex' = [ex EXCEPT !.pc = "link", !.todo = ex.hand]
    /\ UNCHANGED <<status, retryCount, links, slots, phase, bootQueue, call,
                   sweeping, ver, world, executions, crashes, faults>>

LinkBundle(b) ==
    /\ ex.pc = "link"
    /\ b \in ex.todo
    /\ links' = links \cup {<<ex.tx, b>>}
    /\ ex' = AfterBundle(b, IdleEx)
    /\ UNCHANGED <<status, retryCount, txStatus, slots, phase, bootQueue, call,
                   sweeping, ver, world, executions, crashes, faults>>

RecordFault ==
    /\ Fault
    /\ ex.pc \in {"record", "link"}
    /\ ex' = [ex EXCEPT !.pc = "fail", !.todo = ex.hand, !.tx = NoTx]
    /\ UNCHANGED <<db, slots, phase, bootQueue, call, sweeping, ver, world,
                   executions, crashes>>

(* The InsufficientFees branch: FAILED, whatever the status, and no retry. *)
FailForFees(b) ==
    /\ ex.pc = "fees"
    /\ b \in ex.todo
    /\ \/ status' = Overwritten(b, "FAILED") /\ UNCHANGED faults
       \/ Fault /\ UNCHANGED status
    /\ ex' = AfterBundle(b, IdleEx)
    /\ UNCHANGED <<retryCount, links, txStatus, slots, phase, bootQueue, call,
                   sweeping, ver, world, executions, crashes>>

(* Mutant: the attempt that has just failed is not counted. *)
HasReachedMaxAttemptsLate(b) == retryCount[b] >= MaxRetry

(* hasReachedMaxAttempts, with the attempt that has just failed *)
HasReachedMaxAttempts(b) == retryCount[b] + 1 >= MaxRetry

(* handleExecutionFailure for one bundle: FAILED when the failure is
   deterministic or the attempts are used up, PENDING and a retry otherwise;
   a bundle that is no longer active is left alone. *)
HandleExecutionFailure(b) ==
    LET terminal == ex.det \/ HasReachedMaxAttempts(b)
        active == status[b] \in Active
        kept == IF active /\ ~terminal THEN ex.retrying \cup {b} ELSE ex.retrying
        step(retrying) == IF ex.todo # {b}
                          THEN [ex EXCEPT !.todo = @ \ {b}, !.retrying = retrying]
                          ELSE IF retrying = {} THEN IdleEx
                          ELSE [IdleEx EXCEPT !.pc = "readd", !.retrying = retrying]
    IN
    /\ ex.pc = "fail"
    /\ b \in ex.todo
    /\ \/ /\ status' = IfActive(b, IF terminal THEN "FAILED" ELSE "PENDING")
          /\ retryCount' = [retryCount EXCEPT ![b] = IF active THEN @ + 1 ELSE @]
          /\ ex' = step(kept)
          /\ UNCHANGED faults
       \/ /\ Fault
          /\ ex' = step(ex.retrying)
          /\ UNCHANGED <<status, retryCount>>
    /\ UNCHANGED <<links, txStatus, slots, phase, bootQueue, call, sweeping, ver,
                   world, executions, crashes>>

(* reAddBundles: one addBundle after the other. *)
ReAddBundle(b) ==
    /\ ex.pc = "readd"
    /\ call["executor"].pc = "idle"
    /\ b \in ex.retrying
    /\ call' = [call EXCEPT !["executor"] = [pc |-> "place", bundle |-> b]]
    /\ ex' = IF ex.retrying = {b} THEN IdleEx
             ELSE [ex EXCEPT !.retrying = @ \ {b}]
    /\ UNCHANGED <<db, slots, phase, bootQueue, sweeping, ver, world,
                   executions, crashes, faults>>

-----------------------------------------------------------------------------
(* The TTL sweep: expireBundles *)

SweepSlots ==
    LET S == Queued \cap expired IN
    /\ phase = "up"
    /\ S # {}
    /\ EvictBundles(S)
    /\ sweeping' = sweeping \cup S
    /\ UNCHANGED <<db, phase, bootQueue, call, ex, ver, world,
                   executions, crashes, faults>>

MarkExpired(b) ==
    /\ b \in sweeping
    /\ status' = Overwritten(b, "EXPIRED")
    /\ sweeping' = sweeping \ {b}
    /\ UNCHANGED <<retryCount, links, txStatus, slots, phase, bootQueue, call,
                   ex, ver, world, executions, crashes, faults>>

(* An update throws: the sweep ends, the bundles it had left are forgotten. *)
SweepFault ==
    /\ Fault
    /\ \E lost \in SUBSET sweeping :
          /\ lost # {}
          /\ sweeping' = sweeping \ lost
    /\ UNCHANGED <<db, slots, phase, bootQueue, call, ex, ver, world,
                   executions, crashes>>

-----------------------------------------------------------------------------
(* The verifier: verifyTransactions; nothing keeps two cycles apart *)

(* Done with a transaction; after the last one the cycle ends. *)
NextTx(c) == IF c.todo = {} THEN IdleCycle ELSE [IdleCycle EXCEPT !.pc = "read", !.todo = c.todo]

StartCycle(v) ==
    LET unverified == {t \in Txs : txStatus[t] = "UNVERIFIED"} IN
    /\ phase = "up"
    /\ ver[v].pc = "idle"
    /\ unverified # {}
    /\ ver' = [ver EXCEPT ![v] = [IdleCycle EXCEPT !.pc = "read", !.todo = unverified]]
    /\ UNCHANGED <<db, slots, phase, bootQueue, call, ex, sweeping, world,
                   executions, crashes, faults>>

(* The links of the next transaction; without any the transaction is left
   for a later cycle. *)
ReadLinks(v, t) ==
    LET rest == [ver[v] EXCEPT !.todo = @ \ {t}]
        ids == LinkedBundles(t)
    IN
    /\ ver[v].pc = "read"
    /\ t \in ver[v].todo
    /\ ver' = [ver EXCEPT ![v] = IF ids = {} THEN NextTx(rest)
                                 ELSE [rest EXCEPT !.pc = "query", !.tx = t, !.ids = ids]]
    /\ UNCHANGED <<db, slots, phase, bootQueue, call, ex, sweeping, world,
                   executions, crashes, faults>>

(* Mutant: whatever the network has closed counts as verified. *)
NetworkAnswerAnyClosed(t) ==
    IF chain[t] \in {"success", "failed"} THEN "VERIFIED" ELSE "PENDING"

(* What getTransaction answers: anything but SUCCESS and FAILED is PENDING. *)
NetworkAnswer(t) ==
    CASE chain[t] = "success" -> "VERIFIED"
      [] chain[t] = "failed" -> "FAILED"
      [] OTHER -> "PENDING"

(* verifyTransactionOnNetwork; an RPC error counts as PENDING. *)
QueryNetwork(v) ==
    /\ ver[v].pc = "query"
    /\ \/ /\ ver' = [ver EXCEPT ![v].pc = "decide", ![v].res = NetworkAnswer(ver[v].tx)]
          /\ UNCHANGED faults
       \/ /\ Fault
          /\ ver' = [ver EXCEPT ![v].pc = "decide", ![v].res = "PENDING"]
    /\ UNCHANGED <<db, slots, phase, bootQueue, call, ex, sweeping, world,
                   executions, crashes>>

(* Mutant: there is no confirmation timeout. *)
StaysPendingForever(c) == c.res = "PENDING"

StaysPending(c) == c.res = "PENDING" /\ c.tx \notin timedOut

(* A pending transaction past its timeout is treated as failed, before it
   the transaction is left for a later cycle. *)
StillPending(v) ==
    /\ ver[v].pc = "decide"
    /\ StaysPending(ver[v])
    /\ ver' = [ver EXCEPT ![v] = NextTx(@)]
    /\ UNCHANGED <<db, slots, phase, bootQueue, call, ex, sweeping, world,
                   executions, crashes, faults>>

(* updateTransactionStatus, first in handleVerificationSuccess and in
   handleVerificationFailure; if it throws the transaction is left as it is. *)
MarkTransaction(v) ==
    /\ ver[v].pc = "decide"
    /\ ~StaysPending(ver[v])
    /\ \/ /\ txStatus' = [txStatus EXCEPT ![ver[v].tx] =
                             IF ver[v].res = "VERIFIED" THEN "VERIFIED" ELSE "FAILED"]
          /\ ver' = [ver EXCEPT ![v].pc = "mark"]
          /\ UNCHANGED faults
       \/ /\ Fault
          /\ ver' = [ver EXCEPT ![v] = NextTx(@)]
          /\ UNCHANGED txStatus
    /\ UNCHANGED <<status, retryCount, links, slots, phase, bootQueue, call, ex,
                   sweeping, world, executions, crashes>>

(* The bundles read with the transaction become COMPLETED or, with the
   retry count, FAILED: both callers pass terminal.  Errors are logged. *)
MarkBundle(v, b) ==
    LET good == ver[v].res = "VERIFIED"
        rest == [ver[v] EXCEPT !.ids = @ \ {b}]
    IN
    /\ ver[v].pc = "mark"
    /\ b \in ver[v].ids
    /\ \/ /\ status' = Overwritten(b, IF good THEN "COMPLETED" ELSE "FAILED")
          /\ retryCount' = [retryCount EXCEPT ![b] = IF good THEN @ ELSE @ + 1]
          /\ UNCHANGED faults
       \/ Fault /\ UNCHANGED <<status, retryCount>>
    /\ ver' = [ver EXCEPT ![v] = IF rest.ids = {} THEN NextTx(rest) ELSE rest]
    /\ UNCHANGED <<links, txStatus, slots, phase, bootQueue, call, ex, sweeping,
                   world, executions, crashes>>

-----------------------------------------------------------------------------
(* Crash and boot *)

(* Everything in memory is gone. *)
MemoryLost ==
    /\ slots' = <<>>
    /\ phase' = "down"
    /\ bootQueue' = {}
    /\ call' = [c \in Callers |-> IdleCall]
    /\ ex' = IdleEx
    /\ sweeping' = {}
    /\ ver' = [v \in VerifierCycles |-> IdleCycle]

Crash ==
    /\ phase # "down"
    /\ crashes < MaxCrashes
    /\ crashes' = crashes + 1
    /\ MemoryLost
    /\ UNCHANGED <<db, world, executions, faults>>

(* Mempool.initialize: the optional startup expiry, then
   loadPendingBundlesFromDB with its reconciliation guard.  Nothing else runs
   in the process yet. *)
LoadBundles ==
    \E old \in SUBSET {b \in Bundles : status[b] \in Active} :
        /\ StartupExpiry \/ old = {}
        /\ phase = "down"
        /\ phase' = "booting"
        /\ status' = [b \in Bundles |-> IF b \in old THEN "EXPIRED" ELSE status[b]]
        /\ bootQueue' = {b \in Bundles : \/ status'[b] = "PENDING"
                                         \/ status'[b] = "PROCESSING" /\ ~Linked(b)}
        /\ UNCHANGED <<retryCount, links, txStatus, slots, call, ex, sweeping, ver,
                       world, executions, crashes, faults>>

BootBundle(b) ==
    /\ phase = "booting"
    /\ call["boot"].pc = "idle"
    /\ b \in bootQueue
    /\ bootQueue' = bootQueue \ {b}
    /\ call' = [call EXCEPT !["boot"] = [pc |-> "place", bundle |-> b]]
    /\ UNCHANGED <<db, slots, phase, ex, sweeping, ver, world,
                   executions, crashes, faults>>

(* addBundle throws SLOT_FULL out of initialize: bootstrap exits. *)
BootAborts ==
    /\ call["boot"].pc = "place"
    /\ call["boot"].bundle \notin expired
    /\ \E carry \in Carries(call["boot"].bundle) :
          LET left == carry[Len(slots)] IN
          /\ Cascade(call["boot"].bundle, carry)
          /\ left # NoBundle
          /\ Weight[left] > Capacity
    /\ MemoryLost
    /\ UNCHANGED <<db, world, executions, crashes, faults>>

BootDone ==
    /\ phase = "booting"
    /\ bootQueue = {}
    /\ call["boot"].pc = "idle"
    /\ phase' = "up"
    /\ UNCHANGED <<db, slots, bootQueue, call, ex, sweeping, ver, world,
                   executions, crashes, faults>>

-----------------------------------------------------------------------------
(* The clock and the network *)

TtlPasses(b) ==
    /\ status[b] # "none"
    /\ b \notin expired
    /\ expired' = expired \cup {b}
    /\ UNCHANGED <<db, process, chain, content, timedOut, executions, crashes, faults>>

ConfirmationTimeout(t) ==
    /\ txStatus[t] = "UNVERIFIED"
    /\ t \notin timedOut
    /\ timedOut' = timedOut \cup {t}
    /\ UNCHANGED <<db, process, chain, content, expired, executions, crashes, faults>>

(* The bundles whose operations took effect. *)
Applied == UNION {content[t] : t \in {u \in Txs : chain[u] = "success"}}

(* The network includes a transaction.  The channel contract refuses one that
   holds a bundle already applied (its UTXOs are spent, its deposit nonce is
   used).  A transaction that is dropped stays "inflight" forever. *)
Ledger(t) ==
    /\ chain[t] = "inflight"
    /\ \/ /\ content[t] \cap Applied = {}
          /\ chain' = [chain EXCEPT ![t] = "success"]
       \/ chain' = [chain EXCEPT ![t] = "failed"]
    /\ UNCHANGED <<db, process, content, expired, timedOut, executions, crashes, faults>>

-----------------------------------------------------------------------------
AdmissionNext ==
    \E r \in Requests :
        \/ \E b \in Bundles : CheckBundle(r, b) \/ BundleAlreadyExists(r, b)
        \/ RejectBundle(r)
        \/ CreateRow(r)
        \/ ReuseRow(r)
        \/ PersistUtxos(r)

AddBundleNext ==
    \E c \in Callers :
        \/ AddExpiredBundle(c)
        \/ QueueBundle(c)
        \/ QueueBundleSlotFull(c)
        \/ ConfirmQueued(c)
        \/ AddBundleFault(c)

ExecutorNext ==
    \/ TakeSlot
    \/ \E det \in BOOLEAN : ExecutionFails(det)
    \/ InsufficientFees
    \/ \E t \in Txs : SubmitTransaction(t)
    \/ RecordTransaction
    \/ RecordFault
    \/ \E b \in Bundles :
          \/ EvictAtGate(b)
          \/ LinkBundle(b)
          \/ FailForFees(b)
          \/ HandleExecutionFailure(b)
          \/ ReAddBundle(b)

SweepNext ==
    \/ SweepSlots
    \/ \E b \in Bundles : MarkExpired(b)
    \/ SweepFault

VerifierStep(v) ==
    \/ StartCycle(v)
    \/ \E t \in Txs : ReadLinks(v, t)
    \/ QueryNetwork(v)
    \/ StillPending(v)
    \/ MarkTransaction(v)
    \/ \E b \in Bundles : MarkBundle(v, b)

VerifierNext == \E v \in VerifierCycles : VerifierStep(v)

BootNext ==
    \/ LoadBundles
    \/ \E b \in Bundles : BootBundle(b)
    \/ BootAborts
    \/ BootDone

WorldNext ==
    \/ \E b \in Bundles : TtlPasses(b)
    \/ \E t \in Txs : ConfirmationTimeout(t) \/ Ledger(t)

Next ==
    \/ AdmissionNext
    \/ AddBundleNext
    \/ ExecutorNext
    \/ SweepNext
    \/ VerifierNext
    \/ BootNext
    \/ Crash
    \/ WorldNext

Spec == Init /\ [][Next]_vars

(***************************************************************************)
(* Fairness.  A started handler keeps running: the event loop resumes it   *)
(* after every await, and every database and RPC call returns or throws.   *)
(* The executor, the verifier and the sweep run on timers that never stop  *)
(* while the process is up, and a process that exits is started again.     *)
(* The clock passes every timeout.  Nothing is assumed of clients or of    *)
(* the network: no request has to arrive and a transaction may never be    *)
(* included in a ledger.                                                   *)
(***************************************************************************)
Fairness ==
    /\ \A r \in Requests : WF_vars(CreateRow(r) \/ ReuseRow(r) \/ PersistUtxos(r))
    /\ \A c \in Callers : WF_vars(AddExpiredBundle(c) \/ QueueBundle(c)
                                   \/ QueueBundleSlotFull(c) \/ ConfirmQueued(c))
    /\ WF_vars(ExecutorNext)
    /\ WF_vars(SweepSlots)
    /\ WF_vars(\E b \in Bundles : MarkExpired(b))
    /\ \A v \in VerifierCycles : WF_vars(VerifierStep(v))
    /\ WF_vars(BootNext)
    /\ \A t \in Txs : WF_vars(ConfirmationTimeout(t))

FairSpec == Spec /\ Fairness

-----------------------------------------------------------------------------
(* Properties *)

DatabaseType ==
    /\ status \in [Bundles -> Status]
    /\ retryCount \in [Bundles -> Nat]
    /\ links \subseteq Txs \X Bundles
    /\ txStatus \in [Txs -> {"none", "UNVERIFIED", "VERIFIED", "FAILED"}]

CallType ==
    /\ call \in [Callers ->
                    [pc : {"idle", "create", "reuse", "persist", "place", "confirm"},
                     bundle : Bundles \cup {NoBundle}]]
    /\ \A c \in Callers : call[c].pc # "idle" => call[c].bundle \in Bundles

ExecutorType ==
    /\ ex \in [pc : {"idle", "evict", "build", "fees", "record", "link", "fail", "readd"},
               hand : SUBSET Bundles, todo : SUBSET Bundles,
               retrying : SUBSET Bundles, det : BOOLEAN, tx : Txs \cup {NoTx}]
    /\ ex.pc \in {"record", "link"} => ex.tx \in Txs

VerifierType ==
    /\ ver \in [VerifierCycles ->
                   [pc : {"idle", "read", "query", "decide", "mark"},
                    todo : SUBSET Txs, tx : Txs \cup {NoTx}, ids : SUBSET Bundles,
                    res : {"none", "VERIFIED", "FAILED", "PENDING"}]]
    /\ \A v \in VerifierCycles :
          ver[v].pc \in {"query", "decide", "mark"} => ver[v].tx \in Txs

PhaseType ==
    /\ phase \in {"down", "booting", "up"}
    /\ bootQueue \subseteq Bundles
    /\ sweeping \subseteq Bundles

WorldType ==
    /\ chain \in [Txs -> {"unused", "inflight", "success", "failed"}]
    /\ content \in [Txs -> SUBSET Bundles]
    /\ expired \subseteq Bundles
    /\ timedOut \subseteq Txs

HistoryType ==
    /\ executions \in [Bundles -> Nat]
    /\ crashes \in Nat
    /\ faults \in Nat

(* Every handler leaves the database, the memory of the process and the
   transactions in their domains; in particular a suspended caller has a
   bundle, and a recording executor and a querying verifier cycle have a
   transaction. *)
TypeOK ==
    /\ MempoolTypeOK
    /\ DatabaseType
    /\ CallType
    /\ ExecutorType
    /\ VerifierType
    /\ PhaseType
    /\ WorldType
    /\ HistoryType

(* A bundle reported COMPLETED took effect on chain, whichever verifier cycle
   wrote it, on whatever links it had read, after any crash or retry.  A
   client that reads COMPLETED treats its funds as moved. *)
CompletedIsApplied ==
    \A b \in Bundles : status[b] = "COMPLETED" => b \in Applied

LinksSound ==
    \A t \in Txs, b \in Bundles :
        <<t, b>> \in links => b \in content[t] /\ chain[t] # "unused"

ExecutorSound ==
    /\ ex.pc = "record" => ex.hand \subseteq content[ex.tx] /\ chain[ex.tx] # "unused"
    /\ ex.pc = "link" => ex.todo \subseteq content[ex.tx] /\ chain[ex.tx] # "unused"

CycleSound(c) ==
    c.pc \in {"query", "decide", "mark"} =>
        /\ c.ids \subseteq content[c.tx]
        /\ chain[c.tx] # "unused"
        /\ (c.pc # "query" /\ c.res = "VERIFIED") => chain[c.tx] = "success"

(* What the database and the handlers in progress record about a submission
   is true of the network: a link, and the bundles the executor is linking or
   a verifier cycle has read, are bundles of the transaction; a cycle that
   goes on to write COMPLETED saw a transaction that succeeded.  The inductive
   invariant behind CompletedIsApplied. *)
RecordsSound ==
    /\ LinksSound
    /\ ExecutorSound
    /\ \A v \in VerifierCycles : CycleSound(ver[v])

(* Who holds a bundle that is on its way to execution: a request or the boot
   about to queue it, a slot, the executor. *)
Holders(b) ==
    {<<"caller", c>> : c \in {d \in Callers : /\ call[d].bundle = b
                                             /\ call[d].pc \in {"persist", "place"}}}
    \cup {<<"slot", i>> : i \in {j \in DOMAIN slots : b \in slots[j].bundles}}
    \cup {<<"executor", x>> : x \in {y \in {"hand", "retrying"} :
                                      b \in ex[y] /\ (y = "hand" \/ ex.pc = "readd")}}
    \cup {<<"boot", x>> : x \in {y \in {"queue"} : b \in bootQueue}}

(* At any time a bundle has at most one holder in the process, through
   concurrent submissions of the same bundle, retries, sweeps, crash and boot:
   addBundle itself does not look for duplicates, and a bundle held twice is
   executed twice. *)
SingleCustody == \A b \in Bundles : Cardinality(Holders(b)) <= 1

(* MEMPOOL_MAX_RETRY_ATTEMPTS is "Max attempts before a bundle is marked
   failed": however failures, lost answers and crashes interleave, a bundle is
   executed at most that often, plus once for each crash that interrupted an
   execution before it was counted in the database. *)
ExecutionsBounded ==
    \A b \in Bundles : executions[b] <= MaxRetry + crashes

(* Without a crash and without a failing call no bundle is in two
   transactions: the executor runs one slot at a time, and retries only what
   the network did not accept. *)
SubmittedOnce ==
    (crashes = 0 /\ faults = 0) =>
        \A t, u \in Txs : t # u => content[t] \cap content[u] = {}

(* What a resubmission found EXPIRED or FAILED and may still write. *)
Reopening == {call[r].bundle : r \in {q \in Requests : call[q].pc = "reuse"}}

Settlement == INSTANCE BundleSettlement WITH
    applied <- Applied,
    reopening <- Reopening

(* The process implements BundleSettlement: effects happen once, COMPLETED
   follows an effect, and no status update of the executor, the verifier, the
   sweep or the boot makes a terminal bundle active again. *)
ImplementsSettlement == Settlement!Spec

(* A queued bundle ends COMPLETED, FAILED or EXPIRED, also when bundles of
   higher priority keep taking its place and the network drops its
   transaction. *)
QueuedBundleTerminates ==
    \A b \in Bundles : (b \in Queued) ~> (status[b] \in Terminal)

(* A resubmission that found its bundle EXPIRED or FAILED, which "may be
   reused", is rejected or its bundle is processed: it does not stay PENDING. *)
ReusedBundleProceeds ==
    \A b \in Bundles :
        (b \in Reopening) ~> (b \notin Reopening /\ status[b] # "PENDING")

=============================================================================
