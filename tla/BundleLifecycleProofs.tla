------------------------ MODULE BundleLifecycleProofs ------------------------
(* Proofs about the bundle lifecycle, for any number of bundles, requests,
   transactions and overlapping verifier cycles, any slot capacity and retry
   limit, and any number of crashes and failing calls. *)
EXTENDS BundleLifecycle, MempoolProofs

(* The parts of the type invariant that a step leaves alone. *)
LEMMA Untouched ==
    /\ (MempoolTypeOK /\ UNCHANGED slots) => MempoolTypeOK'
    /\ (DatabaseType /\ UNCHANGED db) => DatabaseType'
    /\ (CallType /\ UNCHANGED call) => CallType'
    /\ (ExecutorType /\ UNCHANGED ex) => ExecutorType'
    /\ (VerifierType /\ UNCHANGED ver) => VerifierType'
    /\ (PhaseType /\ UNCHANGED <<phase, bootQueue, sweeping>>) => PhaseType'
    /\ (WorldType /\ UNCHANGED world) => WorldType'
    /\ (HistoryType /\ UNCHANGED <<executions, crashes, faults>>) => HistoryType'
<1>1. (MempoolTypeOK /\ UNCHANGED slots) => MempoolTypeOK'
  BY DEF MempoolTypeOK
<1>2. (DatabaseType /\ UNCHANGED db) => DatabaseType'
  BY DEF DatabaseType, db
<1>3. (CallType /\ UNCHANGED call) => CallType'
  BY DEF CallType
<1>4. (ExecutorType /\ UNCHANGED ex) => ExecutorType'
  BY DEF ExecutorType
<1>5. (VerifierType /\ UNCHANGED ver) => VerifierType'
  BY DEF VerifierType
<1>6. (PhaseType /\ UNCHANGED <<phase, bootQueue, sweeping>>) => PhaseType'
  BY DEF PhaseType
<1>7. (WorldType /\ UNCHANGED world) => WorldType'
  BY DEF WorldType, world
<1>8. (HistoryType /\ UNCHANGED <<executions, crashes, faults>>) => HistoryType'
  BY DEF HistoryType
<1> QED BY <1>1, <1>2, <1>3, <1>4, <1>5, <1>6, <1>7, <1>8

LEMMA IdleTypes ==
    /\ IdleCall \in [pc : {"idle"}, bundle : {NoBundle}]
    /\ IdleEx \in [pc : {"idle"}, hand : {{}}, todo : {{}}, retrying : {{}},
                   det : {FALSE}, tx : {NoTx}]
    /\ IdleCycle \in [pc : {"idle"}, todo : {{}}, tx : {NoTx}, ids : {{}}, res : {"none"}]
BY DEF IdleCall, IdleEx, IdleCycle

(* A caller of addBundle goes idle, or on with a bundle. *)
LEMMA CallStep ==
    ASSUME CallType, NEW c \in Callers
    PROVE  /\ call' = [call EXCEPT ![c] = IdleCall] => CallType'
           /\ \A b \in Bundles :
                \A p \in {"create", "reuse", "persist", "place", "confirm"} :
                  call' = [call EXCEPT ![c] = [pc |-> p, bundle |-> b]] => CallType'
           /\ \A p \in {"persist", "place", "confirm"} :
                (call[c].pc # "idle" /\ call' = [call EXCEPT ![c].pc = p]) => CallType'
<1>1. call' = [call EXCEPT ![c] = IdleCall] => CallType'
  BY DEF CallType, IdleCall
<1>2. \A b \in Bundles :
        \A p \in {"create", "reuse", "persist", "place", "confirm"} :
          call' = [call EXCEPT ![c] = [pc |-> p, bundle |-> b]] => CallType'
  BY DEF CallType
<1>3. \A p \in {"persist", "place", "confirm"} :
        (call[c].pc # "idle" /\ call' = [call EXCEPT ![c].pc = p]) => CallType'
  BY DEF CallType
<1> QED BY <1>1, <1>2, <1>3

(* Writing a status keeps the table of bundles well formed. *)
LEMMA StatusStep ==
    ASSUME DatabaseType, NEW b \in Bundles
    PROVE  /\ \A s \in Status : Overwritten(b, s) \in [Bundles -> Status]
           /\ \A s \in Status : IfActive(b, s) \in [Bundles -> Status]
           /\ [status EXCEPT ![b] = "PENDING"] \in [Bundles -> Status]
<1>1. \A s \in Status : Overwritten(b, s) \in [Bundles -> Status]
  BY DEF Overwritten, DatabaseType, Status
<1>2. \A s \in Status : IfActive(b, s) \in [Bundles -> Status]
  BY DEF IfActive, DatabaseType, Status
<1>3. [status EXCEPT ![b] = "PENDING"] \in [Bundles -> Status]
  BY DEF DatabaseType, Status, Active
<1> QED BY <1>1, <1>2, <1>3

LEMMA StatusValues ==
    /\ {"PENDING", "PROCESSING", "COMPLETED", "FAILED", "EXPIRED", "none"} = Status
    /\ Active = {"PENDING", "PROCESSING"}
BY DEF Status, Active, Terminal, Reusable

LEMMA AdmissionKeepsType ==
    ASSUME TypeOK, AdmissionNext
    PROVE  TypeOK'
<1> USE Untouched DEF TypeOK
<1>1. PICK r \in Requests :
        \/ \E b \in Bundles : CheckBundle(r, b) \/ BundleAlreadyExists(r, b)
        \/ RejectBundle(r)
        \/ CreateRow(r)
        \/ ReuseRow(r)
        \/ PersistUtxos(r)
  BY DEF AdmissionNext
<1>2. r \in Callers
  BY DEF Callers
<1>3. ASSUME NEW b \in Bundles, CheckBundle(r, b)
      PROVE  TypeOK'
  <2>1. CallType'
    BY <1>2, <1>3, CallStep DEF CheckBundle
  <2> QED BY <2>1, <1>3 DEF CheckBundle
<1>4. ASSUME NEW b \in Bundles, BundleAlreadyExists(r, b)
      PROVE  TypeOK'
  BY <1>4 DEF BundleAlreadyExists, vars, process
<1>5. CASE RejectBundle(r)
  <2>1. CallType'
    BY <1>2, <1>5, CallStep DEF RejectBundle
  <2> QED BY <2>1, <1>5 DEF RejectBundle
<1>6. CASE CreateRow(r)
  <2>1. call[r].bundle \in Bundles
    BY <1>2, <1>6 DEF CallType, CreateRow
  <2>2. CallType'
    BY <1>2, <1>6, CallStep DEF CreateRow
  <2>3. DatabaseType'
    BY <1>6, <2>1, StatusStep DEF CreateRow, DatabaseType
  <2> QED BY <2>2, <2>3, <1>6 DEF CreateRow
<1>7. CASE ReuseRow(r)
  <2>1. call[r].bundle \in Bundles
    BY <1>2, <1>7 DEF CallType, ReuseRow
  <2>2. CallType'
    BY <1>2, <1>7, CallStep DEF ReuseRow
  <2>3. DatabaseType'
    BY <1>7, <2>1, StatusStep, StatusValues DEF ReuseRow, DatabaseType
  <2>4. WorldType'
    BY <1>7 DEF ReuseRow, WorldType
  <2>5. HistoryType'
    BY <1>7 DEF ReuseRow, HistoryType
  <2> QED BY <2>2, <2>3, <2>4, <2>5, <1>7 DEF ReuseRow
<1>8. CASE PersistUtxos(r)
  <2>1. CallType'
    BY <1>2, <1>8, CallStep DEF PersistUtxos
  <2> QED BY <2>1, <1>8 DEF PersistUtxos
<1> QED BY <1>1, <1>3, <1>4, <1>5, <1>6, <1>7, <1>8

LEMMA FaultKeepsType ==
    ASSUME HistoryType, Fault, UNCHANGED <<executions, crashes>>
    PROVE  HistoryType'
BY DEF HistoryType, Fault

LEMMA AddBundleKeepsType ==
    ASSUME TypeOK, AddBundleNext
    PROVE  TypeOK'
<1> USE Untouched DEF TypeOK
<1>1. PICK c \in Callers :
        \/ AddExpiredBundle(c)
        \/ QueueBundle(c)
        \/ QueueBundleSlotFull(c)
        \/ ConfirmQueued(c)
        \/ AddBundleFault(c)
  BY DEF AddBundleNext
<1> DEFINE b == call[c].bundle
<1>2. call[c].pc # "idle" => b \in Bundles
  BY DEF CallType
<1>3. CASE AddExpiredBundle(c)
  <2>1. CallType'
    BY <1>3, CallStep DEF AddExpiredBundle
  <2>2. DatabaseType'
    BY <1>2, <1>3, StatusStep, StatusValues DEF AddExpiredBundle, DatabaseType
  <2> QED BY <2>1, <2>2, <1>3 DEF AddExpiredBundle
<1>4. CASE QueueBundle(c)
  <2>1. CallType'
    BY <1>4, CallStep DEF QueueBundle
  <2>2. MempoolTypeOK'
    BY <1>2, <1>4, PlaceBundleType DEF QueueBundle
  <2> QED BY <2>1, <2>2, <1>4 DEF QueueBundle
<1>5. CASE QueueBundleSlotFull(c)
  <2>1. CallType'
    BY <1>5, CallStep DEF QueueBundleSlotFull
  <2>2. MempoolTypeOK'
    BY <1>2, <1>5, PlaceBundleSlotFullType DEF QueueBundleSlotFull
  <2> QED BY <2>1, <2>2, <1>5 DEF QueueBundleSlotFull
<1>6. CASE ConfirmQueued(c)
  <2>1. CallType'
    BY <1>6, CallStep DEF ConfirmQueued
  <2>2. DatabaseType'
    BY <1>2, <1>6, StatusStep, StatusValues DEF ConfirmQueued, DatabaseType
  <2>3. MempoolTypeOK'
    BY <1>6, EvictBundlesType DEF ConfirmQueued
  <2> QED BY <2>1, <2>2, <2>3, <1>6 DEF ConfirmQueued
<1>7. CASE AddBundleFault(c)
  <2>1. CallType'
    BY <1>7, CallStep DEF AddBundleFault
  <2>2. MempoolTypeOK'
    BY <1>7, EvictBundlesType DEF AddBundleFault
  <2>3. HistoryType'
    BY <1>7, FaultKeepsType DEF AddBundleFault
  <2> QED BY <2>1, <2>2, <2>3, <1>7 DEF AddBundleFault
<1> QED BY <1>1, <1>3, <1>4, <1>5, <1>6, <1>7

(* The executor moves on to another program counter, with sets of bundles. *)
LEMMA ExecutorStep ==
    ASSUME NEW p \in {"evict", "build", "fees", "fail", "readd"},
           NEW hand \in SUBSET Bundles, NEW todo \in SUBSET Bundles,
           NEW retrying \in SUBSET Bundles, NEW det \in BOOLEAN,
           NEW t \in Txs \cup {NoTx},
           ex' = [pc |-> p, hand |-> hand, todo |-> todo, retrying |-> retrying,
                  det |-> det, tx |-> t]
    PROVE  ExecutorType'
BY DEF ExecutorType

LEMMA IdleExecutor ==
    ASSUME ex' = IdleEx
    PROVE  ExecutorType'
BY DEF ExecutorType, IdleEx

LEMMA AfterBundleKeepsType ==
    ASSUME ExecutorType, NEW b, NEW next, ex' = AfterBundle(b, next),
           ex' = next => ExecutorType'
    PROVE  ExecutorType'
BY DEF AfterBundle, ExecutorType

LEMMA CountKeepsType ==
    ASSUME HistoryType, CountExecution, UNCHANGED crashes,
           UNCHANGED faults \/ Fault
    PROVE  HistoryType'
<1>1. executions' \in [Bundles -> Nat]
  BY DEF HistoryType, CountExecution
<1> QED BY <1>1 DEF HistoryType, Fault

LEMMA ExecutorKeepsType ==
    ASSUME TypeOK, ExecutorNext
    PROVE  TypeOK'
<1> USE Untouched DEF TypeOK
<1>1. CASE TakeSlot
  <2>1. MempoolTypeOK' /\ slots[1].bundles \subseteq Bundles
    <3>1. MempoolTypeOK' /\ slots[1] \in Slot
      BY <1>1, RemoveFirstSlotType DEF TakeSlot
    <3> QED BY <3>1 DEF Slot
  <2>2. ExecutorType'
    BY <1>1, <2>1 DEF TakeSlot, IdleEx, ExecutorType
  <2> QED BY <2>1, <2>2, <1>1 DEF TakeSlot
<1>2. ASSUME NEW det \in BOOLEAN, ExecutionFails(det)
      PROVE  TypeOK'
  <2>1. ExecutorType'
    BY <1>2 DEF ExecutionFails, ExecutorType
  <2>2. HistoryType'
    BY <1>2, CountKeepsType DEF ExecutionFails
  <2> QED BY <2>1, <2>2, <1>2 DEF ExecutionFails
<1>3. CASE InsufficientFees
  <2>1. ExecutorType'
    BY <1>3 DEF InsufficientFees, ExecutorType
  <2>2. HistoryType'
    BY <1>3, CountKeepsType DEF InsufficientFees
  <2> QED BY <2>1, <2>2, <1>3 DEF InsufficientFees
<1>4. ASSUME NEW t \in Txs, SubmitTransaction(t)
      PROVE  TypeOK'
  <2>1. ExecutorType'
    BY <1>4 DEF SubmitTransaction, ExecutorType
  <2>2. HistoryType'
    BY <1>4, CountKeepsType DEF SubmitTransaction
  <2>3. WorldType'
    BY <1>4 DEF SubmitTransaction, WorldType, ExecutorType
  <2> QED BY <2>1, <2>2, <2>3, <1>4 DEF SubmitTransaction
<1>5. CASE RecordTransaction
  <2>1. ExecutorType'
    BY <1>5 DEF RecordTransaction, ExecutorType
  <2>2. DatabaseType'
    BY <1>5 DEF RecordTransaction, DatabaseType
  <2> QED BY <2>1, <2>2, <1>5 DEF RecordTransaction
<1>6. CASE RecordFault
  <2>1. ExecutorType'
    BY <1>6 DEF RecordFault, ExecutorType
  <2> QED BY <2>1, <1>6, FaultKeepsType DEF RecordFault
<1>7. ASSUME NEW b \in Bundles, EvictAtGate(b)
      PROVE  TypeOK'
  <2>1. ExecutorType'
    BY <1>7 DEF EvictAtGate, AfterBundle, IdleEx, ExecutorType
  <2>2. DatabaseType'
    <3>1. status' \in [Bundles -> Status]
      <4>1. status' = IfActive(b, "EXPIRED") \/ status' = status
        BY <1>7 DEF EvictAtGate
      <4>2. IfActive(b, "EXPIRED") \in [Bundles -> Status]
        BY StatusStep, StatusValues
      <4> QED BY <4>1, <4>2 DEF DatabaseType
    <3> QED BY <3>1, <1>7 DEF EvictAtGate, DatabaseType
  <2>3. HistoryType'
    BY <1>7, FaultKeepsType DEF EvictAtGate
  <2> QED BY <2>1, <2>2, <2>3, <1>7 DEF EvictAtGate
<1>8. ASSUME NEW b \in Bundles, LinkBundle(b)
      PROVE  TypeOK'
  <2>1. ExecutorType'
    BY <1>8, IdleExecutor, AfterBundleKeepsType DEF LinkBundle
  <2>2. DatabaseType'
    BY <1>8 DEF LinkBundle, DatabaseType, ExecutorType
  <2> QED BY <2>1, <2>2, <1>8 DEF LinkBundle
<1>9. ASSUME NEW b \in Bundles, FailForFees(b)
      PROVE  TypeOK'
  <2>1. ExecutorType'
    BY <1>9, IdleExecutor, AfterBundleKeepsType DEF FailForFees
  <2>2. DatabaseType'
    <3>1. status' \in [Bundles -> Status]
      <4>1. status' = Overwritten(b, "FAILED") \/ status' = status
        BY <1>9 DEF FailForFees
      <4>2. Overwritten(b, "FAILED") \in [Bundles -> Status]
        BY StatusStep, StatusValues
      <4> QED BY <4>1, <4>2 DEF DatabaseType
    <3> QED BY <3>1, <1>9 DEF FailForFees, DatabaseType
  <2>3. HistoryType'
    BY <1>9, FaultKeepsType DEF FailForFees
  <2> QED BY <2>1, <2>2, <2>3, <1>9 DEF FailForFees
<1>10. ASSUME NEW b \in Bundles, HandleExecutionFailure(b)
       PROVE  TypeOK'
  <2>1. ExecutorType'
    <3>1. PICK retrying \in {ex.retrying, ex.retrying \cup {b}} :
            \/ ex' = [ex EXCEPT !.todo = @ \ {b}, !.retrying = retrying]
            \/ ex' = IdleEx
            \/ ex' = [IdleEx EXCEPT !.pc = "readd", !.retrying = retrying]
      BY <1>10 DEF HandleExecutionFailure
    <3>2. retrying \subseteq Bundles
      BY DEF ExecutorType
    <3>3. CASE ex' = [ex EXCEPT !.todo = @ \ {b}, !.retrying = retrying]
      BY <3>2, <3>3 DEF ExecutorType
    <3>4. CASE ex' = [IdleEx EXCEPT !.pc = "readd", !.retrying = retrying]
      BY <3>2, <3>4 DEF IdleEx, ExecutorType
    <3> QED BY <3>1, <3>3, <3>4, IdleExecutor
  <2>2. DatabaseType'
    <3>1. status' \in [Bundles -> Status]
      BY <1>10, StatusStep, StatusValues DEF HandleExecutionFailure, DatabaseType
    <3>2. retryCount' \in [Bundles -> Nat]
      BY <1>10 DEF HandleExecutionFailure, DatabaseType
    <3> QED BY <3>1, <3>2, <1>10 DEF HandleExecutionFailure, DatabaseType
  <2>3. HistoryType'
    BY <1>10, FaultKeepsType DEF HandleExecutionFailure
  <2> QED BY <2>1, <2>2, <2>3, <1>10 DEF HandleExecutionFailure
<1>11. ASSUME NEW b \in Bundles, ReAddBundle(b)
       PROVE  TypeOK'
  <2>1. ExecutorType'
    BY <1>11 DEF ReAddBundle, IdleEx, ExecutorType
  <2>2. CallType'
    BY <1>11, CallStep DEF ReAddBundle, Callers
  <2> QED BY <2>1, <2>2, <1>11 DEF ReAddBundle
<1> QED BY <1>1, <1>2, <1>3, <1>4, <1>5, <1>6, <1>7, <1>8, <1>9, <1>10, <1>11
        DEF ExecutorNext

LEMMA SweepKeepsType ==
    ASSUME TypeOK, SweepNext
    PROVE  TypeOK'
<1> USE Untouched DEF TypeOK
<1>1. CASE SweepSlots
  <2>1. MempoolTypeOK'
    BY <1>1, EvictBundlesType DEF SweepSlots
  <2>2. PhaseType'
    BY <1>1 DEF SweepSlots, PhaseType, WorldType
  <2> QED BY <2>1, <2>2, <1>1 DEF SweepSlots
<1>2. ASSUME NEW b \in Bundles, MarkExpired(b)
      PROVE  TypeOK'
  <2>1. DatabaseType'
    BY <1>2, StatusStep, StatusValues DEF MarkExpired, DatabaseType
  <2>2. PhaseType'
    BY <1>2 DEF MarkExpired, PhaseType
  <2> QED BY <2>1, <2>2, <1>2 DEF MarkExpired
<1>3. CASE SweepFault
  <2>1. PhaseType'
    BY <1>3 DEF SweepFault, PhaseType
  <2> QED BY <2>1, <1>3, FaultKeepsType DEF SweepFault
<1> QED BY <1>1, <1>2, <1>3 DEF SweepNext

LEMMA NextTxType ==
    ASSUME VerifierType, NEW v \in VerifierCycles, NEW todo \in SUBSET Txs,
           NEW c, c.todo = todo, ver' = [ver EXCEPT ![v] = NextTx(c)]
    PROVE  VerifierType'
BY DEF NextTx, IdleCycle, VerifierType

LEMMA VerifierKeepsType ==
    ASSUME TypeOK, VerifierNext
    PROVE  TypeOK'
<1> USE Untouched DEF TypeOK
<1>0. PICK v \in VerifierCycles : VerifierStep(v)
  BY DEF VerifierNext
<1>a. ver[v].todo \in SUBSET Txs
  BY DEF VerifierType
<1>1. CASE StartCycle(v)
  <2>1. VerifierType'
    BY <1>1 DEF StartCycle, IdleCycle, VerifierType
  <2> QED BY <2>1, <1>1 DEF StartCycle
<1>2. ASSUME NEW t \in Txs, ReadLinks(v, t)
      PROVE  TypeOK'
  <2>1. VerifierType'
    BY <1>2 DEF ReadLinks, NextTx, IdleCycle, LinkedBundles, VerifierType
  <2> QED BY <2>1, <1>2 DEF ReadLinks
<1>3. CASE QueryNetwork(v)
  <2>1. VerifierType'
    BY <1>3 DEF QueryNetwork, NetworkAnswer, VerifierType
  <2>2. HistoryType'
    BY <1>3, FaultKeepsType DEF QueryNetwork
  <2> QED BY <2>1, <2>2, <1>3 DEF QueryNetwork
<1>4. CASE StillPending(v)
  <2>1. VerifierType'
    BY <1>4, <1>a, NextTxType DEF StillPending
  <2> QED BY <2>1, <1>4 DEF StillPending
<1>5. CASE MarkTransaction(v)
  <2>1. VerifierType'
    <3>1. CASE ver' = [ver EXCEPT ![v].pc = "mark"] /\ ver[v].pc = "decide"
      BY <3>1 DEF VerifierType
    <3> QED BY <1>5, <1>a, <3>1, NextTxType DEF MarkTransaction
  <2>2. DatabaseType'
    BY <1>5 DEF MarkTransaction, DatabaseType
  <2>3. HistoryType'
    BY <1>5, FaultKeepsType DEF MarkTransaction
  <2> QED BY <2>1, <2>2, <2>3, <1>5 DEF MarkTransaction
<1>6. ASSUME NEW b \in Bundles, MarkBundle(v, b)
      PROVE  TypeOK'
  <2>1. VerifierType'
    BY <1>6 DEF MarkBundle, NextTx, IdleCycle, VerifierType
  <2>2. DatabaseType'
    <3>1. status' \in [Bundles -> Status]
      BY <1>6, StatusStep, StatusValues DEF MarkBundle, DatabaseType
    <3>2. retryCount' \in [Bundles -> Nat]
      BY <1>6 DEF MarkBundle, DatabaseType
    <3> QED BY <3>1, <3>2, <1>6 DEF MarkBundle, DatabaseType
  <2>3. HistoryType'
    BY <1>6, FaultKeepsType DEF MarkBundle
  <2> QED BY <2>1, <2>2, <2>3, <1>6 DEF MarkBundle
<1> QED BY <1>0, <1>1, <1>2, <1>3, <1>4, <1>5, <1>6 DEF VerifierStep

LEMMA MemoryLostType ==
    ASSUME MemoryLost
    PROVE  MempoolTypeOK' /\ CallType' /\ ExecutorType' /\ VerifierType' /\ PhaseType'
<1>1. MempoolTypeOK'
  BY DEF MemoryLost, MempoolTypeOK
<1>2. CallType'
  BY DEF MemoryLost, CallType, IdleCall
<1>3. ExecutorType'
  BY IdleExecutor DEF MemoryLost
<1>4. VerifierType'
  BY DEF MemoryLost, VerifierType, IdleCycle
<1>5. PhaseType'
  BY DEF MemoryLost, PhaseType
<1> QED BY <1>1, <1>2, <1>3, <1>4, <1>5

LEMMA BootKeepsType ==
    ASSUME TypeOK, BootNext \/ Crash
    PROVE  TypeOK'
<1> USE Untouched DEF TypeOK
<1>1. CASE LoadBundles
  <2>1. DatabaseType'
    BY <1>1, StatusValues DEF LoadBundles, DatabaseType
  <2>2. PhaseType'
    BY <1>1 DEF LoadBundles, PhaseType
  <2> QED BY <2>1, <2>2, <1>1 DEF LoadBundles
<1>2. ASSUME NEW b \in Bundles, BootBundle(b)
      PROVE  TypeOK'
  <2>1. CallType'
    BY <1>2, CallStep DEF BootBundle, Callers
  <2>2. PhaseType'
    BY <1>2 DEF BootBundle, PhaseType
  <2> QED BY <2>1, <2>2, <1>2 DEF BootBundle
<1>3. CASE BootAborts
  BY <1>3, MemoryLostType DEF BootAborts
<1>4. CASE BootDone
  <2>1. PhaseType'
    BY <1>4 DEF BootDone, PhaseType
  <2> QED BY <2>1, <1>4 DEF BootDone
<1>5. CASE Crash
  <2>1. HistoryType'
    BY <1>5 DEF Crash, HistoryType
  <2> QED BY <2>1, <1>5, MemoryLostType DEF Crash
<1> QED BY <1>1, <1>2, <1>3, <1>4, <1>5 DEF BootNext

LEMMA WorldKeepsType ==
    ASSUME TypeOK, WorldNext
    PROVE  TypeOK'
<1> USE Untouched DEF TypeOK
<1>1. ASSUME NEW b \in Bundles, TtlPasses(b)
      PROVE  TypeOK'
  BY <1>1 DEF TtlPasses, WorldType, process
<1>2. ASSUME NEW t \in Txs, ConfirmationTimeout(t)
      PROVE  TypeOK'
  BY <1>2 DEF ConfirmationTimeout, WorldType, process
<1>3. ASSUME NEW t \in Txs, Ledger(t)
      PROVE  TypeOK'
  BY <1>3 DEF Ledger, WorldType, process
<1> QED BY <1>1, <1>2, <1>3 DEF WorldNext

LEMMA NextKeepsType == TypeOK /\ [Next]_vars => TypeOK'
<1> SUFFICES ASSUME TypeOK, [Next]_vars PROVE TypeOK'
  OBVIOUS
<1>1. CASE UNCHANGED vars
  BY <1>1, Untouched DEF TypeOK, vars, process
<1> QED BY <1>1, AdmissionKeepsType, AddBundleKeepsType, ExecutorKeepsType,
           SweepKeepsType, VerifierKeepsType, BootKeepsType, WorldKeepsType DEF Next

LEMMA InitType == Init => TypeOK
<1> SUFFICES ASSUME Init PROVE TypeOK
  OBVIOUS
<1>1. MempoolTypeOK
  BY DEF Init, MempoolInit, MempoolTypeOK
<1>2. DatabaseType
  BY StatusValues DEF Init, DatabaseType
<1>3. CallType
  BY DEF Init, CallType, IdleCall
<1>4. ExecutorType
  BY DEF Init, ExecutorType, IdleEx
<1>5. VerifierType
  BY DEF Init, VerifierType, IdleCycle
<1>6. PhaseType /\ WorldType /\ HistoryType
  BY DEF Init, PhaseType, WorldType, HistoryType
<1> QED BY <1>1, <1>2, <1>3, <1>4, <1>5, <1>6 DEF TypeOK

(* Every reachable state of the process, the database and the network is well
   typed, for any number of bundles, requests and transactions: no handler of
   admission, queue, executor, sweep, verifier or boot stores a value outside
   its domain. *)
THEOREM TypeCorrect == Spec => []TypeOK
BY InitType, NextKeepsType, PTL DEF Spec

-----------------------------------------------------------------------------
(* Submissions and settlement *)

(* The network only moves forward: a submitted transaction stays submitted
   with its content, and a successful one stays successful. *)
ChainGrows ==
    \A t \in Txs : chain[t] # "unused" =>
        /\ chain'[t] # "unused"
        /\ content'[t] = content[t]
        /\ chain[t] = "success" => chain'[t] = "success"

LEMMA LedgerGrows ==
    ASSUME TypeOK, NEW t \in Txs, Ledger(t)
    PROVE  ChainGrows
BY DEF Ledger, ChainGrows, TypeOK, WorldType

LEMMA SubmitGrows ==
    ASSUME TypeOK, NEW t \in Txs, SubmitTransaction(t)
    PROVE  ChainGrows
BY DEF SubmitTransaction, ChainGrows, TypeOK, WorldType

LEMMA QuietGrows ==
    ASSUME UNCHANGED <<chain, content>>
    PROVE  ChainGrows
BY DEF ChainGrows

(* Only the executor's submission and the network itself change the chain. *)
LEMMA OthersQuiet ==
    ASSUME \/ AdmissionNext \/ AddBundleNext \/ SweepNext \/ VerifierNext
           \/ BootNext \/ Crash
    PROVE  UNCHANGED <<chain, content>>
<1>1. CASE AdmissionNext
  BY <1>1 DEF AdmissionNext, CheckBundle, BundleAlreadyExists, RejectBundle, CreateRow,
              ReuseRow, PersistUtxos, world, vars
<1>2. CASE AddBundleNext
  BY <1>2 DEF AddBundleNext, AddExpiredBundle, QueueBundle, QueueBundleSlotFull,
              ConfirmQueued, AddBundleFault, world
<1>3. CASE SweepNext
  BY <1>3 DEF SweepNext, SweepSlots, MarkExpired, SweepFault, world
<1>4. CASE VerifierNext
  BY <1>4 DEF VerifierNext, VerifierStep, StartCycle, ReadLinks, QueryNetwork,
              StillPending, MarkTransaction, MarkBundle, world
<1>5. CASE BootNext
  BY <1>5 DEF BootNext, LoadBundles, BootBundle, BootAborts, BootDone, world
<1>6. CASE Crash
  BY <1>6 DEF Crash, world
<1> QED BY <1>1, <1>2, <1>3, <1>4, <1>5, <1>6

LEMMA NextGrows ==
    ASSUME TypeOK, [Next]_vars
    PROVE  ChainGrows
<1>1. CASE UNCHANGED vars
  BY <1>1, QuietGrows DEF vars, world
<1>2. CASE ExecutorNext
  <2>1. CASE \E t \in Txs : SubmitTransaction(t)
    BY <2>1, SubmitGrows
  <2>2. CASE ~\E t \in Txs : SubmitTransaction(t)
    <3>1. UNCHANGED <<chain, content>>
      BY <1>2, <2>2 DEF ExecutorNext, TakeSlot, ExecutionFails, InsufficientFees,
         RecordTransaction, RecordFault, EvictAtGate, LinkBundle, FailForFees,
         HandleExecutionFailure, ReAddBundle, world
    <3> QED BY <3>1, QuietGrows
  <2> QED BY <2>1, <2>2
<1>3. CASE WorldNext
  <2>1. ASSUME NEW b \in Bundles, TtlPasses(b) PROVE ChainGrows
    BY <2>1, QuietGrows DEF TtlPasses
  <2>2. ASSUME NEW t \in Txs, ConfirmationTimeout(t) PROVE ChainGrows
    BY <2>2, QuietGrows DEF ConfirmationTimeout
  <2> QED BY <1>3, <2>1, <2>2, LedgerGrows DEF WorldNext
<1> QED BY <1>1, <1>2, <1>3, OthersQuiet, QuietGrows DEF Next

(* What was applied stays applied. *)
LEMMA AppliedGrows ==
    ASSUME TypeOK, ChainGrows
    PROVE  Applied \subseteq Applied'
<1> SUFFICES ASSUME NEW b \in Applied PROVE b \in Applied'
  OBVIOUS
<1>1. PICK t \in Txs : chain[t] = "success" /\ b \in content[t]
  BY DEF Applied
<1>2. chain'[t] = "success" /\ content'[t] = content[t]
  BY <1>1 DEF ChainGrows
<1> QED BY <1>1, <1>2 DEF Applied

(* A sound record stays sound while the chain moves forward. *)
LEMMA SoundStays ==
    ASSUME TypeOK, ChainGrows
    PROVE  /\ LinksSound /\ UNCHANGED links => LinksSound'
           /\ ExecutorSound /\ UNCHANGED ex => ExecutorSound'
           /\ \A v \in VerifierCycles :
                CycleSound(ver[v]) /\ ver'[v] = ver[v] => CycleSound(ver[v])'
<1>1. LinksSound /\ UNCHANGED links => LinksSound'
  BY DEF LinksSound, ChainGrows
<1>2. ExecutorSound /\ UNCHANGED ex => ExecutorSound'
  BY DEF ExecutorSound, ChainGrows, TypeOK, ExecutorType
<1>3. ASSUME NEW v \in VerifierCycles, CycleSound(ver[v]), ver'[v] = ver[v]
      PROVE  CycleSound(ver[v])'
  BY <1>3 DEF CycleSound, ChainGrows, TypeOK, VerifierType
<1> QED BY <1>1, <1>2, <1>3

LEMMA QuietKeepsSound ==
    ASSUME TypeOK, RecordsSound, ChainGrows, UNCHANGED <<links, ex, ver>>
    PROVE  RecordsSound'
BY SoundStays DEF RecordsSound

LEMMA ExecutorKeepsSound ==
    ASSUME TypeOK, RecordsSound, ExecutorNext
    PROVE  RecordsSound'
<1>0. ChainGrows
  BY NextGrows DEF Next
<1>1. UNCHANGED ver
  BY DEF ExecutorNext, TakeSlot, ExecutionFails, InsufficientFees, SubmitTransaction,
         RecordTransaction, RecordFault, EvictAtGate, LinkBundle, FailForFees,
         HandleExecutionFailure, ReAddBundle
<1>2. \A v \in VerifierCycles : CycleSound(ver[v])'
  BY <1>0, <1>1, SoundStays DEF RecordsSound
<1>3. LinksSound'
  <2>1. ASSUME NEW b \in Bundles, LinkBundle(b)
        PROVE  LinksSound'
    <3>1. ex.tx \in Txs /\ b \in content[ex.tx] /\ chain[ex.tx] # "unused"
      BY <2>1 DEF LinkBundle, RecordsSound, ExecutorSound, TypeOK, ExecutorType
    <3>2. UNCHANGED <<chain, content>> /\ links' = links \cup {<<ex.tx, b>>}
      BY <2>1 DEF LinkBundle, world
    <3> QED BY <3>1, <3>2 DEF RecordsSound, LinksSound
  <2>2. CASE ~\E b \in Bundles : LinkBundle(b)
    <3>1. UNCHANGED links
      BY <2>2 DEF ExecutorNext, TakeSlot, ExecutionFails, InsufficientFees,
         SubmitTransaction, RecordTransaction, RecordFault, EvictAtGate, FailForFees,
         HandleExecutionFailure, ReAddBundle, db
    <3> QED BY <1>0, <3>1, SoundStays DEF RecordsSound
  <2> QED BY <2>1, <2>2
<1>4. ExecutorSound'
  <2>1. ASSUME NEW t \in Txs, SubmitTransaction(t)
        PROVE  ExecutorSound'
    <3>1. content'[t] = ex.hand /\ chain'[t] = "inflight"
      BY <2>1 DEF SubmitTransaction, TypeOK, WorldType
    <3>2. \/ ex'.pc = "record" /\ ex'.tx = t /\ ex'.hand = ex.hand
          \/ ex'.pc = "fail"
      BY <2>1 DEF SubmitTransaction, TypeOK, ExecutorType
    <3> QED BY <3>1, <3>2 DEF ExecutorSound
  <2>2. CASE RecordTransaction
    BY <2>2 DEF RecordTransaction, world, RecordsSound, ExecutorSound, TypeOK, ExecutorType
  <2>3. ASSUME NEW b \in Bundles, LinkBundle(b)
        PROVE  ExecutorSound'
    BY <2>3 DEF LinkBundle, AfterBundle, IdleEx, world, RecordsSound, ExecutorSound,
                TypeOK, ExecutorType
  <2>4. ASSUME NEW b \in Bundles, HandleExecutionFailure(b)
        PROVE  ExecutorSound'
    <3>0. PICK retrying :
            \/ ex' = [ex EXCEPT !.todo = @ \ {b}, !.retrying = retrying]
            \/ ex' = IdleEx
            \/ ex' = [IdleEx EXCEPT !.pc = "readd", !.retrying = retrying]
      BY <2>4 DEF HandleExecutionFailure
    <3>1. ex'.pc \in {"fail", "idle", "readd"}
      <4>1. ex.pc = "fail"
        BY <2>4 DEF HandleExecutionFailure
      <4>2. CASE ex' = [ex EXCEPT !.todo = @ \ {b}, !.retrying = retrying]
        BY <4>1, <4>2 DEF TypeOK, ExecutorType
      <4>3. CASE ex' = IdleEx
        BY <4>3 DEF IdleEx
      <4>4. CASE ex' = [IdleEx EXCEPT !.pc = "readd", !.retrying = retrying]
        BY <4>4 DEF IdleEx
      <4> QED BY <3>0, <4>2, <4>3, <4>4
    <3> QED BY <3>1 DEF ExecutorSound
  <2>5. ASSUME NEW b \in Bundles, EvictAtGate(b) \/ FailForFees(b) \/ ReAddBundle(b)
        PROVE  ExecutorSound'
    <3>1. ex'.pc \notin {"record", "link"}
      <4>1. CASE EvictAtGate(b)
        BY <4>1 DEF EvictAtGate, AfterBundle, IdleEx, TypeOK, ExecutorType
      <4>2. CASE FailForFees(b)
        BY <4>2 DEF FailForFees, AfterBundle, IdleEx, TypeOK, ExecutorType
      <4>3. CASE ReAddBundle(b)
        BY <4>3 DEF ReAddBundle, IdleEx, TypeOK, ExecutorType
      <4> QED BY <2>5, <4>1, <4>2, <4>3
    <3> QED BY <3>1 DEF ExecutorSound
  <2>6. CASE TakeSlot \/ InsufficientFees \/ RecordFault \/ \E det \in BOOLEAN : ExecutionFails(det)
    <3>1. ex'.pc \notin {"record", "link"}
      BY <2>6 DEF TakeSlot, InsufficientFees, RecordFault, ExecutionFails, IdleEx,
                  TypeOK, ExecutorType
    <3> QED BY <3>1 DEF ExecutorSound
  <2> QED BY <2>1, <2>2, <2>3, <2>4, <2>5, <2>6 DEF ExecutorNext
<1> QED BY <1>2, <1>3, <1>4 DEF RecordsSound

(* A cycle that leaves a transaction for the next one holds nothing. *)
LEMMA NextTxSound ==
    ASSUME NEW c
    PROVE  NextTx(c).pc \in {"idle", "read"}
BY DEF NextTx, IdleCycle

LEMMA VerifierKeepsSound ==
    ASSUME TypeOK, RecordsSound, VerifierNext
    PROVE  RecordsSound'
<1>0. ChainGrows /\ UNCHANGED <<chain, content>>
  BY NextGrows, OthersQuiet DEF Next
<1>1. PICK v \in VerifierCycles : VerifierStep(v)
  BY DEF VerifierNext
<1>2. UNCHANGED <<links, ex>>
  BY <1>1 DEF VerifierStep, StartCycle, ReadLinks, QueryNetwork, StillPending,
              MarkTransaction, MarkBundle, db
<1>3. \A w \in VerifierCycles : w # v => ver'[w] = ver[w]
  BY <1>1 DEF VerifierStep, StartCycle, ReadLinks, QueryNetwork, StillPending,
              MarkTransaction, MarkBundle, TypeOK, VerifierType
<1>4. CycleSound(ver[v]) /\ ver \in [VerifierCycles -> [pc : {"idle", "read", "query", "decide", "mark"},
                    todo : SUBSET Txs, tx : Txs \cup {NoTx}, ids : SUBSET Bundles,
                    res : {"none", "VERIFIED", "FAILED", "PENDING"}]]
  BY DEF RecordsSound, TypeOK, VerifierType
<1>5. CycleSound(ver[v])'
  <2>0. ver'[v].pc \in {"idle", "read"} => CycleSound(ver[v])'
    BY DEF CycleSound
  <2>1. CASE StartCycle(v)
    <3>1. ver'[v].pc = "read"
      BY <1>4, <2>1 DEF StartCycle, IdleCycle
    <3> QED BY <2>0, <3>1
  <2>2. ASSUME NEW t \in Txs, ReadLinks(v, t)
        PROVE  CycleSound(ver[v])'
    <3>1. CASE LinkedBundles(t) = {}
      <4>1. ver'[v].pc \in {"idle", "read"}
        BY <1>4, <2>2, <3>1, NextTxSound DEF ReadLinks
      <4> QED BY <2>0, <4>1
    <3>2. CASE LinkedBundles(t) # {}
      <4>1. ver'[v].pc = "query" /\ ver'[v].tx = t /\ ver'[v].ids = LinkedBundles(t)
        BY <1>4, <2>2, <3>2 DEF ReadLinks
      <4>2. LinkedBundles(t) \subseteq content[t] /\ chain[t] # "unused"
        BY <3>2 DEF LinkedBundles, RecordsSound, LinksSound
      <4> QED BY <1>0, <4>1, <4>2 DEF CycleSound
    <3> QED BY <3>1, <3>2
  <2>3. CASE QueryNetwork(v)
    <3>1. /\ ver[v].pc = "query"
          /\ ver'[v].pc = "decide"
          /\ ver'[v].tx = ver[v].tx
          /\ ver'[v].ids = ver[v].ids
          /\ ver'[v].res \in {NetworkAnswer(ver[v].tx), "PENDING"}
      BY <1>4, <2>3 DEF QueryNetwork
    <3>2. NetworkAnswer(ver[v].tx) = "VERIFIED" => chain[ver[v].tx] = "success"
      BY DEF NetworkAnswer
    <3> QED BY <1>0, <1>4, <3>1, <3>2 DEF CycleSound
  <2>4. CASE StillPending(v)
    <3>1. ver'[v].pc \in {"idle", "read"}
      BY <1>4, <2>4, NextTxSound DEF StillPending
    <3> QED BY <2>0, <3>1
  <2>5. CASE MarkTransaction(v)
    <3>1. CASE ver' = [ver EXCEPT ![v] = NextTx(@)]
      <4>1. ver'[v].pc \in {"idle", "read"}
        BY <1>4, <3>1, NextTxSound
      <4> QED BY <2>0, <4>1
    <3>2. CASE ver' = [ver EXCEPT ![v].pc = "mark"]
      <4>1. /\ ver[v].pc = "decide"
            /\ ver'[v].pc = "mark"
            /\ ver'[v].tx = ver[v].tx
            /\ ver'[v].ids = ver[v].ids
            /\ ver'[v].res = ver[v].res
        BY <1>4, <2>5, <3>2 DEF MarkTransaction
      <4> QED BY <1>0, <1>4, <4>1 DEF CycleSound
    <3> QED BY <2>5, <3>1, <3>2 DEF MarkTransaction
  <2>6. ASSUME NEW b \in Bundles, MarkBundle(v, b)
        PROVE  CycleSound(ver[v])'
    <3> DEFINE rest == [ver[v] EXCEPT !.ids = @ \ {b}]
    <3>1. CASE rest.ids = {}
      <4>1. ver'[v] = NextTx(rest)
        BY <1>4, <2>6, <3>1 DEF MarkBundle
      <4>2. ver'[v].pc \in {"idle", "read"}
        BY <4>1, NextTxSound
      <4> QED BY <2>0, <4>2
    <3>2. CASE rest.ids # {}
      <4>1. /\ ver[v].pc = "mark"
            /\ ver'[v].pc = "mark"
            /\ ver'[v].tx = ver[v].tx
            /\ ver'[v].ids \subseteq ver[v].ids
            /\ ver'[v].res = ver[v].res
        BY <1>4, <2>6, <3>2 DEF MarkBundle
      <4> QED BY <1>0, <1>4, <4>1 DEF CycleSound
    <3> QED BY <3>1, <3>2
  <2> QED BY <1>1, <2>1, <2>2, <2>3, <2>4, <2>5, <2>6 DEF VerifierStep
<1> QED BY <1>0, <1>2, <1>3, <1>5, SoundStays DEF RecordsSound

LEMMA NextKeepsSound ==
    ASSUME TypeOK, RecordsSound, [Next]_vars
    PROVE  RecordsSound'
<1>0. ChainGrows
  BY NextGrows
<1>1. CASE MemoryLost /\ UNCHANGED links
  <2>1. ExecutorSound'
    BY <1>1 DEF MemoryLost, IdleEx, ExecutorSound
  <2>2. \A v \in VerifierCycles : CycleSound(ver[v])'
    BY <1>1 DEF MemoryLost, IdleCycle, CycleSound
  <2> QED BY <1>0, <1>1, <2>1, <2>2, SoundStays DEF RecordsSound
<1>2. CASE UNCHANGED <<links, ex, ver>>
  BY <1>0, <1>2, QuietKeepsSound
<1>3. CASE AdmissionNext
  BY <1>2, <1>3 DEF AdmissionNext, CheckBundle, BundleAlreadyExists, RejectBundle,
                    CreateRow, ReuseRow, PersistUtxos, vars, db, process
<1>4. CASE AddBundleNext
  BY <1>2, <1>4 DEF AddBundleNext, AddExpiredBundle, QueueBundle, QueueBundleSlotFull,
                    ConfirmQueued, AddBundleFault, db
<1>5. CASE SweepNext
  BY <1>2, <1>5 DEF SweepNext, SweepSlots, MarkExpired, SweepFault, db
<1>6. CASE BootNext \/ Crash
  BY <1>1, <1>2, <1>6 DEF BootNext, LoadBundles, BootBundle, BootAborts, BootDone,
                          Crash, db
<1>7. CASE WorldNext
  BY <1>2, <1>7 DEF WorldNext, TtlPasses, ConfirmationTimeout, Ledger, db, process
<1>8. CASE UNCHANGED vars
  BY <1>2, <1>8 DEF vars, db, process
<1> QED BY <1>3, <1>4, <1>5, <1>6, <1>7, <1>8, ExecutorKeepsSound, VerifierKeepsSound
        DEF Next

-----------------------------------------------------------------------------
(* The lifecycle implements BundleSettlement: every step of a handler, of the
   network or of the clock is a step of the abstract specification or leaves
   status, applied bundles and reopened bundles unchanged. *)

(* A step as the abstract specification sees it. *)
SettlementStep ==
    \/ Settlement!Next
    \/ UNCHANGED <<status, Applied, Reopening>>

LEMMA AppliedQuiet ==
    ASSUME UNCHANGED <<chain, content>>
    PROVE  Applied' = Applied
BY DEF Applied

LEMMA ReopeningQuiet ==
    ASSUME UNCHANGED call
    PROVE  Reopening' = Reopening
BY DEF Reopening

(* A caller that neither was nor is about to reuse a row does not matter. *)
LEMMA ReopeningOther ==
    ASSUME NEW c \in Callers, call[c].pc # "reuse", call'[c].pc # "reuse",
           \A d \in Callers : d # c => call'[d] = call[d]
    PROVE  Reopening' = Reopening
<1>1. \A r \in Requests : r \in Callers
  BY DEF Callers
<1>2. \A r \in Requests : /\ call[r].pc = "reuse" <=> call'[r].pc = "reuse"
                          /\ call[r].pc = "reuse" => call'[r].bundle = call[r].bundle
  BY <1>1
<1>3. Reopening = {b \in {call[r].bundle : r \in Requests} :
                      \E r \in Requests : call[r].pc = "reuse" /\ call[r].bundle = b}
  BY DEF Reopening
<1> QED BY <1>2 DEF Reopening

(* The statements that close a bundle, gated or not, are abstract steps. *)
LEMMA ClosingStep ==
    ASSUME DatabaseType, NEW b \in Bundles, NEW s \in Reusable,
           status' = Overwritten(b, s) \/ status' = IfActive(b, s) \/ status' = status,
           UNCHANGED <<Applied, Reopening>>
    PROVE  SettlementStep
<1> DEFINE Cl(S) == [x \in Bundles |-> IF x \in S THEN s ELSE status[x]]
<1>0. status \in [Bundles -> Status]
  BY DEF DatabaseType
<1>1. \A S \in SUBSET Bundles :
        ((\A x \in S : status[x] # "none") /\ status' = Cl(S)) => SettlementStep
  <2> SUFFICES ASSUME NEW S \in SUBSET Bundles, \A x \in S : status[x] # "none",
                      status' = Cl(S)
               PROVE  SettlementStep
    OBVIOUS
  <2>1. Settlement!Close(S, s)
    BY DEF Settlement!Close
  <2>2. s \in Settlement!Reusable
    BY DEF Reusable, Settlement!Reusable
  <2> QED BY <2>1, <2>2 DEF SettlementStep, Settlement!Next
<1>2. CASE status' = Overwritten(b, s)
  <2>1. CASE status[b] = "none"
    <3>1. status' = status
      BY <1>0, <1>2, <2>1 DEF Overwritten
    <3> QED BY <3>1 DEF SettlementStep
  <2>2. CASE status[b] # "none"
    <3>1. status' = Cl({b})
      BY <1>0, <1>2, <2>2 DEF Overwritten
    <3> QED BY <1>1, <2>2, <3>1
  <2> QED BY <2>1, <2>2
<1>3. CASE status' = IfActive(b, s)
  <2>1. CASE status[b] \notin Active
    <3>1. status' = status
      BY <1>0, <1>3, <2>1 DEF IfActive
    <3> QED BY <3>1 DEF SettlementStep
  <2>2. CASE status[b] \in Active
    <3>1. status' = Cl({b}) /\ status[b] # "none"
      BY <1>0, <1>3, <2>2 DEF IfActive, Active
    <3> QED BY <1>1, <3>1
  <2> QED BY <2>1, <2>2
<1> QED BY <1>2, <1>3 DEF SettlementStep

(* So is the gated write of an active status. *)
LEMMA AdvancingStep ==
    ASSUME DatabaseType, NEW b \in Bundles, NEW s \in Active,
           status' = IfActive(b, s), UNCHANGED <<Applied, Reopening>>
    PROVE  SettlementStep
<1>0. status \in [Bundles -> Status]
  BY DEF DatabaseType
<1>1. CASE status[b] \notin Active
  <2>1. status' = status
    BY <1>0, <1>1 DEF IfActive
  <2> QED BY <2>1 DEF SettlementStep
<1>2. CASE status[b] \in Active
  <2>1. status' = [status EXCEPT ![b] = s]
    BY <1>0, <1>2 DEF IfActive
  <2>2. Settlement!Advance(b)
    BY <1>2, <2>1 DEF Settlement!Advance, Settlement!Active, Active
  <2> QED BY <2>2 DEF SettlementStep, Settlement!Next
<1> QED BY <1>1, <1>2

(* Resubmissions given up. *)
LEMMA GivingUpStep ==
    ASSUME UNCHANGED <<status, Applied>>, Reopening' \subseteq Reopening
    PROVE  SettlementStep
BY DEF SettlementStep, Settlement!Next, Settlement!GiveUp

LEMMA AdmissionImplements ==
    ASSUME TypeOK, AdmissionNext
    PROVE  SettlementStep
<1>0. Applied' = Applied
  BY OthersQuiet, AppliedQuiet
<1>1. PICK r \in Requests :
        \/ \E b \in Bundles : CheckBundle(r, b) \/ BundleAlreadyExists(r, b)
        \/ RejectBundle(r)
        \/ CreateRow(r)
        \/ ReuseRow(r)
        \/ PersistUtxos(r)
  BY DEF AdmissionNext
<1>2. r \in Callers /\ \A q \in Requests : q \in Callers
  BY DEF Callers
<1>3. CallType /\ DatabaseType
  BY DEF TypeOK
<1>4. ASSUME NEW b \in Bundles, CheckBundle(r, b)
      PROVE  SettlementStep
  <2>0. status' = status
    BY <1>4 DEF CheckBundle, db
  <2>1. CASE status[b] = "none"
    <3>1. call'[r].pc = "create" /\ call[r].pc = "idle"
          /\ \A d \in Callers : d # r => call'[d] = call[d]
      BY <1>2, <1>3, <1>4, <2>1 DEF CheckBundle, CallType
    <3>2. Reopening' = Reopening
      BY <1>2, <3>1, ReopeningOther
    <3> QED BY <1>0, <2>0, <3>2 DEF SettlementStep
  <2>2. CASE status[b] # "none"
    <3>1. status[b] \in Reusable
      BY <1>4, <2>2 DEF CheckBundle
    <3>2. call' = [call EXCEPT ![r] = [pc |-> "reuse", bundle |-> b]] /\ call[r].pc = "idle"
      BY <1>4, <2>2 DEF CheckBundle
    <3>3. Reopening' = Reopening \cup {b}
      <4>1. call'[r].pc = "reuse" /\ call'[r].bundle = b
        BY <1>2, <1>3, <3>2 DEF CallType
      <4>2. \A q \in Requests : q # r => call'[q] = call[q]
        BY <1>2, <1>3, <3>2 DEF CallType
      <4> QED BY <3>2, <4>1, <4>2 DEF Reopening
    <3>4. Settlement!FindReusable(b)
      BY <1>0, <2>0, <3>1, <3>3 DEF Settlement!FindReusable, Settlement!Reusable, Reusable
    <3> QED BY <3>4 DEF SettlementStep, Settlement!Next
  <2> QED BY <2>1, <2>2
<1>5. ASSUME NEW b \in Bundles, BundleAlreadyExists(r, b)
      PROVE  SettlementStep
  BY <1>0, <1>5, ReopeningQuiet DEF BundleAlreadyExists, SettlementStep, vars, db, process
<1>6. CASE RejectBundle(r)
  <2>1. call'[r].pc = "idle" /\ \A q \in Requests : q # r => call'[q] = call[q]
    BY <1>2, <1>3, <1>6 DEF RejectBundle, CallType, IdleCall
  <2>2. Reopening' \subseteq Reopening
    BY <2>1 DEF Reopening
  <2> QED BY <1>0, <1>6, <2>2, GivingUpStep DEF RejectBundle, db
<1>7. CASE CreateRow(r)
  <2>1. call[r].pc = "create" /\ call'[r].pc \in {"persist", "idle"}
        /\ \A d \in Callers : d # r => call'[d] = call[d]
    BY <1>2, <1>3, <1>7 DEF CreateRow, CallType, IdleCall
  <2>2. Reopening' = Reopening
    BY <1>2, <2>1, ReopeningOther
  <2>3. call[r].bundle \in Bundles
    BY <1>2, <1>3, <2>1 DEF CallType
  <2>4. CASE status' = status
    BY <1>0, <2>2, <2>4 DEF SettlementStep
  <2>5. CASE status[call[r].bundle] = "none"
             /\ status' = [status EXCEPT ![call[r].bundle] = "PENDING"]
    <3>1. Settlement!Accept(call[r].bundle)
      BY <1>0, <2>2, <2>5 DEF Settlement!Accept
    <3> QED BY <2>3, <3>1 DEF SettlementStep, Settlement!Next
  <2> QED BY <1>7, <2>4, <2>5 DEF CreateRow
<1>8. CASE ReuseRow(r)
  <2> DEFINE b == call[r].bundle
  <2>1. call[r].pc = "reuse" /\ call'[r].pc = "idle"
        /\ \A q \in Requests : q # r => call'[q] = call[q]
    BY <1>2, <1>3, <1>8 DEF ReuseRow, CallType, IdleCall
  <2>2. b \in Bundles /\ b \in Reopening
    BY <1>2, <1>3, <2>1 DEF CallType, Reopening
  <2>3. Reopening' = Reopening \/ Reopening' = Reopening \ {b}
    <3>1. CASE \E q \in Requests : q # r /\ call[q].pc = "reuse" /\ call[q].bundle = b
      <4>1. Reopening' = Reopening
        BY <2>1, <3>1 DEF Reopening
      <4> QED BY <4>1
    <3>2. CASE ~\E q \in Requests : q # r /\ call[q].pc = "reuse" /\ call[q].bundle = b
      <4>1. Reopening' = Reopening \ {b}
        BY <2>1, <3>2 DEF Reopening
      <4> QED BY <4>1
    <3> QED BY <3>1, <3>2
  <2>4. status' = status \/ status' = [status EXCEPT ![b] = "PENDING"]
    BY <1>3, <1>8, <2>2 DEF ReuseRow, Overwritten, DatabaseType
  <2>5. CASE status' = status
    BY <1>0, <2>3, <2>5, GivingUpStep
  <2>6. CASE status' = [status EXCEPT ![b] = "PENDING"]
    <3>1. Settlement!Reopen(b)
      BY <1>0, <2>2, <2>3, <2>6 DEF Settlement!Reopen
    <3> QED BY <2>2, <3>1 DEF SettlementStep, Settlement!Next
  <2> QED BY <2>4, <2>5, <2>6
<1>9. CASE PersistUtxos(r)
  <2>1. call[r].pc = "persist" /\ call'[r].pc \in {"place", "idle"}
        /\ \A d \in Callers : d # r => call'[d] = call[d]
    BY <1>2, <1>3, <1>9 DEF PersistUtxos, CallType, IdleCall
  <2>2. Reopening' = Reopening
    BY <1>2, <2>1, ReopeningOther
  <2> QED BY <1>0, <1>9, <2>2 DEF PersistUtxos, SettlementStep, db
<1> QED BY <1>1, <1>4, <1>5, <1>6, <1>7, <1>8, <1>9

LEMMA AddBundleImplements ==
    ASSUME TypeOK, AddBundleNext
    PROVE  SettlementStep
<1>0. Applied' = Applied /\ CallType /\ DatabaseType
  BY OthersQuiet, AppliedQuiet DEF TypeOK
<1>1. PICK c \in Callers :
        \/ AddExpiredBundle(c)
        \/ QueueBundle(c)
        \/ QueueBundleSlotFull(c)
        \/ ConfirmQueued(c)
        \/ AddBundleFault(c)
  BY DEF AddBundleNext
<1> DEFINE b == call[c].bundle
<1>2. /\ call[c].pc \in {"place", "confirm"}
      /\ call'[c].pc \in {"idle", "confirm"}
      /\ \A d \in Callers : d # c => call'[d] = call[d]
  BY <1>0, <1>1 DEF AddExpiredBundle, QueueBundle, QueueBundleSlotFull, ConfirmQueued,
                    AddBundleFault, IdleCall, CallType
<1>3. Reopening' = Reopening
  BY <1>2, ReopeningOther
<1>4. b \in Bundles
  BY <1>0, <1>2 DEF CallType
<1>5. CASE AddExpiredBundle(c)
  <2>1. status' = Overwritten(b, "EXPIRED") /\ "EXPIRED" \in Reusable
    BY <1>5 DEF AddExpiredBundle, Reusable
  <2> QED BY <1>0, <1>3, <1>4, <2>1, ClosingStep
<1>6. CASE ConfirmQueued(c)
  <2>1. status' = IfActive(b, "PROCESSING") /\ "PROCESSING" \in Active
    BY <1>6 DEF ConfirmQueued, Active
  <2> QED BY <1>0, <1>3, <1>4, <2>1, AdvancingStep
<1>7. CASE QueueBundle(c) \/ QueueBundleSlotFull(c) \/ AddBundleFault(c)
  BY <1>0, <1>3, <1>7 DEF QueueBundle, QueueBundleSlotFull, AddBundleFault, db,
                          SettlementStep
<1> QED BY <1>1, <1>5, <1>6, <1>7

(* The submitted transaction has not succeeded yet, and no transaction that
   has is touched. *)
LEMMA SubmitQuiet ==
    ASSUME TypeOK, NEW t \in Txs, SubmitTransaction(t)
    PROVE  Applied' = Applied
<1>1. \A u \in Txs : /\ chain'[u] = "success" <=> chain[u] = "success"
                     /\ chain[u] = "success" => content'[u] = content[u]
  BY DEF SubmitTransaction, TypeOK, WorldType
<1> QED BY <1>1 DEF Applied

LEMMA ExecutorImplements ==
    ASSUME TypeOK, ExecutorNext
    PROVE  SettlementStep
<1>0. CallType /\ DatabaseType /\ ExecutorType
  BY DEF TypeOK
<1>1. CASE TakeSlot \/ (\E det \in BOOLEAN : ExecutionFails(det)) \/ InsufficientFees
           \/ RecordTransaction \/ RecordFault \/ (\E b \in Bundles : LinkBundle(b))
  <2>1. UNCHANGED <<status, call, chain, content>>
    BY <1>1 DEF TakeSlot, ExecutionFails, InsufficientFees, RecordTransaction, RecordFault,
                LinkBundle, db, world
  <2> QED BY <2>1, AppliedQuiet, ReopeningQuiet DEF SettlementStep
<1>2. ASSUME NEW t \in Txs, SubmitTransaction(t)
      PROVE  SettlementStep
  <2>1. UNCHANGED <<status, call>>
    BY <1>2 DEF SubmitTransaction, db
  <2> QED BY <1>2, <2>1, SubmitQuiet, ReopeningQuiet DEF SettlementStep
<1>3. ASSUME NEW b \in Bundles, EvictAtGate(b)
      PROVE  SettlementStep
  <2>1. UNCHANGED <<Applied, Reopening>>
    BY <1>3, AppliedQuiet, ReopeningQuiet DEF EvictAtGate, world
  <2>2. "EXPIRED" \in Reusable /\ (status' = IfActive(b, "EXPIRED") \/ status' = status)
    BY <1>3 DEF EvictAtGate, Reusable
  <2> QED BY <1>0, <2>1, <2>2, ClosingStep
<1>4. ASSUME NEW b \in Bundles, FailForFees(b)
      PROVE  SettlementStep
  <2>1. UNCHANGED <<Applied, Reopening>>
    BY <1>4, AppliedQuiet, ReopeningQuiet DEF FailForFees, world
  <2>2. "FAILED" \in Reusable /\ (status' = Overwritten(b, "FAILED") \/ status' = status)
    BY <1>4 DEF FailForFees, Reusable
  <2> QED BY <1>0, <2>1, <2>2, ClosingStep
<1>5. ASSUME NEW b \in Bundles, HandleExecutionFailure(b)
      PROVE  SettlementStep
  <2>1. UNCHANGED <<Applied, Reopening>>
    BY <1>5, AppliedQuiet, ReopeningQuiet DEF HandleExecutionFailure, world
  <2>2. \/ status' = IfActive(b, "FAILED") \/ status' = status
        \/ status' = IfActive(b, "PENDING")
    <3> DEFINE terminal == ex.det \/ HasReachedMaxAttempts(b)
    <3>1. \/ status' = IfActive(b, IF terminal THEN "FAILED" ELSE "PENDING")
          \/ status' = status
      BY <1>5 DEF HandleExecutionFailure
    <3> HIDE DEF terminal
    <3> QED BY <3>1
  <2>3. CASE status' = IfActive(b, "FAILED") \/ status' = status
    <3>1. "FAILED" \in Reusable
      BY DEF Reusable
    <3> QED BY <1>0, <2>1, <2>3, <3>1, ClosingStep
  <2>4. CASE status' = IfActive(b, "PENDING")
    <3>1. "PENDING" \in Active
      BY DEF Active
    <3> QED BY <1>0, <2>1, <2>4, <3>1, AdvancingStep
  <2> QED BY <2>2, <2>3, <2>4
<1>6. ASSUME NEW b \in Bundles, ReAddBundle(b)
      PROVE  SettlementStep
  <2>1. "executor" \in Callers
    BY DEF Callers
  <2>2. /\ call["executor"].pc # "reuse" /\ call'["executor"].pc # "reuse"
        /\ \A d \in Callers : d # "executor" => call'[d] = call[d]
    BY <1>0, <1>6, <2>1 DEF ReAddBundle, CallType
  <2>3. Reopening' = Reopening
    BY <2>1, <2>2, ReopeningOther
  <2>4. UNCHANGED <<status, chain, content>>
    BY <1>6 DEF ReAddBundle, db, world
  <2> QED BY <2>3, <2>4, AppliedQuiet DEF SettlementStep
<1> QED BY <1>1, <1>2, <1>3, <1>4, <1>5, <1>6 DEF ExecutorNext

LEMMA SweepImplements ==
    ASSUME TypeOK, SweepNext
    PROVE  SettlementStep
<1>0. DatabaseType /\ Applied' = Applied
  BY OthersQuiet, AppliedQuiet DEF TypeOK
<1>1. Reopening' = Reopening
  BY ReopeningQuiet DEF SweepNext, SweepSlots, MarkExpired, SweepFault
<1>2. CASE SweepSlots \/ SweepFault
  BY <1>0, <1>1, <1>2 DEF SweepSlots, SweepFault, db, SettlementStep
<1>3. ASSUME NEW b \in Bundles, MarkExpired(b)
      PROVE  SettlementStep
  <2>1. "EXPIRED" \in Reusable /\ status' = Overwritten(b, "EXPIRED")
    BY <1>3 DEF MarkExpired, Reusable
  <2> QED BY <1>0, <1>1, <2>1, ClosingStep
<1> QED BY <1>2, <1>3 DEF SweepNext

(* A cycle writes COMPLETED only for bundles of a transaction that succeeded:
   this is where RecordsSound is needed. *)
LEMMA VerifierImplements ==
    ASSUME TypeOK, RecordsSound, VerifierNext
    PROVE  SettlementStep
<1>0. DatabaseType /\ VerifierType /\ Applied' = Applied
  BY OthersQuiet, AppliedQuiet DEF TypeOK
<1>1. PICK v \in VerifierCycles : VerifierStep(v)
  BY DEF VerifierNext
<1>2. Reopening' = Reopening
  BY <1>1, ReopeningQuiet DEF VerifierStep, StartCycle, ReadLinks, QueryNetwork,
       StillPending, MarkTransaction, MarkBundle
<1>3. CASE StartCycle(v) \/ (\E t \in Txs : ReadLinks(v, t)) \/ QueryNetwork(v)
           \/ StillPending(v) \/ MarkTransaction(v)
  BY <1>0, <1>2, <1>3 DEF StartCycle, ReadLinks, QueryNetwork, StillPending,
                          MarkTransaction, db, SettlementStep
<1>4. ASSUME NEW b \in Bundles, MarkBundle(v, b)
      PROVE  SettlementStep
  <2>1. CASE ver[v].res = "VERIFIED"
    <3>1. ver[v].pc = "mark" /\ b \in ver[v].ids
      BY <1>4 DEF MarkBundle
    <3>2. ver[v].tx \in Txs
      BY <1>0, <3>1 DEF VerifierType
    <3>3. b \in content[ver[v].tx] /\ chain[ver[v].tx] = "success"
      BY <2>1, <3>1 DEF RecordsSound, CycleSound
    <3>4. b \in Applied
      BY <3>2, <3>3 DEF Applied
    <3>5. status' = Overwritten(b, "COMPLETED") \/ status' = status
      BY <1>4, <2>1 DEF MarkBundle
    <3>6. CASE status' = status
      BY <1>0, <1>2, <3>6 DEF SettlementStep
    <3>7. CASE status' = Overwritten(b, "COMPLETED") /\ status[b] = "none"
      <4>1. status' = status
        BY <1>0, <3>7 DEF Overwritten, DatabaseType
      <4> QED BY <1>0, <1>2, <4>1 DEF SettlementStep
    <3>8. CASE status' = Overwritten(b, "COMPLETED") /\ status[b] # "none"
      <4>1. status' = [status EXCEPT ![b] = "COMPLETED"]
        BY <1>0, <3>8 DEF Overwritten, DatabaseType
      <4>2. Settlement!Complete(b)
        BY <1>0, <1>2, <3>4, <3>8, <4>1 DEF Settlement!Complete
      <4> QED BY <4>2 DEF SettlementStep, Settlement!Next
    <3> QED BY <3>5, <3>6, <3>7, <3>8
  <2>2. CASE ver[v].res # "VERIFIED"
    <3>1. "FAILED" \in Reusable /\ (status' = Overwritten(b, "FAILED") \/ status' = status)
      BY <1>4, <2>2 DEF MarkBundle, Reusable
    <3> QED BY <1>0, <1>2, <3>1, ClosingStep
  <2> QED BY <2>1, <2>2
<1> QED BY <1>1, <1>3, <1>4 DEF VerifierStep

(* The process is gone, and with it every resubmission. *)
LEMMA MemoryLostImplements ==
    ASSUME MemoryLost, UNCHANGED <<status, Applied>>
    PROVE  SettlementStep
<1>1. \A r \in Requests : call'[r].pc = "idle"
  BY DEF MemoryLost, Callers, IdleCall
<1>2. Reopening' = {}
  BY <1>1 DEF Reopening
<1> QED BY <1>2, GivingUpStep

LEMMA BootImplements ==
    ASSUME TypeOK, BootNext \/ Crash
    PROVE  SettlementStep
<1>0. DatabaseType /\ CallType /\ Applied' = Applied
  BY OthersQuiet, AppliedQuiet DEF TypeOK
<1>1. CASE LoadBundles
  <2>1. PICK old \in SUBSET {b \in Bundles : status[b] \in Active} :
          /\ status' = [b \in Bundles |-> IF b \in old THEN "EXPIRED" ELSE status[b]]
          /\ UNCHANGED call
    BY <1>1 DEF LoadBundles
  <2>2. Reopening' = Reopening
    BY <2>1, ReopeningQuiet
  <2>3. old \in SUBSET Bundles /\ \A b \in old : status[b] # "none"
    BY <2>1 DEF Active
  <2>4. Settlement!Close(old, "EXPIRED")
    BY <1>0, <2>1, <2>2, <2>3 DEF Settlement!Close
  <2>5. "EXPIRED" \in Settlement!Reusable
    BY DEF Settlement!Reusable
  <2> QED BY <2>3, <2>4, <2>5 DEF SettlementStep, Settlement!Next
<1>2. ASSUME NEW b \in Bundles, BootBundle(b)
      PROVE  SettlementStep
  <2>1. "boot" \in Callers
    BY DEF Callers
  <2>2. /\ call["boot"].pc # "reuse" /\ call'["boot"].pc # "reuse"
        /\ \A d \in Callers : d # "boot" => call'[d] = call[d]
    BY <1>0, <1>2, <2>1 DEF BootBundle, CallType
  <2>3. Reopening' = Reopening
    BY <2>1, <2>2, ReopeningOther
  <2> QED BY <1>0, <1>2, <2>3 DEF BootBundle, db, SettlementStep
<1>3. CASE BootAborts \/ Crash
  BY <1>0, <1>3, MemoryLostImplements DEF BootAborts, Crash, db
<1>4. CASE BootDone
  BY <1>0, <1>4, ReopeningQuiet DEF BootDone, db, SettlementStep
<1> QED BY <1>1, <1>2, <1>3, <1>4 DEF BootNext

LEMMA WorldImplements ==
    ASSUME TypeOK, WorldNext
    PROVE  SettlementStep
<1>1. UNCHANGED <<status, Reopening>>
  BY ReopeningQuiet DEF WorldNext, TtlPasses, ConfirmationTimeout, Ledger, db, process
<1>2. CASE (\E b \in Bundles : TtlPasses(b)) \/ (\E t \in Txs : ConfirmationTimeout(t))
  BY <1>1, <1>2, AppliedQuiet DEF TtlPasses, ConfirmationTimeout, SettlementStep
<1>3. ASSUME NEW t \in Txs, Ledger(t)
      PROVE  SettlementStep
  <2>0. WorldType /\ content' = content /\ chain[t] = "inflight"
    BY <1>3 DEF Ledger, TypeOK
  <2>1. CASE chain' = [chain EXCEPT ![t] = "failed"]
    <3>1. \A u \in Txs : chain'[u] = "success" <=> chain[u] = "success"
      BY <2>0, <2>1 DEF WorldType
    <3>2. Applied' = Applied
      BY <2>0, <3>1 DEF Applied
    <3> QED BY <1>1, <3>2 DEF SettlementStep
  <2>2. CASE content[t] \cap Applied = {} /\ chain' = [chain EXCEPT ![t] = "success"]
    <3>1. \A u \in Txs : chain'[u] = "success" <=> (u = t \/ chain[u] = "success")
      BY <2>0, <2>2 DEF WorldType
    <3>2. Applied' = Applied \cup content[t]
      BY <2>0, <3>1 DEF Applied
    <3>3. content[t] \in SUBSET Bundles
      BY <2>0 DEF WorldType
    <3>4. Settlement!TakeEffect(content[t])
      BY <1>1, <2>2, <3>2 DEF Settlement!TakeEffect
    <3> QED BY <3>3, <3>4 DEF SettlementStep, Settlement!Next
  <2> QED BY <1>3, <2>1, <2>2 DEF Ledger
<1> QED BY <1>2, <1>3 DEF WorldNext

LEMMA NextImplements ==
    ASSUME TypeOK, RecordsSound, [Next]_vars
    PROVE  SettlementStep
<1>1. CASE UNCHANGED vars
  BY <1>1, AppliedQuiet, ReopeningQuiet DEF vars, db, process, world, SettlementStep
<1> QED BY <1>1, AdmissionImplements, AddBundleImplements, ExecutorImplements,
           SweepImplements, VerifierImplements, BootImplements, WorldImplements DEF Next

-----------------------------------------------------------------------------
(* What links, executor and verifier cycles record about submissions is true
   of the network in every reachable state. *)
THEOREM RecordsAreSound == Spec => []RecordsSound
<1>1. Init => RecordsSound
  BY DEF Init, RecordsSound, LinksSound, ExecutorSound, CycleSound, IdleEx, IdleCycle
<1>2. TypeOK /\ RecordsSound /\ [Next]_vars => RecordsSound'
  BY NextKeepsSound
<1> QED BY <1>1, <1>2, TypeCorrect, PTL DEF Spec

(* handleVerificationSuccess is the only writer of COMPLETED, and what it
   writes stays true because the network takes no effect back. *)
LEMMA StepKeepsCompleted ==
    ASSUME TypeOK, RecordsSound, CompletedIsApplied, [Next]_vars
    PROVE  CompletedIsApplied'
<1> SUFFICES ASSUME NEW b \in Bundles, status'[b] = "COMPLETED"
             PROVE  b \in Applied'
  BY DEF CompletedIsApplied
<1>1. Applied \subseteq Applied'
  BY NextGrows, AppliedGrows
<1>2. status[b] = "COMPLETED" \/ b \in Applied
  <2>0. status \in [Bundles -> Status]
    BY DEF TypeOK, DatabaseType
  <2>1. CASE Settlement!Next
    <3>1. ASSUME NEW d \in Bundles, Settlement!Accept(d) \/ Settlement!Reopen(d)
          PROVE  status[b] = "COMPLETED"
      BY <2>0, <3>1 DEF Settlement!Accept, Settlement!Reopen
    <3>2. ASSUME NEW d \in Bundles, Settlement!Advance(d)
          PROVE  status[b] = "COMPLETED"
      BY <2>0, <3>2 DEF Settlement!Advance, Settlement!Active
    <3>3. ASSUME NEW d \in Bundles, Settlement!Complete(d)
          PROVE  status[b] = "COMPLETED" \/ b \in Applied
      BY <2>0, <3>3 DEF Settlement!Complete
    <3>4. ASSUME NEW S \in SUBSET Bundles, NEW s \in Settlement!Reusable, Settlement!Close(S, s)
          PROVE  status[b] = "COMPLETED"
      BY <2>0, <3>4 DEF Settlement!Close, Settlement!Reusable
    <3>5. CASE \/ \E d \in Bundles : Settlement!FindReusable(d)
               \/ \E S \in SUBSET Bundles : Settlement!TakeEffect(S)
               \/ Settlement!GiveUp
      BY <3>5 DEF Settlement!FindReusable, Settlement!TakeEffect, Settlement!GiveUp
    <3> QED BY <2>1, <3>1, <3>2, <3>3, <3>4, <3>5 DEF Settlement!Next
  <2> QED BY <2>1, NextImplements DEF SettlementStep
<1> QED BY <1>1, <1>2 DEF CompletedIsApplied

(* A bundle reported COMPLETED took effect on chain: for any number of
   bundles, requests, transactions, overlapping verifier cycles, crashes and
   failing calls. *)
THEOREM CompletedMeansApplied == Spec => []CompletedIsApplied
<1>1. Init => CompletedIsApplied
  BY DEF Init, CompletedIsApplied
<1>2. TypeOK /\ RecordsSound /\ CompletedIsApplied /\ [Next]_vars => CompletedIsApplied'
  BY StepKeepsCompleted
<1> QED BY <1>1, <1>2, TypeCorrect, RecordsAreSound, PTL DEF Spec

(* The lifecycle implements BundleSettlement: operations take effect once,
   COMPLETED follows an effect, and a terminal bundle becomes active again
   only through a resubmission that found it reusable. *)
THEOREM LifecycleImplementsSettlement == Spec => ImplementsSettlement
<1>1. Init => Settlement!Init
  <2>1. ASSUME Init PROVE Applied = {} /\ Reopening = {}
    <3>1. \A t \in Txs : chain[t] = "unused"
      BY <2>1 DEF Init
    <3>2. \A r \in Requests : call[r].pc = "idle"
      BY <2>1 DEF Init, Callers, IdleCall
    <3> QED BY <3>1, <3>2 DEF Applied, Reopening
  <2> QED BY <2>1 DEF Init, Settlement!Init
<1>2. TypeOK /\ RecordsSound /\ [Next]_vars
        => [Settlement!Next]_<<status, Applied, Reopening>>
  BY NextImplements DEF SettlementStep
<1> QED BY <1>1, <1>2, TypeCorrect, RecordsAreSound, PTL
        DEF Spec, ImplementsSettlement, Settlement!Spec

-----------------------------------------------------------------------------
(* Custody: who holds a bundle, how often it is executed and how often it is
   sent. *)

(* A caller of addBundle that has yet to place the bundle; the executor. *)
CallerHolds(c, b) == call[c].bundle = b /\ call[c].pc \in {"persist", "place"}
ExecutorHolds(b) == b \in ex.hand \/ (ex.pc = "readd" /\ b \in ex.retrying)

(* At most one of them holds b, and only once its row exists. *)
OneHolder(b) ==
    /\ \A c, d \in Callers : CallerHolds(c, b) /\ CallerHolds(d, b) => c = d
    /\ \A c \in Callers : CallerHolds(c, b) =>
          b \notin Queued /\ b \notin bootQueue /\ ~ExecutorHolds(b) /\ status[b] # "none"
    /\ b \in Queued => b \notin bootQueue /\ ~ExecutorHolds(b) /\ status[b] # "none"
    /\ b \in bootQueue => ~ExecutorHolds(b) /\ status[b] # "none"
    /\ ExecutorHolds(b) => status[b] # "none"

(* What the executor's program counter says of its sets. *)
ExecutorShape ==
    /\ ex.pc \in {"idle", "readd"} => ex.hand = {}
    /\ ex.pc \in {"link", "fees", "fail"} => ex.todo \subseteq ex.hand
    /\ ex.pc \notin {"fail", "readd"} => ex.retrying = {}
    /\ ex.pc = "fail" => ex.retrying \subseteq ex.hand

(* Before the process is up nothing is executed, nothing is in memory before
   initialize, and only initialize adds bundles for the boot. *)
PhaseShape ==
    /\ phase # "up" => ex.pc = "idle"
    /\ phase = "down" => /\ Queued = {} /\ bootQueue = {}
                         /\ \A c \in Callers : call[c].pc = "idle"
    /\ call["boot"].pc # "idle" => phase = "booting"

(* The bundle may be executed without another admission or crash. *)
Work(b) == (ex.pc \in {"evict", "build"} /\ b \in ex.hand) \/ b \in ex.retrying
Failing(b) == ex.pc = "fail" /\ b \in ex.todo

Waiting(b) ==
    \/ \E c \in Callers : CallerHolds(c, b)
    \/ b \in Queued
    \/ b \in bootQueue
    \/ Work(b)
    \/ phase # "up"

(* The attempts: an execution that is not counted in the database is paid for
   by the crash that lost it, or it is the last one. *)
WithinBudget(b) ==
    /\ executions[b] <= retryCount[b] + crashes + 1
    /\ executions[b] <= MaxRetry + crashes
    /\ Waiting(b) => /\ executions[b] <= retryCount[b] + crashes
                     /\ executions[b] < MaxRetry + crashes
    /\ status[b] = "none" => executions[b] = 0

Unsent(b) == Waiting(b) \/ status[b] = "none" \/ Failing(b)

(* Without a crash or a failing call, what may be executed was never sent. *)
SentOnce ==
    (crashes = 0 /\ faults = 0) =>
        /\ \A t, u \in Txs : t # u => content[t] \cap content[u] = {}
        /\ \A b \in Bundles : Unsent(b) => \A t \in Txs : b \notin content[t]

CustodyInv ==
    /\ TypeOK
    /\ QueueInv
    /\ ExecutorShape
    /\ PhaseShape
    /\ \A b \in Bundles : OneHolder(b) /\ WithinBudget(b)
    /\ SentOnce

-----------------------------------------------------------------------------
(* Steps after which no bundle is held, or waits, that did not before. *)
HolderQuiet(b) ==
    /\ \A c \in Callers : CallerHolds(c, b)' => CallerHolds(c, b)
    /\ b \in Queued' => b \in Queued
    /\ b \in bootQueue' => b \in bootQueue
    /\ ExecutorHolds(b)' => ExecutorHolds(b)

WorkQuiet(b) ==
    /\ Work(b)' => Work(b)
    /\ Failing(b)' => Failing(b)

(* No execution, no crash, no transaction, and no row that is removed. *)
Calm ==
    /\ UNCHANGED <<executions, crashes, content>>
    /\ faults' \in Nat /\ faults' >= faults
    /\ phase' # "up" => phase # "up"
    /\ \A b \in Bundles : /\ retryCount'[b] >= retryCount[b]
                          /\ status'[b] = "none" => status[b] = "none"

LEMMA CalmStep ==
    ASSUME CustodyInv, TypeOK', QueueInv', ExecutorShape', PhaseShape', Calm,
           \A b \in Bundles : /\ OneHolder(b)'
                              /\ Waiting(b)' => Waiting(b)
                              /\ faults' = 0 => (Unsent(b)' => Unsent(b))
    PROVE  CustodyInv'
<1>1. ASSUME NEW b \in Bundles PROVE WithinBudget(b)'
  <2> DEFINE e == executions[b]  r == retryCount[b]  r2 == retryCount'[b]
  <2>1. /\ e \in Nat /\ r \in Nat /\ r2 \in Nat /\ crashes \in Nat /\ MaxRetry \in Nat
        /\ executions'[b] = e /\ crashes' = crashes /\ r2 >= r
    BY MaxRetryAssumption DEF CustodyInv, TypeOK, DatabaseType, HistoryType, Calm
  <2>2. /\ e <= r + crashes + 1
        /\ e <= MaxRetry + crashes
        /\ Waiting(b) => e <= r + crashes /\ e < MaxRetry + crashes
        /\ status[b] = "none" => e = 0
    BY DEF CustodyInv, WithinBudget
  <2>3. (Waiting(b)' => Waiting(b)) /\ (status'[b] = "none" => status[b] = "none")
    BY DEF Calm
  <2> HIDE DEF e, r, r2
  <2>4. /\ e <= r2 + crashes + 1
        /\ e <= MaxRetry + crashes
        /\ Waiting(b)' => e <= r2 + crashes /\ e < MaxRetry + crashes
        /\ status'[b] = "none" => e = 0
    BY <2>1, <2>2, <2>3
  <2> QED BY <2>1, <2>4 DEF WithinBudget, e, r2
<1>2. SentOnce'
  <2>1. crashes' = 0 /\ faults' = 0 => crashes = 0 /\ faults = 0
    BY DEF CustodyInv, TypeOK, HistoryType, Calm
  <2> QED BY <2>1 DEF CustodyInv, SentOnce, Calm
<1> QED BY <1>1, <1>2 DEF CustodyInv

LEMMA QuietStep ==
    ASSUME CustodyInv, TypeOK', QueueInv', ExecutorShape', PhaseShape', Calm,
           \A b \in Bundles : HolderQuiet(b) /\ WorkQuiet(b)
    PROVE  CustodyInv'
<1>1. ASSUME NEW b \in Bundles
      PROVE  OneHolder(b)' /\ (Waiting(b)' => Waiting(b)) /\ (Unsent(b)' => Unsent(b))
  <2>1. HolderQuiet(b) /\ WorkQuiet(b) /\ OneHolder(b)
    BY DEF CustodyInv
  <2>2. (status'[b] = "none" => status[b] = "none") /\ (phase' # "up" => phase # "up")
    BY DEF Calm
  <2>3. OneHolder(b)'
    BY <2>1, <2>2 DEF OneHolder, HolderQuiet
  <2>4. Waiting(b)' => Waiting(b)
    BY <2>1, <2>2 DEF Waiting, HolderQuiet, WorkQuiet
  <2>5. Unsent(b)' => Unsent(b)
    BY <2>1, <2>2, <2>4 DEF Unsent, WorkQuiet
  <2> QED BY <2>3, <2>4, <2>5
<1> QED BY <1>1, CalmStep

(* The parts that a step leaves alone. *)
LEMMA CallsAlone ==
    ASSUME UNCHANGED call
    PROVE  \A c, b : CallerHolds(c, b)' = CallerHolds(c, b)
BY DEF CallerHolds

LEMMA ExecutorAlone ==
    ASSUME UNCHANGED ex
    PROVE  /\ \A b : ExecutorHolds(b)' = ExecutorHolds(b)
           /\ \A b : WorkQuiet(b)
           /\ ExecutorShape => ExecutorShape'
BY DEF ExecutorHolds, WorkQuiet, Work, Failing, ExecutorShape

(* A caller that goes idle, waits for the network or confirms holds nothing. *)
LEMMA CallerLetsGo ==
    ASSUME CallType, NEW c \in Callers, NEW e,
           call' = [call EXCEPT ![c] = e], e.pc \notin {"persist", "place"}
    PROVE  /\ \A b : ~CallerHolds(c, b)'
           /\ \A d \in Callers, b \in Bundles : CallerHolds(d, b)' => CallerHolds(d, b)
           /\ \A d \in Callers : d # c => call'[d] = call[d]
           /\ call'[c] = e
<1>1. call'[c] = e /\ \A d \in Callers : d # c => call'[d] = call[d]
  BY DEF CallType
<1> QED BY <1>1 DEF CallerHolds

LEMMA CallerIdles ==
    ASSUME CallType, NEW c \in Callers, call' = [call EXCEPT ![c] = IdleCall]
    PROVE  /\ \A b : ~CallerHolds(c, b)'
           /\ \A d \in Callers, b \in Bundles : CallerHolds(d, b)' => CallerHolds(d, b)
           /\ \A d \in Callers : d # c => call'[d] = call[d]
           /\ call'[c].pc = "idle"
<1>1. IdleCall.pc = "idle"
  BY DEF IdleCall
<1> QED BY <1>1, CallerLetsGo

(* A row never disappears. *)
LEMMA RowsStay ==
    ASSUME TypeOK, NEW b, NEW s, s # "none",
           \/ status' = Overwritten(b, s)
           \/ status' = IfActive(b, s)
           \/ status' = status
           \/ status' = [status EXCEPT ![b] = s]
    PROVE  \A x \in Bundles : status'[x] = "none" => status[x] = "none"
BY DEF TypeOK, DatabaseType, Overwritten, IfActive, Active

LEMMA Counting ==
    ASSUME TypeOK, \/ UNCHANGED faults
                   \/ Fault
    PROVE  faults' \in Nat /\ faults' >= faults
BY DEF TypeOK, HistoryType, Fault

LEMMA RetriesAlone ==
    ASSUME TypeOK, UNCHANGED retryCount
    PROVE  \A b \in Bundles : retryCount'[b] >= retryCount[b]
BY DEF TypeOK, DatabaseType

(* Steps that leave queue, callers, executor and boot alone. *)
LEMMA ElsewhereQuiet ==
    ASSUME CustodyInv, TypeOK', Calm, UNCHANGED <<slots, phase, bootQueue, call, ex>>
    PROVE  CustodyInv'
<1>1. QueueInv' /\ Queued' = Queued
  BY QueueUnchanged DEF CustodyInv
<1>2. ExecutorShape' /\ PhaseShape'
  BY <1>1, ExecutorAlone DEF CustodyInv, PhaseShape
<1>3. \A b \in Bundles : HolderQuiet(b) /\ WorkQuiet(b)
  BY <1>1, CallsAlone, ExecutorAlone DEF HolderQuiet
<1> QED BY <1>1, <1>2, <1>3, QuietStep

LEMMA AdmissionKeepsCustody ==
    ASSUME CustodyInv, TypeOK', AdmissionNext
    PROVE  CustodyInv'
<1>0. TypeOK /\ QueueInv /\ ExecutorShape /\ PhaseShape /\ CallType
      /\ \A b \in Bundles : OneHolder(b) /\ WithinBudget(b)
  BY DEF CustodyInv, TypeOK
<1>1. PICK r \in Requests :
        \/ \E b \in Bundles : CheckBundle(r, b) \/ BundleAlreadyExists(r, b)
        \/ RejectBundle(r)
        \/ CreateRow(r)
        \/ ReuseRow(r)
        \/ PersistUtxos(r)
  BY DEF AdmissionNext
<1>2. r \in Callers /\ "boot" \in Callers /\ r # "boot"
  BY CallersAssumption DEF Callers
<1> DEFINE b0 == call[r].bundle
(* The steps that only change where the caller is, and give nothing to it. *)
<1>3. ASSUME \A d \in Callers, b \in Bundles : CallerHolds(d, b)' => CallerHolds(d, b),
             phase = "down" => \A d \in Callers : call'[d].pc = "idle",
             call'["boot"] = call["boot"],
             UNCHANGED <<retryCount, slots, phase, bootQueue, ex, content,
                         executions, crashes, faults>>,
             \A b \in Bundles : status'[b] = "none" => status[b] = "none"
      PROVE  CustodyInv'
  <2>1. QueueInv' /\ Queued' = Queued
    BY <1>0, <1>3, QueueUnchanged
  <2>2. ExecutorShape' /\ PhaseShape'
    BY <1>0, <1>3, <2>1, ExecutorAlone DEF PhaseShape
  <2>3. Calm
    BY <1>0, <1>3, Counting, RetriesAlone DEF Calm
  <2>4. \A b \in Bundles : HolderQuiet(b) /\ WorkQuiet(b)
    BY <1>3, <2>1, ExecutorAlone DEF HolderQuiet
  <2> QED BY <2>1, <2>2, <2>3, <2>4, QuietStep
<1>4. ASSUME NEW b \in Bundles, CheckBundle(r, b) PROVE CustodyInv'
  <2> DEFINE e == [pc |-> IF status[b] = "none" THEN "create" ELSE "reuse", bundle |-> b]
  <2>1. call' = [call EXCEPT ![r] = e] /\ e.pc \notin {"persist", "place"} /\ phase = "up"
    BY <1>4 DEF CheckBundle
  <2>2. /\ \A d \in Callers, x \in Bundles : CallerHolds(d, x)' => CallerHolds(d, x)
        /\ call'["boot"] = call["boot"]
    <3> HIDE DEF e
    <3> QED BY <1>0, <1>2, <2>1, CallerLetsGo
  <2>3. UNCHANGED <<retryCount, slots, phase, bootQueue, ex, content, executions, crashes,
                    faults, status>>
    BY <1>4 DEF CheckBundle, db, world
  <2> QED BY <1>3, <2>1, <2>2, <2>3
<1>5. ASSUME NEW b \in Bundles, BundleAlreadyExists(r, b) PROVE CustodyInv'
  <2>1. UNCHANGED <<retryCount, slots, phase, bootQueue, ex, content, executions, crashes,
                    faults, status, call>>
    BY <1>5 DEF BundleAlreadyExists, vars, db, world, process
  <2> QED BY <1>0, <1>3, <2>1, CallsAlone DEF PhaseShape
<1>6. ASSUME call' = [call EXCEPT ![r] = IdleCall],
             UNCHANGED <<retryCount, slots, phase, bootQueue, ex, content, executions, crashes,
                         faults, status>>
      PROVE  CustodyInv'
  <2>1. /\ \A d \in Callers, b \in Bundles : CallerHolds(d, b)' => CallerHolds(d, b)
        /\ \A d \in Callers : d # r => call'[d] = call[d]
        /\ call'[r].pc = "idle"
    BY <1>0, <1>2, <1>6, CallerIdles
  <2> QED BY <1>0, <1>2, <1>3, <1>6, <2>1 DEF PhaseShape
<1>7. CASE RejectBundle(r)
  BY <1>6, <1>7 DEF RejectBundle, db, world
<1>8. CASE PersistUtxos(r)
  <2>1. UNCHANGED <<retryCount, slots, phase, bootQueue, ex, content, executions, crashes,
                    faults, status>>
    BY <1>8 DEF PersistUtxos, db, world
  <2>2. CASE call' = [call EXCEPT ![r] = IdleCall]
    BY <1>6, <2>1, <2>2
  <2>3. CASE call' = [call EXCEPT ![r].pc = "place"]
    <3>1. /\ \A d \in Callers : d # r => call'[d] = call[d]
          /\ call'[r].bundle = b0 /\ call[r].pc = "persist"
      BY <1>0, <1>2, <1>8, <2>3 DEF CallType, PersistUtxos
    <3>2. \A d \in Callers, b \in Bundles : CallerHolds(d, b)' => CallerHolds(d, b)
      BY <3>1 DEF CallerHolds
    <3> QED BY <1>0, <1>2, <1>3, <2>1, <3>1, <3>2 DEF PhaseShape
  <2> QED BY <1>8, <2>2, <2>3 DEF PersistUtxos
<1>9. CASE CreateRow(r)
  <2>1. UNCHANGED <<retryCount, slots, phase, bootQueue, ex, content, executions, crashes,
                    faults>>
    BY <1>9 DEF CreateRow, world
  <2>2. CASE call' = [call EXCEPT ![r] = IdleCall] /\ UNCHANGED status
    BY <1>6, <2>1, <2>2
  <2>3. CASE /\ status[b0] = "none" /\ status' = [status EXCEPT ![b0] = "PENDING"]
             /\ call' = [call EXCEPT ![r].pc = "persist"]
    <3>0. b0 \in Bundles /\ phase # "down"
      BY <1>0, <1>2, <1>9 DEF CallType, CreateRow, PhaseShape
    <3>1. \A d \in Callers : d # r => call'[d] = call[d]
      BY <1>0, <1>2, <2>3 DEF CallType
    <3>2. call'[r].bundle = b0 /\ call[r].pc = "create"
      BY <1>0, <1>2, <1>9, <2>3 DEF CallType, CreateRow
    <3>3. QueueInv' /\ Queued' = Queued
      BY <1>0, <2>1, QueueUnchanged
    <3>4. ExecutorShape' /\ PhaseShape'
      BY <1>0, <1>2, <2>1, <3>0, <3>1, <3>3, ExecutorAlone DEF PhaseShape
    <3>5. \A b \in Bundles : status'[b] = "none" => status[b] = "none" /\ b # b0
      BY <1>0, <2>3 DEF TypeOK, DatabaseType
    <3>6. Calm
      BY <1>0, <2>1, <3>5, Counting, RetriesAlone DEF Calm
    <3>7. ASSUME NEW b \in Bundles
          PROVE  OneHolder(b)' /\ (Waiting(b)' => Waiting(b) \/ b = b0)
                 /\ (Unsent(b)' => Unsent(b))
      <4>1. \A d \in Callers : CallerHolds(d, b)' => CallerHolds(d, b) \/ (d = r /\ b = b0)
        BY <3>1, <3>2 DEF CallerHolds
      <4>2. OneHolder(b) /\ (ExecutorHolds(b)' = ExecutorHolds(b)) /\ WorkQuiet(b)
        BY <1>0, <2>1, ExecutorAlone
      <4>3. b = b0 => /\ \A d \in Callers : ~CallerHolds(d, b)
                      /\ b \notin Queued /\ b \notin bootQueue /\ ~ExecutorHolds(b)
        BY <2>3, <4>2 DEF OneHolder
      <4>4. OneHolder(b)'
        BY <2>1, <3>3, <3>5, <4>1, <4>2, <4>3 DEF OneHolder
      <4>5. Waiting(b)' => Waiting(b) \/ b = b0
        BY <2>1, <3>3, <4>1, <4>2 DEF Waiting, WorkQuiet
      <4> QED BY <2>3, <3>5, <4>2, <4>4, <4>5 DEF Unsent, WorkQuiet
    <3>8. ASSUME NEW b \in Bundles PROVE WithinBudget(b)'
      <4>1. CASE b = b0
        <5>1. executions[b] = 0 /\ retryCount[b] \in Nat
          BY <1>0, <2>3, <4>1 DEF WithinBudget, TypeOK, DatabaseType
        <5>2. crashes \in Nat /\ MaxRetry \in Nat \ {0} /\ executions'[b] = 0
              /\ retryCount'[b] = retryCount[b] /\ crashes' = crashes
          BY <1>0, <2>1, <5>1, MaxRetryAssumption DEF TypeOK, HistoryType
        <5> QED BY <5>1, <5>2 DEF WithinBudget
      <4>2. CASE b # b0
        BY <1>0, <2>1, <3>5, <3>7, <4>2 DEF WithinBudget
      <4> QED BY <4>1, <4>2
    <3>9. SentOnce'
      BY <2>1, <3>7 DEF CustodyInv, SentOnce
    <3> QED BY <3>3, <3>4, <3>7, <3>8, <3>9 DEF CustodyInv
  <2> QED BY <1>9, <2>2, <2>3 DEF CreateRow
<1>10. CASE ReuseRow(r)
  <2>1. UNCHANGED <<slots, phase, bootQueue, ex, content, crashes, faults>>
    BY <1>10 DEF ReuseRow
  <2>2. /\ \A d \in Callers, b \in Bundles : CallerHolds(d, b)' => CallerHolds(d, b)
        /\ \A d \in Callers : d # r => call'[d] = call[d]
        /\ call'[r].pc = "idle"
    BY <1>0, <1>2, <1>10, CallerIdles DEF ReuseRow
  <2>3. \A b \in Bundles : status'[b] = "none" => status[b] = "none"
    BY <1>0, <1>10, RowsStay DEF ReuseRow
  <2>4. QueueInv' /\ Queued' = Queued
    BY <1>0, <2>1, QueueUnchanged
  <2>5. ExecutorShape' /\ PhaseShape'
    BY <1>0, <1>2, <2>1, <2>2, <2>4, ExecutorAlone DEF PhaseShape
  <2>6. ASSUME NEW b \in Bundles
        PROVE  OneHolder(b)' /\ (Waiting(b)' => Waiting(b)) /\ (Unsent(b)' => Unsent(b))
    <3>1. HolderQuiet(b) /\ WorkQuiet(b) /\ OneHolder(b)
      BY <1>0, <2>1, <2>2, <2>4, ExecutorAlone DEF HolderQuiet
    <3>2. OneHolder(b)'
      BY <2>3, <3>1 DEF OneHolder, HolderQuiet
    <3>3. Waiting(b)' => Waiting(b)
      BY <2>1, <3>1 DEF Waiting, HolderQuiet, WorkQuiet
    <3> QED BY <2>3, <3>1, <3>2, <3>3 DEF Unsent, WorkQuiet
  <2>7. ASSUME NEW b \in Bundles PROVE WithinBudget(b)'
    <3>1. CASE b = b0
      <4>1. executions'[b] = 0 /\ retryCount'[b] = 0
        BY <1>0, <1>10, <3>1 DEF ReuseRow, TypeOK, DatabaseType, HistoryType
      <4>2. crashes \in Nat /\ MaxRetry \in Nat \ {0} /\ crashes' = crashes
        BY <1>0, <2>1, MaxRetryAssumption DEF TypeOK, HistoryType
      <4> QED BY <4>1, <4>2 DEF WithinBudget
    <3>2. CASE b # b0
      <4>1. executions'[b] = executions[b] /\ retryCount'[b] = retryCount[b]
        BY <1>0, <1>10, <3>2 DEF ReuseRow, TypeOK, DatabaseType, HistoryType
      <4> QED BY <1>0, <2>1, <2>3, <2>6, <4>1 DEF WithinBudget
    <3> QED BY <3>1, <3>2
  <2>8. SentOnce'
    BY <2>1, <2>6 DEF CustodyInv, SentOnce
  <2> QED BY <2>4, <2>5, <2>6, <2>7, <2>8 DEF CustodyInv
<1> QED BY <1>1, <1>4, <1>5, <1>7, <1>8, <1>9, <1>10

(* A caller of addBundle is done with its bundle, which may now be queued. *)
LEMMA CallerHandsOver ==
    ASSUME CustodyInv, TypeOK', QueueInv', NEW c \in Callers,
           \A d \in Callers : d # c => call'[d] = call[d],
           call'[c].pc \notin {"persist", "place"}, call[c].pc # "idle",
           \A b \in Bundles : b \in Queued' => b \in Queued \/ CallerHolds(c, b),
           UNCHANGED <<retryCount, phase, bootQueue, ex, content, executions, crashes>>,
           faults' \in Nat /\ faults' >= faults,
           \A b \in Bundles : status'[b] = "none" => status[b] = "none"
    PROVE  CustodyInv'
<1>0. TypeOK /\ ExecutorShape /\ PhaseShape /\ \A b \in Bundles : OneHolder(b)
  BY DEF CustodyInv
<1>1. phase # "down"
  BY <1>0 DEF PhaseShape
<1>2. ExecutorShape' /\ PhaseShape'
  <2>1. "boot" \in Callers
    BY DEF Callers
  <2> QED BY <1>0, <1>1, <2>1, ExecutorAlone DEF PhaseShape
<1>3. Calm
  BY <1>0, RetriesAlone DEF Calm
<1>4. ASSUME NEW b \in Bundles
      PROVE  OneHolder(b)' /\ (Waiting(b)' => Waiting(b)) /\ (Unsent(b)' => Unsent(b))
  <2>1. OneHolder(b) /\ (ExecutorHolds(b)' = ExecutorHolds(b)) /\ WorkQuiet(b)
    BY <1>0, ExecutorAlone
  <2>2. \A d \in Callers : CallerHolds(d, b)' => CallerHolds(d, b) /\ d # c
    BY DEF CallerHolds
  <2>3. OneHolder(b)'
    BY <2>1, <2>2 DEF OneHolder
  <2>4. Waiting(b)' => Waiting(b)
    BY <2>1, <2>2 DEF Waiting, WorkQuiet
  <2> QED BY <2>1, <2>3, <2>4 DEF Unsent, WorkQuiet
<1> QED BY <1>2, <1>3, <1>4, CalmStep

LEMMA AddBundleKeepsCustody ==
    ASSUME CustodyInv, TypeOK', AddBundleNext
    PROVE  CustodyInv'
<1>0. TypeOK /\ QueueInv /\ CallType /\ \A b \in Bundles : OneHolder(b)
  BY DEF CustodyInv, TypeOK
<1>1. PICK c \in Callers :
        \/ AddExpiredBundle(c)
        \/ QueueBundle(c)
        \/ QueueBundleSlotFull(c)
        \/ ConfirmQueued(c)
        \/ AddBundleFault(c)
  BY DEF AddBundleNext
<1> DEFINE b0 == call[c].bundle
<1>2. call[c].pc # "idle" => b0 \in Bundles
  BY <1>0 DEF CallType
<1>3. call' = [call EXCEPT ![c] = IdleCall] =>
        call'[c].pc = "idle" /\ \A d \in Callers : d # c => call'[d] = call[d]
  BY <1>0, CallerIdles
<1>4. call[c].pc = "place" => CallerHolds(c, b0) /\ b0 \notin Queued
  BY <1>0, <1>2 DEF CallerHolds, OneHolder
<1>5. CASE AddExpiredBundle(c)
  <2>1. /\ UNCHANGED <<retryCount, slots, phase, bootQueue, ex, content, executions, crashes, faults>>
        /\ call[c].pc = "place" /\ call' = [call EXCEPT ![c] = IdleCall]
    BY <1>5 DEF AddExpiredBundle, world
  <2>2. \A b \in Bundles : status'[b] = "none" => status[b] = "none"
    BY <1>0, <1>5, RowsStay DEF AddExpiredBundle
  <2>3. QueueInv' /\ Queued' = Queued
    BY <1>0, <2>1, QueueUnchanged
  <2> QED BY <1>0, <1>3, <2>1, <2>2, <2>3, Counting, CallerHandsOver
<1>6. CASE QueueBundle(c)
  <2>1. /\ UNCHANGED <<status, retryCount, phase, bootQueue, ex, content, executions, crashes, faults>>
        /\ call[c].pc = "place" /\ call' = [call EXCEPT ![c].pc = "confirm"] /\ PlaceBundle(b0)
    BY <1>6 DEF QueueBundle, world, db
  <2>2. call'[c].pc = "confirm" /\ \A d \in Callers : d # c => call'[d] = call[d]
    BY <1>0, <2>1 DEF CallType
  <2>3. QueueInv' /\ Queued' = Queued \cup {b0}
    BY <1>0, <1>2, <1>4, <2>1, PlaceBundleQueue
  <2>4. \A b \in Bundles : b \in Queued' => b \in Queued \/ CallerHolds(c, b)
    BY <1>4, <2>1, <2>3
  <2> QED BY <1>0, <2>1, <2>2, <2>3, <2>4, Counting, CallerHandsOver
<1>7. CASE QueueBundleSlotFull(c)
  <2>1. /\ UNCHANGED <<status, retryCount, phase, bootQueue, ex, content, executions, crashes, faults>>
        /\ call[c].pc = "place" /\ call' = [call EXCEPT ![c] = IdleCall] /\ PlaceBundleSlotFull(b0)
    BY <1>7 DEF QueueBundleSlotFull, world, db
  <2>2. QueueInv' /\ Queued' \subseteq Queued \cup {b0}
    BY <1>0, <1>2, <1>4, <2>1, PlaceBundleSlotFullQueue
  <2>3. \A b \in Bundles : b \in Queued' => b \in Queued \/ CallerHolds(c, b)
    BY <1>4, <2>1, <2>2
  <2> QED BY <1>0, <1>3, <2>1, <2>2, <2>3, Counting, CallerHandsOver
<1>8. CASE ConfirmQueued(c)
  <2>1. /\ UNCHANGED <<retryCount, phase, bootQueue, ex, content, executions, crashes, faults>>
        /\ call[c].pc = "confirm" /\ call' = [call EXCEPT ![c] = IdleCall]
        /\ UNCHANGED slots \/ EvictBundles({b0})
    BY <1>8 DEF ConfirmQueued, world
  <2>2. \A b \in Bundles : status'[b] = "none" => status[b] = "none"
    BY <1>0, <1>8, RowsStay DEF ConfirmQueued
  <2>3. QueueInv' /\ Queued' \subseteq Queued
    BY <1>0, <2>1, QueueUnchanged, EvictBundlesQueue
  <2> QED BY <1>0, <1>3, <2>1, <2>2, <2>3, Counting, CallerHandsOver
<1>9. CASE AddBundleFault(c)
  <2>1. /\ UNCHANGED <<status, retryCount, phase, bootQueue, ex, content, executions, crashes>>
        /\ call[c].pc # "idle" /\ call' = [call EXCEPT ![c] = IdleCall] /\ Fault
        /\ UNCHANGED slots \/ EvictBundles({b0})
    BY <1>9 DEF AddBundleFault, world, db
  <2>2. QueueInv' /\ Queued' \subseteq Queued
    BY <1>0, <2>1, QueueUnchanged, EvictBundlesQueue
  <2> QED BY <1>0, <1>3, <2>1, <2>2, Counting, CallerHandsOver
<1> QED BY <1>1, <1>5, <1>6, <1>7, <1>8, <1>9

LEMMA SweepKeepsCustody ==
    ASSUME CustodyInv, TypeOK', SweepNext
    PROVE  CustodyInv'
<1>0. TypeOK /\ QueueInv /\ ExecutorShape /\ PhaseShape
  BY DEF CustodyInv
<1>1. CASE SweepSlots
  <2>1. /\ UNCHANGED <<status, retryCount, phase, bootQueue, call, ex, content, executions, crashes, faults>>
        /\ EvictBundles(Queued \cap expired)
    BY <1>1 DEF SweepSlots, world, db
  <2>2. QueueInv' /\ Queued' \subseteq Queued
    BY <1>0, <2>1, EvictBundlesQueue
  <2>3. ExecutorShape' /\ PhaseShape'
    BY <1>0, <2>1, <2>2, ExecutorAlone DEF PhaseShape
  <2>4. Calm
    BY <1>0, <2>1, Counting, RetriesAlone DEF Calm
  <2>5. \A b \in Bundles : HolderQuiet(b) /\ WorkQuiet(b)
    BY <2>1, <2>2, CallsAlone, ExecutorAlone DEF HolderQuiet
  <2> QED BY <2>2, <2>3, <2>4, <2>5, QuietStep
<1>2. ASSUME NEW b \in Bundles, MarkExpired(b) PROVE CustodyInv'
  <2>1. UNCHANGED <<retryCount, slots, phase, bootQueue, call, ex, content, executions, crashes, faults>>
    BY <1>2 DEF MarkExpired, world
  <2>2. \A x \in Bundles : status'[x] = "none" => status[x] = "none"
    BY <1>0, <1>2, RowsStay DEF MarkExpired
  <2>3. Calm
    BY <1>0, <2>1, <2>2, Counting, RetriesAlone DEF Calm
  <2> QED BY <2>1, <2>3, ElsewhereQuiet
<1>3. CASE SweepFault
  <2>1. /\ UNCHANGED <<status, retryCount, slots, phase, bootQueue, call, ex, content, executions, crashes>>
        /\ Fault
    BY <1>3 DEF SweepFault, world, db
  <2>2. Calm
    BY <1>0, <2>1, Counting, RetriesAlone DEF Calm
  <2> QED BY <2>1, <2>2, ElsewhereQuiet
<1> QED BY <1>1, <1>2, <1>3 DEF SweepNext

LEMMA VerifierKeepsCustody ==
    ASSUME CustodyInv, TypeOK', VerifierNext
    PROVE  CustodyInv'
<1>0. TypeOK
  BY DEF CustodyInv
<1>1. PICK v \in VerifierCycles : VerifierStep(v)
  BY DEF VerifierNext
<1>2. /\ UNCHANGED <<slots, phase, bootQueue, call, ex, content, executions, crashes>>
      /\ UNCHANGED faults \/ Fault
      /\ \/ UNCHANGED <<status, retryCount>>
         \/ \E b \in Bundles : MarkBundle(v, b)
  BY <1>1 DEF VerifierStep, StartCycle, ReadLinks, QueryNetwork, StillPending, MarkTransaction,
              MarkBundle, world, db
<1>3. ASSUME NEW b \in Bundles, MarkBundle(v, b), ~UNCHANGED <<status, retryCount>>
      PROVE  \A x \in Bundles : /\ status'[x] = "none" => status[x] = "none"
                                /\ retryCount'[x] >= retryCount[x]
  <2>1. \E s \in {"COMPLETED", "FAILED"} : status' = Overwritten(b, s)
    BY <1>3 DEF MarkBundle
  <2>2. \A x \in Bundles : status'[x] = "none" => status[x] = "none"
    BY <1>0, <2>1, RowsStay
  <2>3. \A x \in Bundles : retryCount[x] \in Nat
    BY <1>0 DEF TypeOK, DatabaseType
  <2>4. /\ retryCount \in [Bundles -> Nat]
        /\ \/ retryCount' = [retryCount EXCEPT ![b] = @]
           \/ retryCount' = [retryCount EXCEPT ![b] = @ + 1]
    BY <1>0, <1>3 DEF MarkBundle, TypeOK, DatabaseType
  <2>5. \A x \in Bundles : retryCount'[x] >= retryCount[x]
    BY <2>3, <2>4
  <2> QED BY <2>2, <2>5
<1>4. \A x \in Bundles : /\ status'[x] = "none" => status[x] = "none"
                         /\ retryCount'[x] >= retryCount[x]
  BY <1>0, <1>2, <1>3, RetriesAlone
<1>5. Calm
  BY <1>0, <1>2, <1>4, Counting DEF Calm
<1> QED BY <1>2, <1>5, ElsewhereQuiet

LEMMA WorldKeepsCustody ==
    ASSUME CustodyInv, TypeOK', WorldNext
    PROVE  CustodyInv'
<1>0. TypeOK
  BY DEF CustodyInv
<1>1. UNCHANGED <<slots, phase, bootQueue, call, ex, content, executions, crashes, faults,
                  status, retryCount>>
  BY DEF WorldNext, TtlPasses, ConfirmationTimeout, Ledger, process, db
<1>2. Calm
  BY <1>0, <1>1, Counting, RetriesAlone DEF Calm
<1> QED BY <1>1, <1>2, ElsewhereQuiet

(* The executor goes on with what it has. *)
LEMMA ExecutorMovesOn ==
    ASSUME CustodyInv, TypeOK', ex.pc # "idle", ExecutorShape',
           \A b \in Bundles : /\ ExecutorHolds(b)' => ExecutorHolds(b)
                              /\ Work(b)' => Work(b)
                              /\ faults' = 0 => (Failing(b)' => Failing(b)),
           UNCHANGED <<slots, phase, bootQueue, call, content, executions, crashes, retryCount>>,
           UNCHANGED faults \/ Fault,
           \A b \in Bundles : status'[b] = "none" => status[b] = "none"
    PROVE  CustodyInv'
<1>0. TypeOK /\ QueueInv /\ PhaseShape /\ \A b \in Bundles : OneHolder(b)
  BY DEF CustodyInv
<1>1. QueueInv' /\ Queued' = Queued
  BY <1>0, QueueUnchanged
<1>2. phase = "up" /\ PhaseShape'
  BY <1>0 DEF PhaseShape, TypeOK, PhaseType
<1>3. Calm
  BY <1>0, Counting, RetriesAlone DEF Calm
<1>4. ASSUME NEW b \in Bundles
      PROVE  OneHolder(b)' /\ (Waiting(b)' => Waiting(b)) /\ (faults' = 0 => (Unsent(b)' => Unsent(b)))
  <2>1. OneHolder(b) /\ HolderQuiet(b)
    BY <1>0, <1>1, CallsAlone DEF HolderQuiet
  <2>2. OneHolder(b)'
    BY <2>1 DEF OneHolder, HolderQuiet
  <2>3. Waiting(b)' => Waiting(b)
    BY <2>1 DEF Waiting, HolderQuiet
  <2> QED BY <2>2, <2>3 DEF Unsent
<1> QED BY <1>1, <1>2, <1>3, <1>4, CalmStep

(* An execution begins to have an outcome: it is counted. *)
LEMMA ExecutionCounts ==
    ASSUME CustodyInv, TypeOK', ex.pc = "build", CountExecution,
           ex'.hand = ex.hand, ex'.retrying = ex.retrying,
           \/ ex'.pc \in {"fail", "fees"} /\ ex'.todo = ex.hand
           \/ ex'.pc = "record",
           UNCHANGED <<status, retryCount, slots, phase, bootQueue, call, crashes>>,
           UNCHANGED faults \/ Fault
    PROVE  /\ QueueInv' /\ ExecutorShape' /\ PhaseShape'
           /\ \A b \in Bundles : OneHolder(b)' /\ WithinBudget(b)'
           /\ \A b \in Bundles : Waiting(b)' => Waiting(b) /\ b \notin ex.hand
           /\ \A b \in ex.hand : Waiting(b) /\ status[b] # "none"
<1>0. TypeOK /\ QueueInv /\ ExecutorShape /\ PhaseShape
      /\ \A b \in Bundles : OneHolder(b) /\ WithinBudget(b)
  BY DEF CustodyInv
<1>1. QueueInv' /\ Queued' = Queued
  BY <1>0, QueueUnchanged
<1>2. phase = "up" /\ PhaseShape'
  BY <1>0 DEF PhaseShape, TypeOK, PhaseType
<1>3. ex.retrying = {} /\ ExecutorShape'
  BY <1>0 DEF ExecutorShape
<1>4. ASSUME NEW b \in Bundles
      PROVE  /\ OneHolder(b)' /\ (Waiting(b)' => Waiting(b) /\ b \notin ex.hand)
             /\ b \in ex.hand => Waiting(b) /\ status[b] # "none"
  <2>1. \A c \in Callers : CallerHolds(c, b)' = CallerHolds(c, b)
    BY CallsAlone
  <2>2. ExecutorHolds(b)' = ExecutorHolds(b) /\ (ExecutorHolds(b) <=> b \in ex.hand)
    BY <1>3 DEF ExecutorHolds
  <2>3. ~Work(b)' /\ (b \in ex.hand => Work(b))
    BY <1>3 DEF Work
  <2>4. OneHolder(b)'
    BY <1>0, <1>1, <2>1, <2>2 DEF OneHolder
  <2>5. Waiting(b)' => Waiting(b) /\ b \notin ex.hand
    BY <1>0, <1>1, <1>2, <2>1, <2>2, <2>3 DEF Waiting, OneHolder
  <2>6. b \in ex.hand => Waiting(b) /\ status[b] # "none"
    BY <1>0, <2>2, <2>3 DEF Waiting, OneHolder
  <2> QED BY <2>4, <2>5, <2>6
<1>5. ASSUME NEW b \in Bundles PROVE WithinBudget(b)'
  <2> DEFINE e == executions[b]  r == retryCount[b]  e2 == executions'[b]
  <2>1. /\ e \in Nat /\ r \in Nat /\ crashes \in Nat /\ MaxRetry \in Nat
        /\ retryCount'[b] = r /\ crashes' = crashes /\ status'[b] = status[b]
    BY <1>0, MaxRetryAssumption DEF TypeOK, DatabaseType, HistoryType
  <2>2. /\ b \in ex.hand => e2 = e + 1
        /\ b \notin ex.hand => e2 = e
    BY <2>1 DEF CountExecution
  <2>3. /\ e <= r + crashes + 1
        /\ e <= MaxRetry + crashes
        /\ Waiting(b) => e <= r + crashes /\ e < MaxRetry + crashes
        /\ status[b] = "none" => e = 0
    BY <1>0 DEF WithinBudget
  <2> HIDE DEF e, r, e2
  <2>4. /\ e2 <= r + crashes + 1
        /\ e2 <= MaxRetry + crashes
        /\ Waiting(b)' => e2 <= r + crashes /\ e2 < MaxRetry + crashes
        /\ status[b] = "none" => e2 = 0
    BY <1>4, <2>1, <2>2, <2>3
  <2> QED BY <2>1, <2>4 DEF WithinBudget, e2
<1>6. ex.hand \subseteq Bundles
  BY <1>0 DEF TypeOK, ExecutorType
<1> QED BY <1>1, <1>2, <1>3, <1>4, <1>5, <1>6

LEMMA ExecutionKeepsCustody ==
    ASSUME CustodyInv, TypeOK',
           \/ \E det \in BOOLEAN : ExecutionFails(det)
           \/ InsufficientFees
           \/ \E t \in Txs : SubmitTransaction(t)
    PROVE  CustodyInv'
<1>0. TypeOK /\ SentOnce
  BY DEF CustodyInv
<1>1. /\ ex.pc = "build" /\ CountExecution
      /\ ex'.hand = ex.hand /\ ex'.retrying = ex.retrying
      /\ \/ ex'.pc \in {"fail", "fees"} /\ ex'.todo = ex.hand
         \/ ex'.pc = "record"
      /\ UNCHANGED <<status, retryCount, slots, phase, bootQueue, call, crashes>>
      /\ UNCHANGED faults \/ Fault
  <2>1. ASSUME NEW det \in BOOLEAN, ExecutionFails(det)
        PROVE  ex' = [ex EXCEPT !.pc = "fail", !.todo = ex.hand, !.det = det]
    BY <2>1 DEF ExecutionFails
  <2>2. ASSUME InsufficientFees
        PROVE  ex' = [ex EXCEPT !.pc = "fees", !.todo = ex.hand]
    BY <2>2 DEF InsufficientFees
  <2>3. ASSUME NEW t \in Txs, SubmitTransaction(t)
        PROVE  \/ ex' = [ex EXCEPT !.pc = "record", !.tx = t]
               \/ ex' = [ex EXCEPT !.pc = "fail", !.todo = ex.hand]
    BY <2>3 DEF SubmitTransaction
  <2>4. ex'.hand = ex.hand /\ ex'.retrying = ex.retrying
      /\ \/ ex'.pc \in {"fail", "fees"} /\ ex'.todo = ex.hand
         \/ ex'.pc = "record"
    BY <1>0, <2>1, <2>2, <2>3 DEF TypeOK, ExecutorType
  <2>5. /\ ex.pc = "build" /\ CountExecution
        /\ UNCHANGED <<status, retryCount, slots, phase, bootQueue, call, crashes>>
        /\ UNCHANGED faults \/ Fault
    BY DEF ExecutionFails, InsufficientFees, SubmitTransaction, db
  <2> QED BY <2>4, <2>5
<1>2. /\ QueueInv' /\ ExecutorShape' /\ PhaseShape'
      /\ \A b \in Bundles : OneHolder(b)' /\ WithinBudget(b)'
      /\ \A b \in Bundles : Waiting(b)' => Waiting(b) /\ b \notin ex.hand
      /\ \A b \in ex.hand : Waiting(b) /\ status[b] # "none"
  BY <1>1, ExecutionCounts
<1>3. SentOnce'
  <2>1. SUFFICES ASSUME crashes' = 0, faults' = 0
        PROVE  /\ \A t, u \in Txs : t # u => content'[t] \cap content'[u] = {}
               /\ \A b \in Bundles : Unsent(b)' => \A t \in Txs : b \notin content'[t]
    BY DEF SentOnce
  <2>2. crashes = 0 /\ UNCHANGED faults /\ faults = 0
    BY <1>0, <1>1, <2>1 DEF TypeOK, HistoryType, Fault
  <2>3. CASE UNCHANGED content
    <3>1. \A b \in Bundles : Unsent(b)' => Unsent(b)
      BY <1>1, <1>2 DEF Unsent, Failing
    <3> QED BY <1>0, <2>2, <2>3, <3>1 DEF SentOnce
  <2>4. ASSUME NEW t \in Txs, SubmitTransaction(t)
        PROVE  /\ \A v, u \in Txs : v # u => content'[v] \cap content'[u] = {}
               /\ \A b \in Bundles : Unsent(b)' => \A u \in Txs : b \notin content'[u]
    <3>1. /\ \A u \in Txs : content'[u] = IF u = t THEN ex.hand ELSE content[u]
          /\ ex'.pc = "record"
      <4>1. content' = [content EXCEPT ![t] = ex.hand]
        BY <2>4 DEF SubmitTransaction
      <4>2. ex' = [ex EXCEPT !.pc = "record", !.tx = t]
        <5>1. ~Fault
          BY <2>2 DEF Fault
        <5> QED BY <2>4, <5>1 DEF SubmitTransaction
      <4> QED BY <1>0, <4>1, <4>2 DEF TypeOK, WorldType, ExecutorType
    <3>2. \A b \in ex.hand : \A u \in Txs : b \notin content[u]
      <4>1. ex.hand \subseteq Bundles
        BY <1>0 DEF TypeOK, ExecutorType
      <4> QED BY <1>0, <1>2, <2>2, <4>1 DEF SentOnce, Unsent
    <3>3. ASSUME NEW b \in Bundles, Unsent(b)' PROVE Unsent(b) /\ b \notin ex.hand
      BY <1>1, <1>2, <3>1, <3>3 DEF Unsent, Failing
    <3> QED BY <1>0, <2>2, <3>1, <3>2, <3>3 DEF SentOnce
  <2>5. UNCHANGED content \/ \E t \in Txs : SubmitTransaction(t)
    BY DEF ExecutionFails, InsufficientFees, world
  <2> QED BY <2>3, <2>4, <2>5
<1> QED BY <1>2, <1>3 DEF CustodyInv

LEMMA IdleExFields == IdleEx.pc = "idle" /\ IdleEx.hand = {} /\ IdleEx.retrying = {}
BY IdleTypes

(* The loops over ex.todo. *)
LEMMA AfterBundleShape ==
    ASSUME TypeOK, ExecutorShape, ex.pc \in {"link", "fees"}, NEW b, ex' = AfterBundle(b, IdleEx)
    PROVE  /\ ExecutorShape'
           /\ \A x \in Bundles : /\ ExecutorHolds(x)' => ExecutorHolds(x)
                                 /\ Work(x)' => Work(x)
                                 /\ Failing(x)' => Failing(x)
<1>1. CASE ex' = IdleEx
  <2>1. ex'.pc = "idle" /\ ex'.hand = {} /\ ex'.retrying = {}
    BY <1>1, IdleExFields
  <2> QED BY <2>1 DEF ExecutorShape, ExecutorHolds, Work, Failing
<1>2. CASE ex' = [ex EXCEPT !.todo = @ \ {b}]
  <2>1. ex'.pc = ex.pc /\ ex'.hand = ex.hand /\ ex'.retrying = ex.retrying /\ ex'.todo = ex.todo \ {b}
    BY <1>2 DEF TypeOK, ExecutorType
  <2> QED BY <2>1 DEF ExecutorShape, ExecutorHolds, Work, Failing
<1> QED BY <1>1, <1>2 DEF AfterBundle

LEMMA RecordingKeepsCustody ==
    ASSUME CustodyInv, TypeOK',
           \/ RecordTransaction
           \/ RecordFault
           \/ \E b \in Bundles : EvictAtGate(b) \/ LinkBundle(b) \/ FailForFees(b)
    PROVE  CustodyInv'
<1>0. TypeOK /\ ExecutorShape
  BY DEF CustodyInv
<1>1. CASE RecordTransaction
  <2>1. /\ UNCHANGED <<slots, phase, bootQueue, call, content, executions, crashes, retryCount, status, faults>>
        /\ ex.pc = "record" /\ ex' = [ex EXCEPT !.pc = "link", !.todo = ex.hand]
    BY <1>1 DEF RecordTransaction, world
  <2>2. ex'.pc = "link" /\ ex'.hand = ex.hand /\ ex'.todo = ex.hand /\ ex'.retrying = ex.retrying
    BY <1>0, <2>1 DEF TypeOK, ExecutorType
  <2>3. /\ ExecutorShape'
        /\ \A x \in Bundles : /\ ExecutorHolds(x)' => ExecutorHolds(x)
                              /\ Work(x)' => Work(x)
                              /\ Failing(x)' => Failing(x)
    BY <1>0, <2>1, <2>2 DEF ExecutorShape, ExecutorHolds, Work, Failing
  <2> QED BY <2>1, <2>3, ExecutorMovesOn
<1>2. CASE RecordFault
  <2>1. /\ UNCHANGED <<slots, phase, bootQueue, call, content, executions, crashes, retryCount, status>>
        /\ Fault
        /\ ex.pc \in {"record", "link"}
        /\ ex' = [ex EXCEPT !.pc = "fail", !.todo = ex.hand, !.tx = NoTx]
    BY <1>2 DEF RecordFault, world, db
  <2>2. ex'.pc = "fail" /\ ex'.hand = ex.hand /\ ex'.todo = ex.hand /\ ex'.retrying = ex.retrying
    BY <1>0, <2>1 DEF TypeOK, ExecutorType
  <2>3. /\ ExecutorShape'
        /\ \A x \in Bundles : /\ ExecutorHolds(x)' => ExecutorHolds(x)
                              /\ Work(x)' => Work(x)
    BY <1>0, <2>1, <2>2 DEF ExecutorShape, ExecutorHolds, Work
  <2>4. faults' # 0
    BY <1>0, <2>1 DEF Fault, TypeOK, HistoryType
  <2> QED BY <2>1, <2>3, <2>4, ExecutorMovesOn
<1>3. ASSUME NEW b \in Bundles, EvictAtGate(b) PROVE CustodyInv'
  <2>1. /\ UNCHANGED <<slots, phase, bootQueue, call, content, executions, crashes, retryCount>>
        /\ UNCHANGED faults \/ Fault
        /\ ex.pc = "evict"
        /\ \/ ex' = IdleEx
           \/ ex' = [ex EXCEPT !.pc = "build", !.todo = {}]
           \/ ex' = [ex EXCEPT !.todo = @ \ {b}]
    BY <1>3 DEF EvictAtGate, AfterBundle, world
  <2>2. \/ ex'.pc = "idle" /\ ex'.hand = {} /\ ex'.retrying = {}
        \/ ex'.pc \in {"evict", "build"} /\ ex'.hand = ex.hand /\ ex'.retrying = ex.retrying
    BY <1>0, <2>1, IdleExFields DEF TypeOK, ExecutorType
  <2>3. /\ ExecutorShape'
        /\ \A x \in Bundles : /\ ExecutorHolds(x)' => ExecutorHolds(x)
                              /\ Work(x)' => Work(x)
                              /\ Failing(x)' => Failing(x)
    BY <1>0, <2>1, <2>2 DEF ExecutorShape, ExecutorHolds, Work, Failing
  <2>4. \A x \in Bundles : status'[x] = "none" => status[x] = "none"
    <3>1. status' = IfActive(b, "EXPIRED") \/ status' = status
      BY <1>3 DEF EvictAtGate
    <3> QED BY <1>0, <3>1, RowsStay
  <2> QED BY <2>1, <2>3, <2>4, ExecutorMovesOn
<1>4. ASSUME NEW b \in Bundles, LinkBundle(b) PROVE CustodyInv'
  <2>1. /\ UNCHANGED <<slots, phase, bootQueue, call, content, executions, crashes, retryCount, status, faults>>
        /\ ex.pc = "link" /\ ex' = AfterBundle(b, IdleEx)
    BY <1>4 DEF LinkBundle, world
  <2> QED BY <1>0, <2>1, AfterBundleShape, ExecutorMovesOn
<1>5. ASSUME NEW b \in Bundles, FailForFees(b) PROVE CustodyInv'
  <2>1. /\ UNCHANGED <<slots, phase, bootQueue, call, content, executions, crashes, retryCount>>
        /\ UNCHANGED faults \/ Fault
        /\ ex.pc = "fees" /\ ex' = AfterBundle(b, IdleEx)
    BY <1>5 DEF FailForFees, world
  <2>2. \A x \in Bundles : status'[x] = "none" => status[x] = "none"
    <3>1. status' = Overwritten(b, "FAILED") \/ status' = status
      BY <1>5 DEF FailForFees
    <3> QED BY <1>0, <3>1, RowsStay
  <2> QED BY <1>0, <2>1, <2>2, AfterBundleShape, ExecutorMovesOn
<1> QED BY <1>1, <1>2, <1>3, <1>4, <1>5

LEMMA TakeSlotKeepsCustody ==
    ASSUME CustodyInv, TypeOK', TakeSlot
    PROVE  CustodyInv'
<1>0. TypeOK /\ QueueInv /\ ExecutorShape /\ PhaseShape /\ \A b \in Bundles : OneHolder(b)
  BY DEF CustodyInv
<1> DEFINE taken == slots[1].bundles
<1>1. /\ UNCHANGED <<status, retryCount, phase, bootQueue, call, content, executions, crashes, faults>>
      /\ phase = "up" /\ ex.pc = "idle" /\ RemoveFirstSlot
  BY DEF TakeSlot, ExecutorBusy, world, db
<1>2. /\ QueueInv' /\ taken \subseteq Queued /\ Queued' = Queued \ taken
  BY <1>0, <1>1, RemoveFirstSlotQueue
<1>3. /\ ex'.pc \in {"build", "evict"} /\ ex'.hand \subseteq taken /\ ex'.retrying = {}
  BY DEF TakeSlot, IdleEx
<1>4. ex.hand = {} /\ ex.retrying = {}
  BY <1>0, <1>1 DEF ExecutorShape
<1>5. ExecutorShape' /\ PhaseShape'
  BY <1>0, <1>1, <1>3 DEF ExecutorShape, PhaseShape
<1>6. Calm
  BY <1>0, <1>1, Counting, RetriesAlone DEF Calm
<1>7. ASSUME NEW b \in Bundles
      PROVE  OneHolder(b)' /\ (Waiting(b)' => Waiting(b)) /\ (Unsent(b)' => Unsent(b))
  <2>1. \A c \in Callers : CallerHolds(c, b)' = CallerHolds(c, b)
    BY <1>1, CallsAlone
  <2>2. (ExecutorHolds(b)' => b \in taken) /\ (Work(b)' => b \in taken) /\ ~Failing(b)'
    BY <1>3 DEF ExecutorHolds, Work, Failing
  <2>3. OneHolder(b)'
    BY <1>0, <1>1, <1>2, <2>1, <2>2 DEF OneHolder
  <2>4. Waiting(b)' => Waiting(b)
    BY <1>1, <1>2, <2>1, <2>2 DEF Waiting
  <2> QED BY <1>1, <2>2, <2>3, <2>4 DEF Unsent
<1> QED BY <1>2, <1>5, <1>6, <1>7, CalmStep

(* A retry leaves the executor for the queue. *)
LEMMA ReAddKeepsCustody ==
    ASSUME CustodyInv, TypeOK', NEW b0 \in Bundles, ReAddBundle(b0)
    PROVE  CustodyInv'
<1>0. TypeOK /\ QueueInv /\ ExecutorShape /\ PhaseShape /\ CallType
      /\ \A b \in Bundles : OneHolder(b)
  BY DEF CustodyInv, TypeOK
<1>1. /\ UNCHANGED <<status, retryCount, slots, phase, bootQueue, content, executions, crashes, faults>>
      /\ ex.pc = "readd" /\ b0 \in ex.retrying /\ ex.hand = {}
      /\ call' = [call EXCEPT !["executor"] = [pc |-> "place", bundle |-> b0]]
  BY <1>0 DEF ReAddBundle, ExecutorShape, world, db
<1>2. QueueInv' /\ Queued' = Queued
  BY <1>0, <1>1, QueueUnchanged
<1>3. /\ ex'.hand = {} /\ ex'.retrying \subseteq ex.retrying \ {b0}
      /\ \/ ex'.pc = "readd"
         \/ ex'.pc = "idle" /\ ex'.retrying = {}
  BY <1>0, <1>1 DEF ReAddBundle, IdleEx, TypeOK, ExecutorType
<1>6. \A d \in Callers : d # "executor" => call'[d] = call[d]
  BY <1>0, <1>1 DEF CallType
<1>4. phase = "up" /\ ExecutorShape' /\ PhaseShape'
  <2>1. call'["boot"] = call["boot"]
    BY <1>6 DEF Callers
  <2> QED BY <1>0, <1>1, <1>3, <2>1 DEF ExecutorShape, PhaseShape, TypeOK, PhaseType
<1>5. Calm
  BY <1>0, <1>1, Counting, RetriesAlone DEF Calm
<1>7. call'["executor"].bundle = b0
  BY <1>0, <1>1 DEF CallType, Callers
<1>8. ASSUME NEW b \in Bundles
      PROVE  OneHolder(b)' /\ (Waiting(b)' => Waiting(b)) /\ (Unsent(b)' => Unsent(b))
  <2>1. \A c \in Callers : CallerHolds(c, b)' => CallerHolds(c, b) \/ (c = "executor" /\ b = b0)
    BY <1>6, <1>7 DEF CallerHolds
  <2>2. (ExecutorHolds(b)' => ExecutorHolds(b) /\ b # b0) /\ ExecutorHolds(b0) /\ ~Failing(b)'
    BY <1>1, <1>3 DEF ExecutorHolds, Failing
  <2>3. (Work(b)' => Work(b)) /\ Work(b0)
    BY <1>1, <1>3 DEF Work
  <2>4. OneHolder(b)'
    BY <1>0, <1>1, <1>2, <2>1, <2>2 DEF OneHolder
  <2>5. Waiting(b)' => Waiting(b)
    BY <1>1, <1>2, <2>1, <2>3 DEF Waiting
  <2> QED BY <1>1, <2>2, <2>4, <2>5 DEF Unsent
<1> QED BY <1>2, <1>4, <1>5, <1>8, CalmStep

(* A failed execution: a retry is an attempt counted in the database. *)
LEMMA FailureKeepsCustody ==
    ASSUME CustodyInv, TypeOK', NEW b0 \in Bundles, HandleExecutionFailure(b0)
    PROVE  CustodyInv'
<1>0. TypeOK /\ QueueInv /\ ExecutorShape /\ PhaseShape /\ SentOnce
      /\ \A b \in Bundles : OneHolder(b) /\ WithinBudget(b)
  BY DEF CustodyInv
<1>1. /\ UNCHANGED <<slots, phase, bootQueue, call, content, executions, crashes>>
      /\ UNCHANGED faults \/ Fault
      /\ ex.pc = "fail" /\ b0 \in ex.todo
  BY DEF HandleExecutionFailure, world
<1>2. PICK retrying \in {ex.retrying, ex.retrying \cup {b0}} :
        /\ \/ ex' = [ex EXCEPT !.todo = @ \ {b0}, !.retrying = retrying]
           \/ ex' = IdleEx
           \/ ex' = [IdleEx EXCEPT !.pc = "readd", !.retrying = retrying]
        /\ \/ retrying = ex.retrying
           \/ /\ status[b0] \in Active /\ ~HasReachedMaxAttempts(b0)
              /\ retryCount' = [retryCount EXCEPT ![b0] = @ + 1]
  BY DEF HandleExecutionFailure
<1>3. /\ \/ ex'.pc = "fail" /\ ex'.hand = ex.hand /\ ex'.todo \subseteq ex.todo
            /\ ex'.retrying = retrying
         \/ ex'.pc = "idle" /\ ex'.hand = {} /\ ex'.retrying = {}
         \/ ex'.pc = "readd" /\ ex'.hand = {} /\ ex'.retrying = retrying
      /\ b0 \in ex.hand /\ ex.retrying \subseteq ex.hand
  <2>1. CASE ex' = [ex EXCEPT !.todo = @ \ {b0}, !.retrying = retrying]
    BY <1>0, <1>1, <2>1 DEF TypeOK, ExecutorType, ExecutorShape
  <2>2. CASE ex' = IdleEx
    BY <1>0, <1>1, <2>2, IdleExFields DEF ExecutorShape
  <2>3. CASE ex' = [IdleEx EXCEPT !.pc = "readd", !.retrying = retrying]
    <3>1. ex'.pc = "readd" /\ ex'.hand = {} /\ ex'.retrying = retrying
      BY <2>3, IdleTypes
    <3> QED BY <1>0, <1>1, <3>1 DEF ExecutorShape
  <2> QED BY <1>2, <2>1, <2>2, <2>3
<1>4. QueueInv' /\ Queued' = Queued
  BY <1>0, <1>1, QueueUnchanged
<1>5. phase = "up" /\ ExecutorShape' /\ PhaseShape'
  BY <1>0, <1>1, <1>2, <1>3 DEF ExecutorShape, PhaseShape, TypeOK, PhaseType
<1>6. \A x \in Bundles : status'[x] = "none" => status[x] = "none"
  <2>1. status' = status \/ \E s \in {"FAILED", "PENDING"} : status' = IfActive(b0, s)
    BY DEF HandleExecutionFailure
  <2> QED BY <1>0, <2>1, RowsStay
<1>7. \A x \in Bundles : retryCount'[x] >= retryCount[x]
  <2>1. \/ retryCount' = retryCount
        \/ retryCount' = [retryCount EXCEPT ![b0] = @]
        \/ retryCount' = [retryCount EXCEPT ![b0] = @ + 1]
    BY DEF HandleExecutionFailure
  <2>2. retryCount \in [Bundles -> Nat]
    BY <1>0 DEF TypeOK, DatabaseType
  <2> QED BY <2>1, <2>2
<1>8. ASSUME NEW b \in Bundles
      PROVE  /\ OneHolder(b)' /\ (Unsent(b)' => Unsent(b))
             /\ Waiting(b)' => Waiting(b) \/ (b = b0 /\ retrying # ex.retrying)
  <2>1. \A c \in Callers : CallerHolds(c, b)' = CallerHolds(c, b)
    BY <1>1, CallsAlone
  <2>2. ExecutorHolds(b)' => ExecutorHolds(b)
    BY <1>2, <1>3 DEF ExecutorHolds
  <2>3. (Work(b)' => Work(b) \/ (b = b0 /\ retrying # ex.retrying)) /\ (Failing(b)' => Failing(b))
        /\ Failing(b0)
    BY <1>1, <1>2, <1>3 DEF Work, Failing
  <2>4. OneHolder(b)'
    BY <1>0, <1>1, <1>4, <1>6, <2>1, <2>2 DEF OneHolder
  <2>5. Waiting(b)' => Waiting(b) \/ (b = b0 /\ retrying # ex.retrying)
    BY <1>1, <1>4, <2>1, <2>3 DEF Waiting
  <2> QED BY <1>6, <2>3, <2>4, <2>5 DEF Unsent
<1>9. ASSUME NEW b \in Bundles PROVE WithinBudget(b)'
  <2> DEFINE e == executions[b]  r == retryCount[b]  r2 == retryCount'[b]
  <2>1. /\ e \in Nat /\ r \in Nat /\ r2 \in Nat /\ crashes \in Nat /\ MaxRetry \in Nat
        /\ executions'[b] = e /\ crashes' = crashes /\ r2 >= r
    BY <1>0, <1>1, <1>7, MaxRetryAssumption DEF TypeOK, DatabaseType, HistoryType
  <2>2. /\ e <= r + crashes + 1
        /\ e <= MaxRetry + crashes
        /\ Waiting(b) => e <= r + crashes /\ e < MaxRetry + crashes
        /\ status[b] = "none" => e = 0
    BY <1>0 DEF WithinBudget
  <2>3. Waiting(b)' => Waiting(b) \/ (r2 = r + 1 /\ r + 1 < MaxRetry)
    <3>1. b = b0 /\ retrying # ex.retrying => r2 = r + 1 /\ ~(r + 1 >= MaxRetry)
      BY <1>0, <1>2 DEF HasReachedMaxAttempts, TypeOK, DatabaseType
    <3> QED BY <1>8, <2>1, <3>1
  <2>4. status'[b] = "none" => status[b] = "none"
    BY <1>6
  <2> HIDE DEF e, r, r2
  <2>5. /\ e <= r2 + crashes + 1
        /\ e <= MaxRetry + crashes
        /\ Waiting(b)' => e <= r2 + crashes /\ e < MaxRetry + crashes
        /\ status'[b] = "none" => e = 0
    BY <2>1, <2>2, <2>3, <2>4
  <2> QED BY <2>1, <2>5 DEF WithinBudget, e, r2
<1>10. SentOnce'
  <2>1. crashes' = 0 /\ faults' = 0 => crashes = 0 /\ faults = 0
    BY <1>0, <1>1 DEF TypeOK, HistoryType, Fault
  <2> QED BY <1>0, <1>1, <1>8, <2>1 DEF SentOnce
<1> QED BY <1>4, <1>5, <1>8, <1>9, <1>10 DEF CustodyInv

LEMMA ExecutorKeepsCustody ==
    ASSUME CustodyInv, TypeOK', ExecutorNext
    PROVE  CustodyInv'
BY TakeSlotKeepsCustody, ExecutionKeepsCustody, RecordingKeepsCustody, FailureKeepsCustody,
   ReAddKeepsCustody DEF ExecutorNext

-----------------------------------------------------------------------------
(* Crash and boot *)

(* Everything in memory is gone. *)
LEMMA MemoryLostQuiet ==
    ASSUME MemoryLost
    PROVE  /\ QueueInv' /\ ExecutorShape' /\ PhaseShape'
           /\ Queued' = {} /\ bootQueue' = {} /\ phase' = "down"
           /\ \A c \in Callers : \A b : ~CallerHolds(c, b)'
           /\ \A b : ~ExecutorHolds(b)' /\ ~Work(b)' /\ ~Failing(b)'
<1>1. slots' = <<>> /\ phase' = "down" /\ bootQueue' = {}
  BY DEF MemoryLost
<1>2. QueueInv' /\ Queued' = {}
  <2>1. slots' \in Seq(Slot) /\ DOMAIN slots' = {}
    BY <1>1
  <2> QED BY <2>1 DEF QueueInv, MempoolTypeOK, SlotsPartitionBundles, NoEmptySlot, Queued
<1>3. \A c \in Callers : call'[c].pc = "idle"
  BY DEF MemoryLost, IdleCall
<1>4. ex'.pc = "idle" /\ ex'.hand = {} /\ ex'.retrying = {}
  BY IdleExFields DEF MemoryLost
<1>5. ExecutorShape' /\ PhaseShape'
  <2>1. "boot" \in Callers
    BY DEF Callers
  <2> QED BY <1>1, <1>2, <1>3, <1>4, <2>1 DEF ExecutorShape, PhaseShape
<1> QED BY <1>1, <1>2, <1>3, <1>4, <1>5 DEF CallerHolds, ExecutorHolds, Work, Failing

LEMMA CrashKeepsCustody ==
    ASSUME CustodyInv, TypeOK', Crash
    PROVE  CustodyInv'
<1>0. TypeOK /\ \A b \in Bundles : OneHolder(b) /\ WithinBudget(b)
  BY DEF CustodyInv
<1>1. UNCHANGED <<status, retryCount, executions>> /\ crashes' = crashes + 1 /\ MemoryLost
  BY DEF Crash, db
<1>2. /\ QueueInv' /\ ExecutorShape' /\ PhaseShape'
      /\ Queued' = {} /\ bootQueue' = {}
      /\ \A c \in Callers : \A b : ~CallerHolds(c, b)'
      /\ \A b : ~ExecutorHolds(b)'
  BY <1>1, MemoryLostQuiet
<1>3. ASSUME NEW b \in Bundles PROVE OneHolder(b)' /\ WithinBudget(b)'
  <2> DEFINE e == executions[b]  r == retryCount[b]
  <2>1. OneHolder(b)'
    BY <1>2 DEF OneHolder
  <2>2. /\ e \in Nat /\ r \in Nat /\ crashes \in Nat /\ MaxRetry \in Nat
        /\ executions'[b] = e /\ retryCount'[b] = r /\ status'[b] = status[b]
    BY <1>0, <1>1, MaxRetryAssumption DEF TypeOK, DatabaseType, HistoryType
  <2>3. /\ e <= r + crashes + 1
        /\ e <= MaxRetry + crashes
        /\ status[b] = "none" => e = 0
    BY <1>0 DEF WithinBudget
  <2> HIDE DEF e, r
  <2>4. /\ e <= r + crashes' + 1
        /\ e <= MaxRetry + crashes'
        /\ e <= r + crashes' /\ e < MaxRetry + crashes'
        /\ status[b] = "none" => e = 0
    BY <1>1, <2>2, <2>3
  <2>5. WithinBudget(b)'
    BY <2>2, <2>4 DEF WithinBudget
  <2> QED BY <2>1, <2>5
<1>4. SentOnce'
  <2>1. crashes' # 0
    BY <1>0, <1>1 DEF TypeOK, HistoryType
  <2> QED BY <2>1 DEF SentOnce
<1> QED BY <1>2, <1>3, <1>4 DEF CustodyInv

LEMMA BootKeepsCustody ==
    ASSUME CustodyInv, TypeOK', BootNext
    PROVE  CustodyInv'
<1>0. TypeOK /\ QueueInv /\ ExecutorShape /\ PhaseShape /\ CallType
      /\ \A b \in Bundles : OneHolder(b)
  BY DEF CustodyInv, TypeOK
<1>1. CASE LoadBundles
  <2>1. /\ UNCHANGED <<retryCount, slots, call, ex, content, executions, crashes, faults>>
        /\ phase = "down" /\ phase' = "booting"
        /\ \A b \in Bundles : status'[b] = "none" => status[b] = "none"
        /\ \A b \in bootQueue' : status'[b] # "none"
    BY <1>1 DEF LoadBundles, world
  <2>2. QueueInv' /\ Queued' = Queued
    BY <1>0, <2>1, QueueUnchanged
  <2>3. /\ Queued = {} /\ ex.pc = "idle" /\ ex.hand = {}
        /\ \A c \in Callers : call[c].pc = "idle"
    BY <1>0, <2>1 DEF PhaseShape, ExecutorShape
  <2>4. ExecutorShape' /\ PhaseShape'
    <3>1. "boot" \in Callers
      BY DEF Callers
    <3> QED BY <1>0, <2>1, <2>3, <3>1, ExecutorAlone DEF PhaseShape
  <2>5. Calm
    BY <1>0, <2>1, Counting, RetriesAlone DEF Calm
  <2>6. ASSUME NEW b \in Bundles PROVE OneHolder(b)' /\ Waiting(b) /\ (Unsent(b)' => Unsent(b))
    <3>1. \A c \in Callers : ~CallerHolds(c, b)'
      BY <2>1, <2>3 DEF CallerHolds
    <3>2. ~ExecutorHolds(b)'
      BY <2>1, <2>3 DEF ExecutorHolds
    <3>3. OneHolder(b)'
      BY <2>1, <2>2, <2>3, <3>1, <3>2 DEF OneHolder
    <3> QED BY <2>1, <3>3 DEF Waiting, Unsent
  <2> QED BY <2>2, <2>4, <2>5, <2>6, CalmStep
<1>2. ASSUME NEW b0 \in Bundles, BootBundle(b0) PROVE CustodyInv'
  <2>1. /\ UNCHANGED <<status, retryCount, slots, phase, ex, content, executions, crashes, faults>>
        /\ phase = "booting" /\ b0 \in bootQueue /\ bootQueue' = bootQueue \ {b0}
        /\ call' = [call EXCEPT !["boot"] = [pc |-> "place", bundle |-> b0]]
    BY <1>2 DEF BootBundle, world, db
  <2>2. QueueInv' /\ Queued' = Queued
    BY <1>0, <2>1, QueueUnchanged
  <2>3. ExecutorShape' /\ PhaseShape'
    BY <1>0, <2>1, ExecutorAlone DEF PhaseShape
  <2>4. Calm
    BY <1>0, <2>1, Counting, RetriesAlone DEF Calm
  <2>5. /\ \A d \in Callers : d # "boot" => call'[d] = call[d]
        /\ call'["boot"].bundle = b0
    BY <1>0, <2>1 DEF CallType, Callers
  <2>6. ASSUME NEW b \in Bundles PROVE OneHolder(b)' /\ Waiting(b) /\ (Unsent(b)' => Unsent(b))
    <3>1. \A c \in Callers : CallerHolds(c, b)' => CallerHolds(c, b) \/ (c = "boot" /\ b = b0)
      BY <2>5 DEF CallerHolds
    <3>2. ExecutorHolds(b)' = ExecutorHolds(b)
      BY <2>1, ExecutorAlone
    <3>3. OneHolder(b)'
      BY <1>0, <2>1, <2>2, <3>1, <3>2 DEF OneHolder
    <3> QED BY <2>1, <3>3 DEF Waiting, Unsent
  <2> QED BY <2>2, <2>3, <2>4, <2>6, CalmStep
<1>3. CASE BootAborts
  <2>1. /\ UNCHANGED <<status, retryCount, content, executions, crashes, faults>>
        /\ phase = "booting" /\ MemoryLost
    BY <1>0, <1>3 DEF BootAborts, PhaseShape, world, db
  <2>2. /\ QueueInv' /\ ExecutorShape' /\ PhaseShape'
        /\ Queued' = {} /\ bootQueue' = {} /\ phase' = "down"
        /\ \A c \in Callers : \A b : ~CallerHolds(c, b)'
        /\ \A b : ~ExecutorHolds(b)' /\ ~Work(b)' /\ ~Failing(b)'
    BY <2>1, MemoryLostQuiet
  <2>3. Calm
    BY <1>0, <2>1, Counting, RetriesAlone DEF Calm
  <2>4. \A b \in Bundles : HolderQuiet(b) /\ WorkQuiet(b)
    BY <2>2 DEF HolderQuiet, WorkQuiet
  <2> QED BY <2>2, <2>3, <2>4, QuietStep
<1>4. CASE BootDone
  <2>1. /\ UNCHANGED <<status, retryCount, slots, bootQueue, call, ex, content, executions, crashes, faults>>
        /\ phase' = "up" /\ call["boot"].pc = "idle"
    BY <1>4 DEF BootDone, world, db
  <2>2. QueueInv' /\ Queued' = Queued
    BY <1>0, <2>1, QueueUnchanged
  <2>3. ExecutorShape' /\ PhaseShape'
    BY <1>0, <2>1, ExecutorAlone DEF PhaseShape
  <2>4. Calm
    BY <1>0, <2>1, Counting, RetriesAlone DEF Calm
  <2>5. \A b \in Bundles : HolderQuiet(b) /\ WorkQuiet(b)
    BY <2>1, <2>2, CallsAlone, ExecutorAlone DEF HolderQuiet
  <2> QED BY <2>2, <2>3, <2>4, <2>5, QuietStep
<1> QED BY <1>1, <1>2, <1>3, <1>4 DEF BootNext

LEMMA CustodyInitial == Init => CustodyInv
<1> SUFFICES ASSUME Init PROVE CustodyInv
  OBVIOUS
<1>1. TypeOK
  BY InitType
<1>2. QueueInv /\ Queued = {}
  BY QueueInitial DEF Init
<1>3. /\ \A c \in Callers : call[c].pc = "idle"
      /\ ex.pc = "idle" /\ ex.hand = {} /\ ex.retrying = {}
  <2>1. \A c \in Callers : call[c].pc = "idle"
    BY DEF Init, IdleCall
  <2> QED BY <2>1, IdleExFields DEF Init
<1>4. ExecutorShape /\ PhaseShape
  <2>1. "boot" \in Callers
    BY DEF Callers
  <2> QED BY <1>2, <1>3, <2>1 DEF Init, ExecutorShape, PhaseShape
<1>5. ASSUME NEW b \in Bundles PROVE OneHolder(b) /\ WithinBudget(b)
  <2>1. OneHolder(b)
    BY <1>2, <1>3 DEF OneHolder, CallerHolds, ExecutorHolds, Init
  <2>2. executions[b] = 0 /\ retryCount[b] = 0 /\ crashes = 0
    BY DEF Init
  <2>3. WithinBudget(b)
    BY <2>2, MaxRetryAssumption DEF WithinBudget
  <2> QED BY <2>1, <2>3
<1>6. SentOnce
  BY DEF SentOnce, Init
<1> QED BY <1>1, <1>2, <1>4, <1>5, <1>6 DEF CustodyInv

LEMMA CustodyStep == CustodyInv /\ [Next]_vars => CustodyInv'
<1> SUFFICES ASSUME CustodyInv, [Next]_vars PROVE CustodyInv'
  OBVIOUS
<1>0. TypeOK /\ TypeOK'
  BY NextKeepsType DEF CustodyInv
<1>1. CASE UNCHANGED vars
  <2>1. UNCHANGED <<slots, phase, bootQueue, call, ex, content, executions, crashes, faults,
                    status, retryCount>>
    BY <1>1 DEF vars, process, db, world
  <2>2. Calm
    BY <1>0, <2>1, Counting, RetriesAlone DEF Calm
  <2> QED BY <1>0, <2>1, <2>2, ElsewhereQuiet
<1> QED BY <1>0, <1>1, AdmissionKeepsCustody, AddBundleKeepsCustody, ExecutorKeepsCustody,
           SweepKeepsCustody, VerifierKeepsCustody, BootKeepsCustody, CrashKeepsCustody,
           WorldKeepsCustody DEF Next

LEMMA CustodyHolds == Spec => []CustodyInv
BY CustodyInitial, CustodyStep, PTL DEF Spec

LEMMA AtMostOne ==
    ASSUME NEW S, \A x, y \in S : x = y
    PROVE  Cardinality(S) <= 1
<1>1. CASE S = {}
  BY <1>1, FS_EmptySet
<1>2. CASE S # {}
  <2>1. PICK x \in S : S = {x}
    BY <1>2
  <2>2. Cardinality({x}) = 1
    BY FS_Singleton
  <2> QED BY <2>1, <2>2
<1> QED BY <1>1, <1>2

(* A bundle on its way to execution is never held twice in the process - by a
   request or the boot about to add it, a slot, the executor - through
   concurrent submissions, displacements, retries, sweeps, crashes and boots:
   addBundle does not look for duplicates, and needs not. *)
THEOREM BundlesHeldOnce == Spec => []SingleCustody
<1>1. CustodyInv => SingleCustody
  <2> SUFFICES ASSUME CustodyInv, NEW b \in Bundles PROVE Cardinality(Holders(b)) <= 1
    BY DEF SingleCustody
  <2>0. OneHolder(b) /\ ExecutorShape /\ SlotsPartitionBundles
    BY DEF CustodyInv, QueueInv
  <2>1. ASSUME NEW x \in Holders(b), NEW y \in Holders(b) PROVE x = y
    <3> DEFINE A == {d \in Callers : call[d].bundle = b /\ call[d].pc \in {"persist", "place"}}
               B == {j \in DOMAIN slots : b \in slots[j].bundles}
               C == {z \in {"hand", "retrying"} : b \in ex[z] /\ (z = "hand" \/ ex.pc = "readd")}
               D == {z \in {"queue"} : b \in bootQueue}
    <3>1. /\ \A c, d \in A : c = d
          /\ A # {} => B = {} /\ C = {} /\ D = {}
          /\ B # {} => C = {} /\ D = {}
          /\ C # {} => D = {}
          /\ \A i, j \in B : i = j
          /\ \A u, v \in C : u = v
          /\ \A u, v \in D : u = v
      <4>1. \A c \in A : c \in Callers /\ CallerHolds(c, b)
        BY DEF CallerHolds
      <4>2. B # {} => b \in Queued
        BY DEF Queued
      <4>3. C # {} => ExecutorHolds(b)
        BY DEF ExecutorHolds
      <4>4. D # {} => b \in bootQueue
        OBVIOUS
      <4>5. \A i, j \in B : i = j
        BY <2>0 DEF SlotsPartitionBundles
      <4>6. \A u, v \in C : u = v
        <5>1. ex.pc = "readd" => b \notin ex.hand
          BY <2>0 DEF ExecutorShape
        <5>2. C \subseteq {"hand", "retrying"} /\ ("retrying" \in C => ex.pc = "readd" /\ "hand" \notin C)
          BY <5>1
        <5> QED BY <5>2
      <4> HIDE DEF A, B, C, D
      <4> QED BY <2>0, <4>1, <4>2, <4>3, <4>4, <4>5, <4>6 DEF OneHolder, D
    <3>2. Holders(b) = {<<"caller", c>> : c \in A} \cup {<<"slot", i>> : i \in B}
                       \cup {<<"executor", z>> : z \in C} \cup {<<"boot", z>> : z \in D}
      BY DEF Holders
    <3> HIDE DEF A, B, C, D
    <3> QED BY <2>1, <3>1, <3>2
  <2> QED BY <2>1, AtMostOne
<1> QED BY <1>1, CustodyHolds, PTL

(* MEMPOOL_MAX_RETRY_ATTEMPTS bounds the executions of a bundle for every
   interleaving of failures, lost answers and verifications, with one more for
   every crash that loses an execution before it is counted. *)
THEOREM RetriesAreBounded == Spec => []ExecutionsBounded
<1>1. CustodyInv => ExecutionsBounded
  BY DEF CustodyInv, WithinBudget, ExecutionsBounded
<1> QED BY <1>1, CustodyHolds, PTL

(* As long as no call fails and the process does not crash, no bundle is in
   two transactions: whatever the executor may still send was never sent. *)
THEOREM NothingIsSentTwice == Spec => []SubmittedOnce
<1>1. CustodyInv => SubmittedOnce
  BY DEF CustodyInv, SentOnce, SubmittedOnce
<1> QED BY <1>1, CustodyHolds, PTL
=============================================================================
