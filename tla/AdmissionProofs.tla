--------------------------- MODULE AdmissionProofs ---------------------------
(***************************************************************************)
(* Proofs about Admission, for any bundles, operations, UTXOs, requests    *)
(* and restarts, and any limits and timeouts.                              *)
(***************************************************************************)
EXTENDS Admission, FiniteSums

-----------------------------------------------------------------------------
(* What the operations of a bundle are.                                    *)
LEMMA Classified ==
  ASSUME NEW b \in Bundles
  PROVE  /\ \A t \in {"create", "spend", "deposit", "withdraw"} :
              classifyOperations(b)[t] \subseteq Nat /\ IsFiniteSet(classifyOperations(b)[t])
         /\ \A i \in classifyOperations(b)["create"] :
              operations[b][i].utxo \in Utxos /\ operations[b][i].amount \in Nat
         /\ \A i \in classifyOperations(b)["spend"] :
              operations[b][i].utxo \in Utxos /\ operations[b][i].exp \in Nat
         /\ \A t \in {"deposit", "withdraw"} :
              \A i \in classifyOperations(b)[t] : operations[b][i].amount \in Nat
<1>1. operations[b] \in Seq(Operation)
  BY AdmissionAssumption
<1>2. DOMAIN operations[b] = 1..Len(operations[b]) /\ Len(operations[b]) \in Nat
  BY <1>1
<1>3. IsFiniteSet(DOMAIN operations[b])
  BY <1>2, FS_Interval
<1>4. \A i \in DOMAIN operations[b] : operations[b][i] \in Operation
  BY <1>1, <1>2
<1>5. ASSUME NEW i \in DOMAIN operations[b]
      PROVE  /\ operations[b][i].type = "create" =>
                  operations[b][i].utxo \in Utxos /\ operations[b][i].amount \in Nat
             /\ operations[b][i].type = "spend" =>
                  operations[b][i].utxo \in Utxos /\ operations[b][i].exp \in Nat
             /\ operations[b][i].type \in {"deposit", "withdraw"} =>
                  operations[b][i].amount \in Nat
  BY <1>4 DEF Operation
<1>6. \A t \in {"create", "spend", "deposit", "withdraw"} :
        classifyOperations(b)[t] = {i \in DOMAIN operations[b] : operations[b][i].type = t}
  BY DEF classifyOperations
<1>7. ASSUME NEW t \in {"create", "spend", "deposit", "withdraw"}
      PROVE  classifyOperations(b)[t] \subseteq Nat /\ IsFiniteSet(classifyOperations(b)[t])
  <2>1. classifyOperations(b)[t] \subseteq DOMAIN operations[b]
    BY <1>6
  <2> QED BY <1>2, <1>3, <2>1, FS_Subset
<1> QED BY <1>5, <1>6, <1>7

(* Amounts add up to naturals.                                             *)
LEMMA TotalNat ==
  ASSUME NEW b \in Bundles
  PROVE  Total(b, "create") \in Nat /\ Total(b, "deposit") \in Nat /\ Total(b, "withdraw") \in Nat
<1>1. ASSUME NEW t \in {"create", "deposit", "withdraw"}
      PROVE  Total(b, t) \in Nat
  <2>1. \A i \in classifyOperations(b)[t] : Amounts(b, t)[i] \in Nat
    BY Classified DEF Amounts
  <2>2. IsFiniteSet(classifyOperations(b)[t])
    BY Classified
  <2> QED BY <2>1, <2>2, SumNat DEF Total
<1> QED BY <1>1

(* And so do balances.                                                     *)
LEMMA SpendableNat ==
  ASSUME NEW b \in Bundles, balances \in [Utxos -> Nat]
  PROVE  Spendable(b) \in Nat
<1>1. \A i \in classifyOperations(b)["spend"] : SpendBalances(b)[i] \in Nat
  BY Classified DEF SpendBalances
<1>2. IsFiniteSet(classifyOperations(b)["spend"])
  BY Classified
<1> QED BY <1>1, <1>2, SumNat DEF Spendable

LEMMA FeeInt ==
  ASSUME NEW b \in Bundles, balances \in [Utxos -> Nat]
  PROVE  /\ calculateFee(b) \in Int
         /\ calculateFee(b) <= Spendable(b) + Deposited(b) - Outflows(b)
         /\ Deposited(b) \in Nat /\ Outflows(b) \in Nat
<1>1. Spendable(b) \in Nat /\ Deposited(b) \in Nat /\ Outflows(b) \in Nat
  BY TotalNat, SpendableNat DEF Deposited, Outflows
<1> QED BY <1>1 DEF calculateFee

(* The least of a set of places is one of them.                            *)
LEMMA MinIsMember ==
  ASSUME NEW T \in SUBSET Nat, T # {}
  PROVE  Min(T) \in T
BY LeastNatural DEF Min

(* The TTL is counted from the earliest signature at the latest.           *)
LEMMA TtlBound ==
  ASSUME NEW b \in Bundles, NEW ledger \in Nat, now \in Nat
  PROVE  /\ calculateBundleTtl(b, ledger) \in Int
         /\ \A e \in Expirations(b) : calculateBundleTtl(b, ledger) <= now + e - ledger
<1> DEFINE E == Expirations(b)
           D == {DefaultTtl} \cup {e - ledger : e \in E}
<1>1. E \in SUBSET Nat
  BY Classified DEF Expirations
<1>2. DefaultTtl \in Nat
  BY AdmissionAssumption
<1>3. calculateBundleTtl(b, ledger) = now + Min(D)
  BY DEF calculateBundleTtl
<1> HIDE DEF E
<1>4. \E x \in D : \A y \in D : x <= y
  <2>1. CASE E = {}
    BY <2>1, <1>2
  <2>2. CASE E # {}
    <3>1. PICK m \in E : \A y \in E : m <= y
      BY <1>1, <2>2, LeastNatural
    <3>2. m \in Nat /\ \A y \in E : y \in Nat
      BY <1>1, <3>1
    <3>3. \A y \in E : m - ledger <= y - ledger
      BY <3>1, <3>2
    <3>4. m - ledger \in D /\ DefaultTtl \in D
      BY <3>1
    <3>5. CASE DefaultTtl <= m - ledger
      <4>1. \A y \in D : DefaultTtl <= y
        BY <1>2, <3>2, <3>3, <3>5
      <4> QED BY <3>4, <4>1
    <3>6. CASE ~(DefaultTtl <= m - ledger)
      <4>1. \A y \in D : m - ledger <= y
        BY <1>2, <3>2, <3>3, <3>6
      <4> QED BY <3>4, <4>1
    <3> QED BY <3>5, <3>6
  <2> QED BY <2>1, <2>2
<1>5. Min(D) \in D /\ \A y \in D : Min(D) <= y
  <2> HIDE DEF D
  <2> QED BY <1>4 DEF Min
<1>6. \A y \in D : y \in Int
  BY <1>1, <1>2
<1>7. \A e \in E : e \in Nat /\ Min(D) <= e - ledger
  BY <1>1, <1>5
<1>8. Min(D) \in Int
  BY <1>5, <1>6
<1> HIDE DEF D
<1> QED BY <1>3, <1>7, <1>8 DEF E

-----------------------------------------------------------------------------
(* The inductive invariant.                                                *)

(* Fee fee is covered by what bundle b brings, or an input of it is gone   *)
(* for good: the channel contract creates no UTXO twice.                   *)
Covered(b, fee) ==
  \/ \E u \in UtxosOf(b, "spend") : u \in created /\ balances[u] = 0
  \/ fee <= Spendable(b) + Deposited(b) - Outflows(b)

(* The rows: what a bundle is stored and queued with.                      *)
RowsSound ==
  /\ \A b \in Bundles : rows[b] # NoRow =>
       /\ rows[b].fee >= 1 /\ Covered(b, rows[b].fee)
       /\ \A e \in Expirations(b) : rows[b].ttl <= e + RpcTimeout
  /\ \A b \in queued : rows[b] # NoRow

(* The UTXO records name bundles that have a row.                          *)
UtxosSound ==
  \A u \in Utxos :
    /\ utxos[u].spentAt # NoBundle => utxos[u].known
    /\ \A b \in Bundles : utxos[u].createdAt = b => u \in UtxosOf(b, "create") /\ rows[b] # NoRow
    /\ \A b \in Bundles : utxos[u].spentAt = b => u \in UtxosOf(b, "spend") /\ rows[b] # NoRow

(* Request r: the fee it has taken is sound; from the row on it works for  *)
(* a bundle that has one, and the UTXOs it is done with are recorded.      *)
Persisting == {"create", "insert", "balances", "spend", "update", "queue"}

RequestSound(r) ==
  LET b == req[r].bundle IN
  /\ req[r].pc \in {"ledger", "row"} => req[r].fee >= 1 /\ Covered(b, req[r].fee)
  /\ IF req[r].pc \in Persisting
     THEN rows[b] # NoRow /\ (~req[r].reuse => req[r].id = b)
     ELSE req[r].id = NoBundle
  /\ req[r].pc \in {"create", "insert"} =>
       \A i \in Creates(r) \ req[r].todo : utxos[operations[b][i].utxo].known
  /\ req[r].pc \in {"balances", "spend", "update", "queue"} =>
       \A i \in Creates(r) : utxos[operations[b][i].utxo].known
  /\ req[r].pc = "update" => utxos[Current(r).utxo].known
  /\ req[r].pc \in {"spend", "update"} /\ ~req[r].reuse =>
       \A i \in Spends(r) \ req[r].todo : utxos[operations[b][i].utxo].spentAt # NoBundle
  /\ req[r].pc = "queue" /\ ~req[r].reuse =>
       \A i \in Spends(r) : utxos[operations[b][i].utxo].spentAt # NoBundle

ChainSound == \A u \in Utxos : balances[u] > 0 => u \in created

AdmissionInv ==
  /\ AdmissionTypeOK
  /\ RowsSound
  /\ UtxosSound
  /\ \A r \in Requests : RequestSound(r)
  /\ ChainSound

(* The type invariant in parts.                                            *)
StoreTypes ==
  /\ rows \in [Bundles -> [status : {"none", "PENDING", "COMPLETED", "FAILED", "EXPIRED"},
                           fee : Nat, ttl : Int]]
  /\ utxos \in [Utxos -> [amount : Int, createdAt : Bundles \cup {NoBundle},
                          spentAt : Bundles \cup {NoBundle}, known : BOOLEAN]]
  /\ queued \subseteq Bundles

WorldTypes ==
  /\ disabled \in BOOLEAN
  /\ balances \in [Utxos -> Nat] /\ created \subseteq Utxos
  /\ now \in 1..MaxLedger /\ restarts \in 0..MaxRestarts

RequestShape(r) ==
  /\ req[r].pc # "idle" => req[r].bundle \in Bundles
  /\ req[r].id \in {NoBundle, req[r].bundle}
  /\ req[r].pc \in {"create", "insert"} => req[r].todo \subseteq Creates(r)
  /\ req[r].pc \in {"spend", "update"} => req[r].todo \subseteq Spends(r)
  /\ req[r].pc \in {"insert", "update"} => req[r].todo # {}

RequestsSound == \A r \in Requests : RequestShape(r) /\ RequestSound(r)

LEMMA InvParts ==
  /\ AdmissionInv = (StoreTypes /\ WorldTypes /\ req \in [Requests -> Request]
                     /\ RowsSound /\ UtxosSound /\ RequestsSound /\ ChainSound)
  /\ AdmissionInv' = (StoreTypes' /\ WorldTypes' /\ req' \in [Requests -> Request]
                     /\ RowsSound' /\ UtxosSound' /\ RequestsSound' /\ ChainSound')
<1>1. AdmissionTypeOK <=> /\ StoreTypes /\ WorldTypes /\ req \in [Requests -> Request]
                          /\ \A r \in Requests : RequestShape(r)
  BY DEF AdmissionTypeOK, StoreTypes, WorldTypes, RequestShape
<1>2. AdmissionTypeOK' <=> /\ StoreTypes' /\ WorldTypes' /\ req' \in [Requests -> Request]
                           /\ \A r \in Requests : RequestShape(r)'
  BY DEF AdmissionTypeOK, StoreTypes, WorldTypes, RequestShape
<1> QED BY <1>1, <1>2 DEF AdmissionInv, RequestsSound

LEMMA Clock ==
  ASSUME AdmissionInv
  PROVE  now \in Nat /\ RpcTimeout \in Nat
<1>1. MaxLedger \in Nat /\ RpcTimeout \in Nat
  BY AdmissionAssumption
<1>2. now \in 1..MaxLedger
  BY InvParts DEF WorldTypes
<1> QED BY <1>1, <1>2

-----------------------------------------------------------------------------
(* What no step takes back: records, rows and the cover of a fee.          *)
Grows ==
  /\ \A u \in Utxos : utxos[u].known => utxos'[u].known
  /\ \A u \in Utxos : utxos[u].spentAt # NoBundle => utxos'[u].spentAt # NoBundle
  /\ \A b \in Bundles : rows[b] # NoRow => rows'[b] # NoRow
  /\ \A b \in Bundles, fee \in Nat : Covered(b, fee) => Covered(b, fee)'

(* The cover depends on the chain alone.                                   *)
LEMMA CoverKept ==
  ASSUME UNCHANGED chain
  PROVE  \A b \in Bundles, fee \in Nat : Covered(b, fee) <=> Covered(b, fee)'
<1>1. UNCHANGED <<balances, created>>
  BY DEF chain
<1>2. \A b \in Bundles : Spendable(b)' = Spendable(b)
  BY <1>1 DEF Spendable, SpendBalances
<1> QED BY <1>1, <1>2 DEF Covered, Deposited, Outflows, Total, Amounts

(* A request that does not move stays sound.                               *)
LEMMA RequestKept ==
  ASSUME AdmissionInv, Grows, NEW r \in Requests, req'[r] = req[r]
  PROVE  RequestShape(r)' /\ RequestSound(r)'
<1>1. RequestShape(r) /\ RequestSound(r) /\ req[r] \in Request
  BY InvParts DEF RequestsSound
<1>2. RequestShape(r)'
  BY <1>1 DEF RequestShape, Creates, Spends
<1>3. req[r].pc \in {"ledger", "row"} \cup Persisting => req[r].bundle \in Bundles
  BY <1>1 DEF RequestShape, Persisting
<1>4. req[r].fee \in Nat /\ req[r].todo \subseteq Nat
  BY <1>1 DEF Request
<1> DEFINE b == req[r].bundle
<1>5. ASSUME b \in Bundles
      PROVE  /\ \A i \in Creates(r) : operations[b][i].utxo \in Utxos
             /\ \A i \in Spends(r) : operations[b][i].utxo \in Utxos
  BY <1>5, Classified DEF Creates, Spends
<1>6. req[r].pc = "update" => Current(r).utxo \in Utxos
  <2>1. ASSUME req[r].pc = "update" PROVE Place(r) \in Spends(r)
    BY <1>1, <1>4, <2>1, MinIsMember DEF RequestShape, Place
  <2> QED BY <1>3, <1>5, <2>1 DEF Current, Persisting
<1>7. Creates(r)' = Creates(r) /\ Spends(r)' = Spends(r) /\ Current(r)' = Current(r)
  BY DEF Creates, Spends, Current, Place
<1>8. req[r].pc \in {"ledger", "row"} => req[r].fee >= 1 /\ Covered(b, req[r].fee)'
  BY <1>1, <1>3, <1>4 DEF RequestSound, Grows
<1>9. IF req[r].pc \in Persisting
      THEN rows'[b] # NoRow /\ (~req[r].reuse => req[r].id = b)
      ELSE req[r].id = NoBundle
  BY <1>1, <1>3 DEF RequestSound, Grows
<1>10. req[r].pc \in {"create", "insert"} =>
         \A i \in Creates(r) \ req[r].todo : utxos'[operations[b][i].utxo].known
  BY <1>1, <1>3, <1>5 DEF RequestSound, Grows, Persisting
<1>11. req[r].pc \in {"balances", "spend", "update", "queue"} =>
         \A i \in Creates(r) : utxos'[operations[b][i].utxo].known
  BY <1>1, <1>3, <1>5 DEF RequestSound, Grows, Persisting
<1>12. req[r].pc = "update" => utxos'[Current(r).utxo].known
  BY <1>1, <1>6 DEF RequestSound, Grows
<1>13. req[r].pc \in {"spend", "update"} /\ ~req[r].reuse =>
         \A i \in Spends(r) \ req[r].todo : utxos'[operations[b][i].utxo].spentAt # NoBundle
  BY <1>1, <1>3, <1>5 DEF RequestSound, Grows, Persisting
<1>14. req[r].pc = "queue" /\ ~req[r].reuse =>
         \A i \in Spends(r) : utxos'[operations[b][i].utxo].spentAt # NoBundle
  BY <1>1, <1>3, <1>5 DEF RequestSound, Grows, Persisting
<1>15. RequestSound(r)'
  BY <1>7, <1>8, <1>9, <1>10, <1>11, <1>12, <1>13, <1>14 DEF RequestSound, Covered
<1> QED BY <1>2, <1>15

LEMMA IdleSound ==
  ASSUME NEW r \in Requests, req'[r] = Idle
  PROVE  req'[r] \in Request /\ RequestShape(r)' /\ RequestSound(r)'
BY DEF Idle, Request, RequestShape, RequestSound, Persisting

(* So one request moves at a time.                                         *)
LEMMA OneRequest ==
  ASSUME AdmissionInv, Grows, NEW r \in Requests,
         req' \in [Requests -> Request], \A q \in Requests \ {r} : req'[q] = req[q],
         RequestShape(r)', RequestSound(r)'
  PROVE  RequestsSound'
<1>1. ASSUME NEW q \in Requests PROVE RequestShape(q)' /\ RequestSound(q)'
  <2>1. CASE q = r
    BY <2>1
  <2>2. CASE q # r
    BY <2>2, RequestKept
  <2> QED BY <2>1, <2>2
<1> QED BY <1>1 DEF RequestsSound

(* A step of a request that writes nothing.                                *)
LEMMA RequestOnly ==
  ASSUME AdmissionInv, NEW r \in Requests,
         UNCHANGED <<rows, utxos, queued, disabled, chain, now, restarts>>,
         req' \in [Requests -> Request], \A q \in Requests \ {r} : req'[q] = req[q],
         Grows => (RequestShape(r)' /\ RequestSound(r)')
  PROVE  AdmissionInv'
<1>1. UNCHANGED rows /\ UNCHANGED utxos /\ UNCHANGED queued /\ UNCHANGED disabled
      /\ UNCHANGED chain /\ UNCHANGED balances /\ UNCHANGED created /\ UNCHANGED now
      /\ UNCHANGED restarts
  BY DEF chain
<1>2. \A b \in Bundles, fee \in Nat : Covered(b, fee) <=> Covered(b, fee)'
  BY <1>1, CoverKept
<1>3. Grows
  BY <1>1, <1>2 DEF Grows
<1>4. RequestsSound'
  BY <1>3, OneRequest
<1>5. StoreTypes' /\ WorldTypes' /\ UtxosSound' /\ ChainSound'
  <2>1. StoreTypes /\ WorldTypes /\ UtxosSound /\ ChainSound
    BY InvParts
  <2>2. StoreTypes' /\ WorldTypes'
    BY <1>1, <2>1 DEF StoreTypes, WorldTypes
  <2>3. UtxosSound'
    BY <1>1, <2>1 DEF UtxosSound, UtxosOf
  <2>4. ChainSound'
    BY <1>1, <2>1 DEF ChainSound
  <2> QED BY <2>2, <2>3, <2>4
<1>6. RowsSound'
  <2>1. RowsSound /\ StoreTypes
    BY InvParts
  <2>2. \A b \in Bundles : rows[b].fee \in Nat
    BY <2>1 DEF StoreTypes
  <2>3. ASSUME NEW b \in Bundles, rows'[b] # NoRow
        PROVE  /\ rows'[b].fee >= 1 /\ Covered(b, rows[b].fee)'
               /\ \A e \in Expirations(b) : rows'[b].ttl <= e + RpcTimeout
    BY <1>1, <1>2, <2>1, <2>2, <2>3 DEF RowsSound
  <2> QED BY <1>1, <2>1, <2>3 DEF RowsSound, Covered
<1> QED BY <1>4, <1>5, <1>6, InvParts

LEMMA AnswerKeeps ==
  ASSUME AdmissionInv, NEW r \in Requests, Answer(r),
         UNCHANGED <<rows, utxos, queued, disabled, chain, now, restarts>>
  PROVE  AdmissionInv'
<1>1. req \in [Requests -> Request]
  BY InvParts
<1>2. req'[r] = Idle /\ \A q \in Requests \ {r} : req'[q] = req[q]
  BY <1>1 DEF Answer
<1>3. req'[r] \in Request /\ RequestShape(r)' /\ RequestSound(r)'
  BY <1>2, IdleSound
<1>4. req' \in [Requests -> Request]
  BY <1>1, <1>2, <1>3 DEF Answer
<1> QED BY <1>2, <1>3, <1>4, RequestOnly

-----------------------------------------------------------------------------
(* The steps of a request, first those that write nothing.                 *)

(* What is known of a request at its operation.                            *)
LEMMA AtOperation ==
  ASSUME AdmissionInv, NEW r \in Requests, req[r].todo # {},
         req[r].pc \in {"create", "insert", "spend", "update"}
  PROVE  /\ req[r].bundle \in Bundles
         /\ Place(r) \in req[r].todo
         /\ req[r].pc \in {"create", "insert"} => Place(r) \in Creates(r) /\ Current(r).amount \in Nat
         /\ req[r].pc \in {"spend", "update"} => Place(r) \in Spends(r)
         /\ Current(r).utxo \in Utxos
<1>1. RequestShape(r) /\ req[r] \in Request
  BY InvParts DEF RequestsSound
<1>2. Place(r) \in req[r].todo
  BY <1>1, MinIsMember DEF Request, Place
<1>3. req[r].bundle \in Bundles
  BY <1>1 DEF RequestShape
<1> QED BY <1>1, <1>2, <1>3, Classified DEF RequestShape, Creates, Spends, Current

(* The request after it goes on to the next operation.                     *)
LEMMA AdvanceShape ==
  ASSUME AdmissionInv, NEW r \in Requests, NEW pc \in {"create", "spend"},
         req[r].pc \in {"create", "insert", "spend", "update"},
         pc = "create" => req[r].pc \in {"create", "insert"},
         pc = "spend" => req[r].pc \in {"spend", "update"},
         req[r].todo # {}, req' = Advance(r, pc)
  PROVE  /\ req' \in [Requests -> Request]
         /\ \A q \in Requests \ {r} : req'[q] = req[q]
         /\ RequestShape(r)'
         /\ req'[r].pc = pc /\ req'[r].todo = req[r].todo \ {Place(r)}
         /\ req'[r].bundle = req[r].bundle /\ req'[r].id = req[r].id
         /\ req'[r].reuse = req[r].reuse
<1>1. req \in [Requests -> Request] /\ RequestShape(r)
  BY InvParts DEF RequestsSound
<1>2. req[r] \in Request
  BY <1>1
<1>3. \A q \in Requests \ {r} : req'[q] = req[q]
  BY <1>1 DEF Advance
<1>4. req'[r] = [req[r] EXCEPT !.pc = pc, !.todo = req[r].todo \ {Place(r)}, !.read = 0]
  BY <1>1 DEF Advance
<1>5. /\ req'[r].pc = pc /\ req'[r].todo = req[r].todo \ {Place(r)}
      /\ req'[r].bundle = req[r].bundle /\ req'[r].id = req[r].id
      /\ req'[r].reuse = req[r].reuse
  BY <1>2, <1>4 DEF Request
<1>6. req'[r] \in Request
  <2>1. req[r].todo \ {Place(r)} \in SUBSET Nat
    BY <1>2 DEF Request
  <2>2. PICK T \in SUBSET Nat : T = req[r].todo \ {Place(r)}
    BY <2>1
  <2>3. PICK p \in Request : p = [req[r] EXCEPT !.pc = pc]
    BY <1>2 DEF Request
  <2>4. PICK t \in Request : t = [p EXCEPT !.todo = T]
    BY DEF Request
  <2>5. [t EXCEPT !.read = 0] \in Request
    BY DEF Request
  <2> QED BY <1>4, <2>2, <2>3, <2>4, <2>5
<1>7. req' \in [Requests -> Request]
  BY <1>1, <1>6 DEF Advance
<1>8. Creates(r)' = Creates(r) /\ Spends(r)' = Spends(r)
  BY <1>5 DEF Creates, Spends
<1>9. RequestShape(r)'
  BY <1>1, <1>5, <1>8 DEF RequestShape
<1> QED BY <1>3, <1>5, <1>7, <1>9

LEMMA CheckBundleKeeps ==
  ASSUME AdmissionInv, NEW r \in Requests, NEW b \in Bundles, CheckBundle(r, b)
  PROVE  AdmissionInv'
<1>1. req \in [Requests -> Request]
  BY InvParts
<1>0. PICK reuse \in BOOLEAN : reuse = (rows[b] # NoRow)
  OBVIOUS
<1> DEFINE n == [Idle EXCEPT !.pc = "gate", !.bundle = b, !.reuse = reuse]
<1>2. n.pc = "gate" /\ n.bundle = b /\ n.id = NoBundle /\ n.todo = {}
  BY DEF Idle
<1>3. n \in Request
  <2>1. Idle \in Request
    BY DEF Idle, Request
  <2>2. PICK p \in Request : p = [Idle EXCEPT !.pc = "gate"]
    BY <2>1 DEF Request
  <2>3. PICK t \in Request : t = [p EXCEPT !.bundle = b]
    BY DEF Request
  <2>4. [t EXCEPT !.reuse = reuse] \in Request
    BY DEF Request
  <2> QED BY <2>2, <2>3, <2>4
<1>4. req' = [req EXCEPT ![r] = n]
  BY <1>0 DEF CheckBundle
<1> HIDE DEF n
<1>5. req'[r] = n /\ \A q \in Requests \ {r} : req'[q] = req[q]
  BY <1>1, <1>4
<1>6. req' \in [Requests -> Request]
  BY <1>1, <1>3, <1>4
<1>7. RequestShape(r)' /\ RequestSound(r)'
  BY <1>2, <1>5 DEF RequestShape, RequestSound, Persisting
<1>8. UNCHANGED <<rows, utxos, queued, disabled, chain, now, restarts>>
  BY DEF CheckBundle
<1> QED BY <1>5, <1>6, <1>7, <1>8, RequestOnly

LEMMA GotoShape ==
  ASSUME AdmissionInv, NEW r \in Requests, NEW pc \in {"fee", "balances", "queue"},
         req[r].pc # "idle", Goto(r, pc)
  PROVE  /\ req' \in [Requests -> Request]
         /\ \A q \in Requests \ {r} : req'[q] = req[q]
         /\ RequestShape(r)'
         /\ req'[r].pc = pc
         /\ req'[r].bundle = req[r].bundle /\ req'[r].id = req[r].id
         /\ req'[r].reuse = req[r].reuse
<1>1. req \in [Requests -> Request] /\ RequestShape(r)
  BY InvParts DEF RequestsSound
<1>2. req[r] \in Request
  BY <1>1
<1>3. \A q \in Requests \ {r} : req'[q] = req[q]
  BY <1>1 DEF Goto
<1>4. req'[r] = [req[r] EXCEPT !.pc = pc]
  BY <1>1 DEF Goto
<1>5. /\ req'[r].pc = pc /\ req'[r].bundle = req[r].bundle /\ req'[r].id = req[r].id
      /\ req'[r].reuse = req[r].reuse
  BY <1>2, <1>4 DEF Request
<1>6. req'[r] \in Request
  BY <1>2, <1>4 DEF Request
<1>7. req' \in [Requests -> Request]
  BY <1>1, <1>6 DEF Goto
<1>8. RequestShape(r)'
  BY <1>1, <1>5 DEF RequestShape
<1> QED BY <1>3, <1>5, <1>7, <1>8

LEMMA PassGateKeeps ==
  ASSUME AdmissionInv, NEW r \in Requests, PassGate(r)
  PROVE  AdmissionInv'
<1>1. UNCHANGED <<rows, utxos, queued, disabled, chain, now, restarts>> /\ req[r].pc = "gate"
      /\ (Answer(r) \/ Goto(r, "fee"))
  BY DEF PassGate
<1>2. CASE Answer(r)
  BY <1>1, <1>2, AnswerKeeps
<1>3. CASE Goto(r, "fee")
  <2>1. /\ req' \in [Requests -> Request]
        /\ \A q \in Requests \ {r} : req'[q] = req[q]
        /\ RequestShape(r)'
        /\ req'[r].pc = "fee" /\ req'[r].id = req[r].id
    BY <1>1, <1>3, GotoShape
  <2>2. req[r].id = NoBundle
    BY <1>1, InvParts DEF RequestsSound, RequestSound, Persisting
  <2>3. RequestSound(r)'
    BY <2>1, <2>2 DEF RequestSound, Persisting
  <2> QED BY <1>1, <2>1, <2>3, RequestOnly
<1> QED BY <1>1, <1>2, <1>3

LEMMA TakeFeeKeeps ==
  ASSUME AdmissionInv, NEW r \in Requests, TakeFee(r)
  PROVE  AdmissionInv'
<1> DEFINE b == req[r].bundle
           fee == calculateFee(b)
<1>1. /\ UNCHANGED <<rows, utxos, queued, disabled, chain, now, restarts>>
      /\ req[r].pc = "fee"
      /\ req' = IF fee < 1 THEN [req EXCEPT ![r] = Idle]
                ELSE [req EXCEPT ![r].pc = "ledger", ![r].fee = fee]
  BY DEF TakeFee
<1>2. CASE fee < 1
  BY <1>1, <1>2, AnswerKeeps DEF Answer
<1>3. CASE ~(fee < 1)
  <2>1. req \in [Requests -> Request] /\ RequestShape(r) /\ RequestSound(r)
        /\ balances \in [Utxos -> Nat]
    BY InvParts DEF RequestsSound, WorldTypes
  <2>2. b \in Bundles /\ req[r].id = NoBundle
    BY <1>1, <2>1 DEF RequestShape, RequestSound, Persisting
  <2>3. fee \in Int /\ fee <= Spendable(b) + Deposited(b) - Outflows(b)
    BY <2>1, <2>2, FeeInt
  <2>4. PICK f \in Nat, c \in Bundles : f = fee /\ f >= 1 /\ c = b
    BY <1>3, <2>2, <2>3
  <2>5. Covered(c, f)
    BY <2>3, <2>4 DEF Covered
  <2>6. Covered(c, f)'
    BY <1>1, <2>5, CoverKept
  <2> HIDE DEF fee
  <2>7. req'[r] = [req[r] EXCEPT !.pc = "ledger", !.fee = f]
        /\ \A q \in Requests \ {r} : req'[q] = req[q]
    BY <1>1, <1>3, <2>1, <2>4
  <2>8. req[r] \in Request
    BY <2>1
  <2>9. /\ req'[r].pc = "ledger" /\ req'[r].fee = f /\ req'[r].bundle = c
        /\ req'[r].id = req[r].id /\ req'[r] \in Request
    BY <2>4, <2>7, <2>8 DEF Request
  <2>10. req' \in [Requests -> Request]
    BY <1>1, <1>3, <2>1, <2>9
  <2>11. RequestShape(r)'
    BY <2>1, <2>2, <2>9 DEF RequestShape
  <2>12. RequestSound(r)'
    BY <2>2, <2>4, <2>6, <2>9 DEF RequestSound, Persisting
  <2> QED BY <1>1, <2>7, <2>10, <2>11, <2>12, RequestOnly
<1> QED BY <1>2, <1>3

LEMMA LatestLedgerKeeps ==
  ASSUME AdmissionInv, NEW r \in Requests, getLatestLedger(r)
  PROVE  AdmissionInv'
<1>1. /\ UNCHANGED <<rows, utxos, queued, disabled, chain, now, restarts>>
      /\ req[r].pc = "ledger"
      /\ req' = [req EXCEPT ![r].pc = "row", ![r].ledger = now]
  BY DEF getLatestLedger
<1>2. req \in [Requests -> Request] /\ RequestShape(r) /\ RequestSound(r) /\ now \in Nat
  BY InvParts, Clock DEF RequestsSound
<1>3. req[r] \in Request
  BY <1>2
<1>4. PICK f \in Nat, c \in Bundles : f = req[r].fee /\ c = req[r].bundle
  BY <1>1, <1>2, <1>3 DEF RequestShape, Request
<1>5. f >= 1 /\ Covered(c, f) /\ req[r].id = NoBundle
  BY <1>1, <1>2, <1>4 DEF RequestSound, Persisting
<1>6. Covered(c, f)'
  BY <1>1, <1>5, CoverKept
<1>7. req'[r] = [req[r] EXCEPT !.pc = "row", !.ledger = now]
      /\ \A q \in Requests \ {r} : req'[q] = req[q]
  BY <1>1, <1>2
<1>8. /\ req'[r].pc = "row" /\ req'[r].fee = f /\ req'[r].bundle = c
      /\ req'[r].id = NoBundle
  BY <1>3, <1>4, <1>5, <1>7 DEF Request
<1>9. req'[r] \in Request
  BY <1>2, <1>3, <1>7 DEF Request
<1>10. req' \in [Requests -> Request]
  BY <1>1, <1>2, <1>9
<1>11. RequestShape(r)'
  BY <1>8 DEF RequestShape
<1>12. RequestSound(r)'
  BY <1>5, <1>6, <1>8 DEF RequestSound, Persisting
<1> QED BY <1>1, <1>7, <1>10, <1>11, <1>12, RequestOnly

(* The loop over the creates goes on over a UTXO that is known.            *)
LEMMA CreateAdvances ==
  ASSUME AdmissionInv, NEW r \in Requests, req[r].pc \in {"create", "insert"}, req[r].todo # {},
         req' = Advance(r, "create"), Grows, utxos'[Current(r).utxo].known
  PROVE  /\ req' \in [Requests -> Request]
         /\ \A q \in Requests \ {r} : req'[q] = req[q]
         /\ RequestShape(r)' /\ RequestSound(r)'
<1>1. /\ req' \in [Requests -> Request]
      /\ \A q \in Requests \ {r} : req'[q] = req[q]
      /\ RequestShape(r)'
      /\ req'[r].pc = "create" /\ req'[r].todo = req[r].todo \ {Place(r)}
      /\ req'[r].bundle = req[r].bundle /\ req'[r].id = req[r].id
      /\ req'[r].reuse = req[r].reuse
  BY AdvanceShape
<1>2. RequestSound(r)
  BY InvParts DEF RequestsSound
<1>3. req[r].bundle \in Bundles
  BY AtOperation
<1>4. rows[req[r].bundle] # NoRow /\ (~req[r].reuse => req[r].id = req[r].bundle)
  BY <1>2 DEF RequestSound, Persisting
<1>5. rows'[req[r].bundle] # NoRow
  BY <1>3, <1>4 DEF Grows
<1>6. ASSUME NEW i \in Creates(r), i \notin req'[r].todo
      PROVE  utxos'[operations[req[r].bundle][i].utxo].known
  <2>1. CASE i = Place(r)
    BY <2>1 DEF Current
  <2>2. CASE i # Place(r)
    <3>1. utxos[operations[req[r].bundle][i].utxo].known
      BY <1>1, <1>2, <1>6, <2>2 DEF RequestSound
    <3>2. operations[req[r].bundle][i].utxo \in Utxos
      BY <1>3, Classified DEF Creates
    <3> QED BY <3>1, <3>2 DEF Grows
  <2> QED BY <2>1, <2>2
<1>7. Creates(r)' = Creates(r)
  BY <1>1 DEF Creates
<1>8. RequestSound(r)'
  BY <1>1, <1>4, <1>5, <1>6, <1>7 DEF RequestSound, Persisting
<1> QED BY <1>1, <1>8

(* A request that only changes its program counter within a loop.          *)
LEMMA FindCreatedKeeps ==
  ASSUME AdmissionInv, NEW r \in Requests, FindCreated(r)
  PROVE  AdmissionInv'
<1>1. /\ UNCHANGED <<rows, utxos, queued, disabled, chain, now, restarts>>
      /\ req[r].pc = "create" /\ req[r].todo # {}
      /\ req' = IF utxos[Current(r).utxo].known THEN Advance(r, "create")
                ELSE [req EXCEPT ![r].pc = "insert"]
  BY DEF FindCreated
<1>2. CASE utxos[Current(r).utxo].known
  <2>1. utxos' = utxos
    BY <1>1
  <2>2. /\ req' \in [Requests -> Request]
        /\ \A q \in Requests \ {r} : req'[q] = req[q]
    BY <1>1, <1>2, AdvanceShape
  <2>3. Grows => RequestShape(r)' /\ RequestSound(r)'
    BY <1>1, <1>2, <2>1, CreateAdvances
  <2> QED BY <1>1, <2>2, <2>3, RequestOnly
<1>3. CASE ~utxos[Current(r).utxo].known
  <2>1. req \in [Requests -> Request] /\ RequestShape(r) /\ RequestSound(r)
    BY InvParts DEF RequestsSound
  <2>2. req[r] \in Request
    BY <2>1
  <2>3. req'[r] = [req[r] EXCEPT !.pc = "insert"] /\ \A q \in Requests \ {r} : req'[q] = req[q]
    BY <1>1, <1>3, <2>1
  <2>4. /\ req'[r].pc = "insert" /\ req'[r].todo = req[r].todo
        /\ req'[r].bundle = req[r].bundle /\ req'[r].id = req[r].id
        /\ req'[r].reuse = req[r].reuse
    BY <2>2, <2>3 DEF Request
  <2>5. req'[r] \in Request
    BY <2>2, <2>3 DEF Request
  <2>6. req' \in [Requests -> Request]
    BY <1>1, <1>3, <2>1, <2>5
  <2>7. Creates(r)' = Creates(r)
    BY <2>4 DEF Creates
  <2>8. RequestShape(r)'
    BY <1>1, <2>1, <2>4, <2>7 DEF RequestShape
  <2>9. RequestSound(r)'
    BY <1>1, <2>1, <2>4, <2>7 DEF RequestSound, Persisting
  <2> QED BY <1>1, <2>3, <2>6, <2>8, <2>9, RequestOnly
<1> QED BY <1>2, <1>3

LEMMA CreatesPersistedKeeps ==
  ASSUME AdmissionInv, NEW r \in Requests, CreatesPersisted(r)
  PROVE  AdmissionInv'
<1>1. PICK pc \in {"queue", "balances"} : pc = IF Spends(r) = {} THEN "queue" ELSE "balances"
  OBVIOUS
<1>2. /\ UNCHANGED <<rows, utxos, queued, disabled, chain, now, restarts>>
      /\ req[r].pc = "create" /\ req[r].todo = {} /\ Goto(r, pc)
  BY <1>1 DEF CreatesPersisted
<1>3. /\ req' \in [Requests -> Request]
      /\ \A q \in Requests \ {r} : req'[q] = req[q]
      /\ RequestShape(r)'
      /\ req'[r].pc = pc
      /\ req'[r].bundle = req[r].bundle /\ req'[r].id = req[r].id
      /\ req'[r].reuse = req[r].reuse
  BY <1>2, GotoShape
<1>4. RequestSound(r)
  BY InvParts DEF RequestsSound
<1>5. Creates(r)' = Creates(r) /\ Spends(r)' = Spends(r)
  BY <1>3 DEF Creates, Spends
<1>6. pc = "queue" => Spends(r) = {}
  BY <1>1
<1>7. utxos' = utxos /\ rows' = rows
  BY <1>2
<1>8. \A i \in Creates(r) : utxos[operations[req[r].bundle][i].utxo].known
  BY <1>2, <1>4 DEF RequestSound
<1>9. rows[req[r].bundle] # NoRow /\ (~req[r].reuse => req[r].id = req[r].bundle)
  BY <1>2, <1>4 DEF RequestSound, Persisting
<1>10. RequestSound(r)'
  BY <1>3, <1>5, <1>6, <1>7, <1>8, <1>9 DEF RequestSound, Persisting
<1> QED BY <1>2, <1>3, <1>10, RequestOnly

LEMMA FetchBalancesKeeps ==
  ASSUME AdmissionInv, NEW r \in Requests, FetchBalances(r)
  PROVE  AdmissionInv'
<1> DEFINE s == [u \in Utxos |-> IF u \in UtxosOf(req[r].bundle, "spend") THEN balances[u] ELSE 0]
<1>1. /\ UNCHANGED <<rows, utxos, queued, disabled, chain, now, restarts>>
      /\ req[r].pc = "balances"
      /\ req' = [req EXCEPT ![r].pc = "spend", ![r].todo = Spends(r), ![r].spent = s]
  BY DEF FetchBalances
<1>2. req \in [Requests -> Request] /\ RequestShape(r) /\ RequestSound(r)
      /\ balances \in [Utxos -> Nat]
  BY InvParts DEF RequestsSound, WorldTypes
<1>3. s \in [Utxos -> Nat]
  BY <1>2
<1> HIDE DEF s
<1>4. req[r] \in Request /\ req[r].bundle \in Bundles
  BY <1>1, <1>2 DEF RequestShape
<1>5. Spends(r) \in SUBSET Nat
  BY <1>4, Classified DEF Spends
<1>6. req'[r] = [req[r] EXCEPT !.pc = "spend", !.todo = Spends(r), !.spent = s]
      /\ \A q \in Requests \ {r} : req'[q] = req[q]
  BY <1>1, <1>2
<1>7. /\ req'[r].pc = "spend" /\ req'[r].todo = Spends(r)
      /\ req'[r].bundle = req[r].bundle /\ req'[r].id = req[r].id
      /\ req'[r].reuse = req[r].reuse
  BY <1>4, <1>6 DEF Request
<1>8. req'[r] \in Request
  <2>1. PICK p \in Request : p = [req[r] EXCEPT !.pc = "spend"]
    BY <1>4 DEF Request
  <2>2. PICK t \in Request : t = [p EXCEPT !.todo = Spends(r)]
    BY <1>5 DEF Request
  <2>3. [t EXCEPT !.spent = s] \in Request
    BY <1>3 DEF Request
  <2> QED BY <1>6, <2>1, <2>2, <2>3
<1>9. req' \in [Requests -> Request]
  BY <1>1, <1>2, <1>8
<1>10. Creates(r)' = Creates(r) /\ Spends(r)' = Spends(r)
  BY <1>7 DEF Creates, Spends
<1>11. RequestShape(r)'
  BY <1>2, <1>4, <1>7, <1>10 DEF RequestShape
<1>12. utxos' = utxos /\ rows' = rows
  BY <1>1
<1>13. RequestSound(r)'
  BY <1>1, <1>2, <1>7, <1>10, <1>12 DEF RequestSound, Persisting
<1> QED BY <1>1, <1>6, <1>9, <1>11, <1>13, RequestOnly

LEMMA FindSpentKeeps ==
  ASSUME AdmissionInv, NEW r \in Requests, FindSpent(r)
  PROVE  AdmissionInv'
<1>1. /\ UNCHANGED <<rows, utxos, queued, disabled, chain, now, restarts>>
      /\ req[r].pc = "spend" /\ req[r].todo # {}
      /\ req' = IF utxos[Current(r).utxo].known
                THEN [req EXCEPT ![r].pc = "update", ![r].read = utxos[Current(r).utxo].amount]
                ELSE [req EXCEPT ![r] = Idle]
  BY DEF FindSpent
<1>2. CASE ~utxos[Current(r).utxo].known
  BY <1>1, <1>2, AnswerKeeps DEF Answer
<1>3. CASE utxos[Current(r).utxo].known
  <2>1. req \in [Requests -> Request] /\ RequestShape(r) /\ RequestSound(r) /\ StoreTypes
    BY InvParts DEF RequestsSound
  <2>2. req[r] \in Request
    BY <2>1
  <2>3. Current(r).utxo \in Utxos
    BY <1>1, AtOperation
  <2>4. utxos[Current(r).utxo].amount \in Int
    BY <2>1, <2>3 DEF StoreTypes
  <2>5. req'[r] = [req[r] EXCEPT !.pc = "update", !.read = utxos[Current(r).utxo].amount]
        /\ \A q \in Requests \ {r} : req'[q] = req[q]
    BY <1>1, <1>3, <2>1
  <2>6. /\ req'[r].pc = "update" /\ req'[r].todo = req[r].todo
        /\ req'[r].bundle = req[r].bundle /\ req'[r].id = req[r].id
        /\ req'[r].reuse = req[r].reuse
    BY <2>2, <2>5 DEF Request
  <2>7. req'[r] \in Request
    <3>1. PICK p \in Request : p = [req[r] EXCEPT !.pc = "update"]
      BY <2>2 DEF Request
    <3>2. PICK n \in Int : n = utxos[Current(r).utxo].amount
      BY <2>4
    <3>3. [p EXCEPT !.read = n] \in Request
      BY DEF Request
    <3> QED BY <2>5, <3>1, <3>2, <3>3
  <2>8. req' \in [Requests -> Request]
    BY <1>1, <1>3, <2>1, <2>7
  <2>9. Creates(r)' = Creates(r) /\ Spends(r)' = Spends(r) /\ Current(r)' = Current(r)
    BY <2>6 DEF Creates, Spends, Current, Place
  <2>10. RequestShape(r)'
    BY <1>1, <2>1, <2>6, <2>9 DEF RequestShape
  <2>11. utxos' = utxos /\ rows' = rows
    BY <1>1
  <2>12. RequestSound(r)'
    BY <1>1, <1>3, <2>1, <2>6, <2>9, <2>11 DEF RequestSound, Persisting
  <2> QED BY <1>1, <2>5, <2>8, <2>10, <2>12, RequestOnly
<1> QED BY <1>2, <1>3

LEMMA SpendsPersistedKeeps ==
  ASSUME AdmissionInv, NEW r \in Requests, SpendsPersisted(r)
  PROVE  AdmissionInv'
<1>1. /\ UNCHANGED <<rows, utxos, queued, disabled, chain, now, restarts>>
      /\ req[r].pc = "spend" /\ req[r].todo = {} /\ Goto(r, "queue")
  BY DEF SpendsPersisted
<1>2. /\ req' \in [Requests -> Request]
      /\ \A q \in Requests \ {r} : req'[q] = req[q]
      /\ RequestShape(r)'
      /\ req'[r].pc = "queue"
      /\ req'[r].bundle = req[r].bundle /\ req'[r].id = req[r].id
      /\ req'[r].reuse = req[r].reuse
  BY <1>1, GotoShape
<1>3. RequestSound(r)
  BY InvParts DEF RequestsSound
<1>4. Creates(r)' = Creates(r) /\ Spends(r)' = Spends(r)
  BY <1>2 DEF Creates, Spends
<1>5. utxos' = utxos /\ rows' = rows
  BY <1>1
<1>6. RequestSound(r)'
  BY <1>1, <1>2, <1>3, <1>4, <1>5 DEF RequestSound, Persisting
<1> QED BY <1>1, <1>2, <1>6, RequestOnly

-----------------------------------------------------------------------------
(* The steps of a request that write.                                      *)

(* The parts of the invariant that a step leaves alone.                    *)
LEMMA Untouched ==
  ASSUME AdmissionInv
  PROVE  /\ UNCHANGED <<disabled, chain, now, restarts>> => WorldTypes'
         /\ UNCHANGED <<rows, utxos, queued>> => StoreTypes'
         /\ UNCHANGED chain => ChainSound'
         /\ (UNCHANGED utxos /\ Grows) => UtxosSound'
         /\ (UNCHANGED <<rows, queued, chain>>) => RowsSound'
<1> USE InvParts
<1>1. UNCHANGED <<disabled, chain, now, restarts>> => WorldTypes'
  BY DEF WorldTypes, chain
<1>2. UNCHANGED <<rows, utxos, queued>> => StoreTypes'
  BY DEF StoreTypes
<1>3. UNCHANGED chain => ChainSound'
  BY DEF ChainSound, chain
<1>4. (UNCHANGED utxos /\ Grows) => UtxosSound'
  BY DEF UtxosSound, Grows, UtxosOf
<1>5. ASSUME UNCHANGED <<rows, queued, chain>> PROVE RowsSound'
  <2>1. RowsSound /\ StoreTypes /\ rows' = rows /\ queued' = queued
    BY <1>5
  <2>2. \A b \in Bundles : rows[b].fee \in Nat
    BY <2>1 DEF StoreTypes
  <2>3. ASSUME NEW b \in Bundles, rows'[b] # NoRow
        PROVE  /\ rows'[b].fee >= 1 /\ Covered(b, rows[b].fee)'
               /\ \A e \in Expirations(b) : rows'[b].ttl <= e + RpcTimeout
    BY <1>5, <2>1, <2>2, <2>3, CoverKept DEF RowsSound
  <2> QED BY <2>1, <2>3 DEF RowsSound, Covered
<1> QED BY <1>1, <1>2, <1>3, <1>4, <1>5

(* A row that is written by the request.                                   *)
LEMMA RowWritten ==
  ASSUME AdmissionInv, NEW r \in Requests, NEW id,
         req[r].pc = "row", InTime(r),
         ~req[r].reuse => id = req[r].bundle,
         id \in {NoBundle, req[r].bundle},
         rows' = [rows EXCEPT ![req[r].bundle] = Row(r)], PersistFor(r, id),
         UNCHANGED <<utxos, queued, disabled, chain, now, restarts>>
  PROVE  AdmissionInv'
<1>0. UNCHANGED utxos /\ UNCHANGED queued /\ UNCHANGED chain /\ UNCHANGED now
      /\ UNCHANGED <<disabled, chain, now, restarts>>
  OBVIOUS
<1>1. req \in [Requests -> Request] /\ RequestShape(r) /\ RequestSound(r)
      /\ StoreTypes /\ RowsSound /\ now \in Nat /\ RpcTimeout \in Nat
  BY InvParts, Clock DEF RequestsSound
<1>2. req[r] \in Request
  BY <1>1
<1>3. PICK f \in Nat, c \in Bundles, l \in Nat : f = req[r].fee /\ c = req[r].bundle /\ l = req[r].ledger
  BY <1>1, <1>2 DEF RequestShape, Request
<1>4. f >= 1 /\ Covered(c, f)
  BY <1>1, <1>3 DEF RequestSound
<1>5. Covered(c, f)'
  BY <1>0, <1>4, CoverKept
<1>6. PICK t \in Int : /\ t = calculateBundleTtl(c, l)
                       /\ \A e \in Expirations(c) : t <= now + e - l
  BY <1>1, TtlBound
<1>7. \A e \in Expirations(c) : e \in Nat
  BY Classified DEF Expirations
<1>8. \A e \in Expirations(c) : t <= e + RpcTimeout
  <2>1. now <= l + RpcTimeout
    BY <1>3 DEF InTime
  <2> QED BY <1>1, <1>6, <1>7, <2>1
<1> DEFINE n == [status |-> "PENDING", fee |-> f, ttl |-> t]
<1>9. rows' = [rows EXCEPT ![c] = n]
  BY <1>3, <1>6 DEF Row
<1>10. n # NoRow
  BY DEF NoRow
<1>11. \A b \in Bundles : rows'[b] = IF b = c THEN n ELSE rows[b]
  BY <1>1, <1>9 DEF StoreTypes
<1>12. Grows
  <2>1. \A b \in Bundles, fee \in Nat : Covered(b, fee) <=> Covered(b, fee)'
    BY <1>0, CoverKept
  <2>2. \A b \in Bundles : rows[b] # NoRow => rows'[b] # NoRow
    BY <1>10, <1>11
  <2> QED BY <1>0, <2>1, <2>2 DEF Grows
<1>13. StoreTypes'
  <2>1. n \in [status : {"none", "PENDING", "COMPLETED", "FAILED", "EXPIRED"}, fee : Nat, ttl : Int]
    OBVIOUS
  <2> HIDE DEF n
  <2> QED BY <1>0, <1>1, <1>9, <2>1 DEF StoreTypes
<1>14. RowsSound'
  <2>1. \A b \in Bundles : rows[b].fee \in Nat
    BY <1>1 DEF StoreTypes
  <2>2. ASSUME NEW b \in Bundles, rows'[b] # NoRow
        PROVE  /\ rows'[b].fee >= 1 /\ Covered(b, rows[b].fee)'
               /\ \A e \in Expirations(b) : rows'[b].ttl <= e + RpcTimeout
    <3>1. CASE b = c
      <4>1. rows'[b].fee = f /\ rows'[b].ttl = t
        BY <1>11, <3>1
      <4> QED BY <1>4, <1>5, <1>8, <3>1, <4>1 DEF Covered
    <3>2. CASE b # c
      <4>1. rows'[b] = rows[b]
        BY <1>11, <3>2
      <4>2. rows[b].fee >= 1 /\ Covered(b, rows[b].fee)
            /\ \A e \in Expirations(b) : rows[b].ttl <= e + RpcTimeout
        BY <1>1, <2>2, <4>1 DEF RowsSound
      <4>3. PICK g \in Nat : g = rows[b].fee
        BY <2>1
      <4>4. Covered(b, g)'
        BY <1>12, <4>2, <4>3 DEF Grows
      <4> QED BY <4>1, <4>2, <4>3, <4>4 DEF Covered
    <3> QED BY <3>1, <3>2
  <2>3. \A b \in queued' : rows'[b] # NoRow
    BY <1>0, <1>1, <1>12 DEF RowsSound, Grows, StoreTypes
  <2> QED BY <2>2, <2>3 DEF RowsSound, Covered
<1> DEFINE q == [Idle EXCEPT !.pc = "create", !.bundle = req[r].bundle, !.id = id,
                             !.reuse = req[r].reuse, !.todo = Creates(r)]
<1>15. /\ q.pc = "create" /\ q.bundle = c /\ q.id = id /\ q.reuse = req[r].reuse
       /\ q.todo = Creates(r)
  BY <1>3 DEF Idle
<1>16. q \in Request
  <2>1. Idle \in Request
    BY DEF Idle, Request
  <2>2. PICK q1 \in Request : q1 = [Idle EXCEPT !.pc = "create"]
    BY <2>1 DEF Request
  <2>3. PICK q2 \in Request : q2 = [q1 EXCEPT !.bundle = c]
    BY DEF Request
  <2>4. PICK q3 \in Request : q3 = [q2 EXCEPT !.id = id]
    BY <1>3 DEF Request
  <2>5. req[r].reuse \in BOOLEAN
    BY <1>2 DEF Request
  <2>6. PICK q4 \in Request : q4 = [q3 EXCEPT !.reuse = req[r].reuse]
    BY <2>5 DEF Request
  <2>7. Creates(r) \in SUBSET Nat
    BY <1>3, Classified DEF Creates
  <2>8. [q4 EXCEPT !.todo = Creates(r)] \in Request
    BY <2>7 DEF Request
  <2> QED BY <1>3, <2>2, <2>3, <2>4, <2>6, <2>8
<1>17. req' = [req EXCEPT ![r] = q]
  BY DEF PersistFor
<1> HIDE DEF q, n
<1>18. req'[r] = q /\ \A p \in Requests \ {r} : req'[p] = req[p]
  BY <1>1, <1>17
<1>19. req' \in [Requests -> Request]
  BY <1>1, <1>16, <1>17
<1>20. Creates(r)' = Creates(r)
  BY <1>3, <1>15, <1>18 DEF Creates
<1>21. RequestShape(r)'
  BY <1>3, <1>15, <1>18, <1>20 DEF RequestShape
<1>22. RequestSound(r)'
  <2>1. rows'[c] # NoRow
    BY <1>10, <1>11
  <2> QED BY <1>3, <1>15, <1>18, <1>20, <2>1 DEF RequestSound, Persisting
<1>23. RequestsSound'
  BY <1>12, <1>18, <1>19, <1>21, <1>22, OneRequest
<1>24. WorldTypes' /\ ChainSound' /\ UtxosSound'
  BY <1>0, <1>12, Untouched
<1> QED BY <1>13, <1>14, <1>19, <1>23, <1>24, InvParts

LEMMA CreateRowKeeps ==
  ASSUME AdmissionInv, NEW r \in Requests, CreateRow(r)
  PROVE  AdmissionInv'
<1>1. PICK c : c = req[r].bundle
  OBVIOUS
<1>2. /\ req[r].pc = "row" /\ InTime(r)
      /\ rows' = [rows EXCEPT ![req[r].bundle] = Row(r)] /\ PersistFor(r, c)
      /\ UNCHANGED <<utxos, queued, disabled, chain, now, restarts>>
  BY <1>1 DEF CreateRow
<1> QED BY <1>1, <1>2, RowWritten

LEMMA ReuseRowKeeps ==
  ASSUME AdmissionInv, NEW r \in Requests, ReuseRow(r)
  PROVE  AdmissionInv'
<1>1. /\ req[r].pc = "row" /\ InTime(r) /\ req[r].reuse
      /\ rows' = [rows EXCEPT ![req[r].bundle] = Row(r)] /\ PersistFor(r, NoBundle)
      /\ UNCHANGED <<utxos, queued, disabled, chain, now, restarts>>
  BY DEF ReuseRow
<1> QED BY <1>1, RowWritten

LEMMA InsertUtxoKeeps ==
  ASSUME AdmissionInv, NEW r \in Requests, InsertUtxo(r)
  PROVE  AdmissionInv'
<1>1. req[r].pc = "insert" /\ UNCHANGED <<rows, queued, disabled, chain, now, restarts>>
  BY DEF InsertUtxo
<1>2. CASE utxos[Current(r).utxo].known
  <2>1. Answer(r) /\ UNCHANGED utxos
    BY <1>2 DEF InsertUtxo
  <2> QED BY <1>1, <2>1, AnswerKeeps
<1>3. CASE ~utxos[Current(r).utxo].known
  <2>0. UNCHANGED rows /\ UNCHANGED queued /\ UNCHANGED chain
        /\ UNCHANGED <<disabled, chain, now, restarts>> /\ UNCHANGED <<rows, queued, chain>>
    BY <1>1
  <2>1. req[r].todo # {} /\ RequestShape(r) /\ RequestSound(r) /\ StoreTypes /\ UtxosSound
    BY <1>1, InvParts DEF RequestsSound, RequestShape
  <2>2. /\ req[r].bundle \in Bundles /\ Place(r) \in Creates(r)
        /\ Current(r).utxo \in Utxos /\ Current(r).amount \in Nat
    BY <1>1, <2>1, AtOperation
  <2>3. PICK v \in Utxos, a \in Int : v = Current(r).utxo /\ a = Current(r).amount
    BY <2>2
  <2>4. PICK id \in Bundles \cup {NoBundle} : id = req[r].id
    BY <2>1, <2>2 DEF RequestShape
  <2> DEFINE n == [amount |-> a, createdAt |-> id, spentAt |-> NoBundle, known |-> TRUE]
  <2>5. utxos' = [utxos EXCEPT ![v] = n] /\ req' = Advance(r, "create")
    BY <1>3, <2>3, <2>4 DEF InsertUtxo
  <2>6. n.createdAt = id /\ n.spentAt = NoBundle /\ n.known = TRUE
    OBVIOUS
  <2>7. n \in [amount : Int, createdAt : Bundles \cup {NoBundle},
               spentAt : Bundles \cup {NoBundle}, known : BOOLEAN]
    OBVIOUS
  <2> HIDE DEF n
  <2>8. \A u \in Utxos : utxos'[u] = IF u = v THEN n ELSE utxos[u]
    BY <2>1, <2>5 DEF StoreTypes
  <2>9. utxos[v].spentAt = NoBundle
    BY <1>3, <2>1, <2>3 DEF UtxosSound
  <2>10. Grows
    <3>1. \A b \in Bundles, fee \in Nat : Covered(b, fee) <=> Covered(b, fee)'
      BY <2>0, CoverKept
    <3>2. \A u \in Utxos : utxos[u].known => utxos'[u].known
      BY <2>6, <2>8
    <3>3. \A u \in Utxos : utxos[u].spentAt # NoBundle => utxos'[u].spentAt # NoBundle
      BY <2>8, <2>9
    <3> QED BY <2>0, <3>1, <3>2, <3>3 DEF Grows
  <2>11. StoreTypes'
    BY <2>0, <2>1, <2>5, <2>7 DEF StoreTypes
  <2>12. UtxosSound'
    <3>1. rows[req[r].bundle] # NoRow
      BY <1>1, <2>1 DEF RequestSound, Persisting
    <3>2. v \in UtxosOf(req[r].bundle, "create")
      BY <2>2, <2>3 DEF UtxosOf, Creates, Current
    <3>3. id \in {NoBundle, req[r].bundle}
      BY <2>1, <2>4 DEF RequestShape
    <3>4. NoBundle \notin Bundles
      BY AdmissionAssumption
    <3>5. ASSUME NEW u \in Utxos
          PROVE  /\ utxos'[u].spentAt # NoBundle => utxos'[u].known
                 /\ \A b \in Bundles : utxos'[u].createdAt = b =>
                       u \in UtxosOf(b, "create") /\ rows'[b] # NoRow
                 /\ \A b \in Bundles : utxos'[u].spentAt = b =>
                       u \in UtxosOf(b, "spend") /\ rows'[b] # NoRow
      <4>1. CASE u = v
        BY <2>0, <2>6, <2>8, <3>1, <3>2, <3>3, <3>4, <4>1
      <4>2. CASE u # v
        BY <2>0, <2>1, <2>8, <4>2 DEF UtxosSound
      <4> QED BY <4>1, <4>2
    <3> QED BY <3>5 DEF UtxosSound, UtxosOf
  <2>13. utxos'[Current(r).utxo].known
    BY <2>3, <2>6, <2>8
  <2>14. /\ req' \in [Requests -> Request]
         /\ \A q \in Requests \ {r} : req'[q] = req[q]
         /\ RequestShape(r)' /\ RequestSound(r)'
    BY <1>1, <2>1, <2>5, <2>10, <2>13, CreateAdvances
  <2>15. RequestsSound'
    BY <2>10, <2>14, OneRequest
  <2>16. WorldTypes' /\ ChainSound' /\ RowsSound'
    BY <2>0, Untouched
  <2> QED BY <2>11, <2>12, <2>14, <2>15, <2>16, InvParts
<1> QED BY <1>2, <1>3

LEMMA UpdateSpentKeeps ==
  ASSUME AdmissionInv, NEW r \in Requests, UpdateSpent(r)
  PROVE  AdmissionInv'
<1>1. req[r].pc = "update" /\ UNCHANGED <<rows, queued, disabled, chain, now, restarts>>
      /\ req' = Advance(r, "spend")
  BY DEF UpdateSpent
<1>2. UNCHANGED rows /\ UNCHANGED queued /\ UNCHANGED chain
      /\ UNCHANGED <<disabled, chain, now, restarts>> /\ UNCHANGED <<rows, queued, chain>>
  BY <1>1
<1>3. req[r].todo # {} /\ RequestShape(r) /\ RequestSound(r) /\ StoreTypes /\ UtxosSound
      /\ req[r] \in Request
  BY <1>1, InvParts DEF RequestsSound, RequestShape
<1>4. req[r].bundle \in Bundles /\ Place(r) \in Spends(r) /\ Current(r).utxo \in Utxos
  BY <1>1, <1>3, AtOperation
<1>5. PICK v \in Utxos : v = Current(r).utxo
  BY <1>4
<1>6. PICK a \in Int : a = req[r].read - req[r].spent[v]
  BY <1>3 DEF Request
<1>7. utxos[v] \in [amount : Int, createdAt : Bundles \cup {NoBundle},
                    spentAt : Bundles \cup {NoBundle}, known : BOOLEAN]
  BY <1>3 DEF StoreTypes
<1>8. PICK s \in Bundles \cup {NoBundle} :
        s = IF req[r].id = NoBundle THEN utxos[v].spentAt ELSE req[r].id
  BY <1>3, <1>4, <1>7 DEF RequestShape
<1> DEFINE n == [utxos[v] EXCEPT !.amount = a, !.spentAt = s]
<1>9. utxos' = [utxos EXCEPT ![v] = n]
  <2>1. utxos' = [utxos EXCEPT ![v] =
                    [utxos[v] EXCEPT !.amount = a,
                       !.spentAt = IF req[r].id = NoBundle THEN @ ELSE req[r].id]]
    BY <1>5, <1>6 DEF UpdateSpent
  <2>2. [utxos[v] EXCEPT !.amount = a,
                         !.spentAt = IF req[r].id = NoBundle THEN @ ELSE req[r].id] = n
    BY <1>7, <1>8
  <2> QED BY <2>1, <2>2
<1>10. n.createdAt = utxos[v].createdAt /\ n.spentAt = s /\ n.known = utxos[v].known
  BY <1>7
<1>11. n \in [amount : Int, createdAt : Bundles \cup {NoBundle},
              spentAt : Bundles \cup {NoBundle}, known : BOOLEAN]
  BY <1>7
<1> HIDE DEF n
<1>12. \A u \in Utxos : utxos'[u] = IF u = v THEN n ELSE utxos[u]
  BY <1>3, <1>9 DEF StoreTypes
<1>13. utxos[v].known
  BY <1>1, <1>3, <1>5 DEF RequestSound
<1>14. utxos[v].spentAt # NoBundle => s # NoBundle
  BY <1>8
<1>15. Grows
  <2>1. \A b \in Bundles, fee \in Nat : Covered(b, fee) <=> Covered(b, fee)'
    BY <1>2, CoverKept
  <2>2. \A u \in Utxos : utxos[u].known => utxos'[u].known
    BY <1>10, <1>12
  <2>3. \A u \in Utxos : utxos[u].spentAt # NoBundle => utxos'[u].spentAt # NoBundle
    BY <1>10, <1>12, <1>14
  <2> QED BY <1>2, <2>1, <2>2, <2>3 DEF Grows
<1>16. StoreTypes'
  BY <1>2, <1>3, <1>9, <1>11 DEF StoreTypes
<1>17. NoBundle \notin Bundles
  BY AdmissionAssumption
<1>18. rows[req[r].bundle] # NoRow /\ (~req[r].reuse => req[r].id = req[r].bundle)
  BY <1>1, <1>3 DEF RequestSound, Persisting
<1>19. UtxosSound'
  <2>1. v \in UtxosOf(req[r].bundle, "spend")
    BY <1>4, <1>5 DEF UtxosOf, Spends, Current
  <2>2. req[r].id \in {NoBundle, req[r].bundle}
    BY <1>3 DEF RequestShape
  <2>3. ASSUME NEW u \in Utxos
        PROVE  /\ utxos'[u].spentAt # NoBundle => utxos'[u].known
               /\ \A b \in Bundles : utxos'[u].createdAt = b =>
                     u \in UtxosOf(b, "create") /\ rows'[b] # NoRow
               /\ \A b \in Bundles : utxos'[u].spentAt = b =>
                     u \in UtxosOf(b, "spend") /\ rows'[b] # NoRow
    <3>1. CASE u = v
      <4>1. utxos'[u] = n
        BY <1>12, <3>1
      <4>2. \A b \in Bundles : s = b => u \in UtxosOf(b, "spend") /\ rows'[b] # NoRow
        BY <1>2, <1>3, <1>8, <1>18, <2>1, <2>2, <3>1 DEF UtxosSound
      <4>3. \A b \in Bundles : utxos[v].createdAt = b =>
                     u \in UtxosOf(b, "create") /\ rows'[b] # NoRow
        BY <1>2, <1>3, <3>1 DEF UtxosSound
      <4> QED BY <1>10, <1>13, <4>1, <4>2, <4>3
    <3>2. CASE u # v
      BY <1>2, <1>3, <1>12, <3>2 DEF UtxosSound
    <3> QED BY <3>1, <3>2
  <2> QED BY <2>3 DEF UtxosSound, UtxosOf
<1>20. /\ req' \in [Requests -> Request]
       /\ \A q \in Requests \ {r} : req'[q] = req[q]
       /\ RequestShape(r)'
       /\ req'[r].pc = "spend" /\ req'[r].todo = req[r].todo \ {Place(r)}
       /\ req'[r].bundle = req[r].bundle /\ req'[r].id = req[r].id
       /\ req'[r].reuse = req[r].reuse
  BY <1>1, <1>3, AdvanceShape
<1>21. RequestSound(r)'
  <2>1. Creates(r)' = Creates(r) /\ Spends(r)' = Spends(r)
    BY <1>20 DEF Creates, Spends
  <2>2. \A i \in Creates(r) \cup Spends(r) : operations[req[r].bundle][i].utxo \in Utxos
    BY <1>4, Classified DEF Creates, Spends
  <2>3. \A i \in Creates(r) : utxos'[operations[req[r].bundle][i].utxo].known
    <3>1. \A i \in Creates(r) : utxos[operations[req[r].bundle][i].utxo].known
      BY <1>1, <1>3 DEF RequestSound
    <3> QED BY <1>15, <2>2, <3>1 DEF Grows
  <2>4. ASSUME ~req[r].reuse, NEW i \in Spends(r), i \notin req'[r].todo
        PROVE  utxos'[operations[req[r].bundle][i].utxo].spentAt # NoBundle
    <3>1. CASE i = Place(r)
      <4>1. s = req[r].bundle
        BY <1>4, <1>8, <1>17, <1>18, <2>4
      <4> QED BY <1>4, <1>5, <1>10, <1>12, <1>17, <3>1, <4>1 DEF Current
    <3>2. CASE i # Place(r)
      <4>1. utxos[operations[req[r].bundle][i].utxo].spentAt # NoBundle
        BY <1>1, <1>3, <1>20, <2>4, <3>2 DEF RequestSound
      <4> QED BY <1>15, <2>2, <4>1 DEF Grows
    <3> QED BY <3>1, <3>2
  <2> QED BY <1>2, <1>18, <1>20, <2>1, <2>3, <2>4 DEF RequestSound, Persisting
<1>22. RequestsSound'
  BY <1>15, <1>20, <1>21, OneRequest
<1>23. WorldTypes' /\ ChainSound' /\ RowsSound'
  BY <1>2, Untouched
<1> QED BY <1>16, <1>19, <1>20, <1>22, <1>23, InvParts

LEMMA AddToMempoolKeeps ==
  ASSUME AdmissionInv, NEW r \in Requests, AddToMempool(r)
  PROVE  AdmissionInv'
<1>1. /\ req[r].pc = "queue" /\ Answer(r)
      /\ queued' = IF req[r].reuse THEN queued ELSE queued \cup {req[r].bundle}
      /\ UNCHANGED rows /\ UNCHANGED utxos /\ UNCHANGED chain
      /\ UNCHANGED <<disabled, chain, now, restarts>>
  BY DEF AddToMempool
<1>2. req \in [Requests -> Request] /\ RequestShape(r) /\ RequestSound(r) /\ StoreTypes /\ RowsSound
  BY InvParts DEF RequestsSound
<1>3. req[r].bundle \in Bundles /\ rows[req[r].bundle] # NoRow
  BY <1>1, <1>2 DEF RequestShape, RequestSound, Persisting
<1>4. Grows
  <2>1. \A b \in Bundles, fee \in Nat : Covered(b, fee) <=> Covered(b, fee)'
    BY <1>1, CoverKept
  <2> QED BY <1>1, <2>1 DEF Grows
<1>5. req'[r] = Idle /\ \A q \in Requests \ {r} : req'[q] = req[q]
  BY <1>1, <1>2 DEF Answer
<1>6. req'[r] \in Request /\ RequestShape(r)' /\ RequestSound(r)'
  BY <1>5, IdleSound
<1>7. req' \in [Requests -> Request]
  BY <1>1, <1>2, <1>5, <1>6 DEF Answer
<1>8. RequestsSound'
  BY <1>4, <1>5, <1>6, <1>7, OneRequest
<1>9. StoreTypes'
  BY <1>1, <1>2, <1>3 DEF StoreTypes
<1>10. RowsSound'
  <2>1. \A b \in Bundles : rows[b].fee \in Nat
    BY <1>2 DEF StoreTypes
  <2>2. ASSUME NEW b \in Bundles, rows'[b] # NoRow
        PROVE  /\ rows'[b].fee >= 1 /\ Covered(b, rows[b].fee)'
               /\ \A e \in Expirations(b) : rows'[b].ttl <= e + RpcTimeout
    BY <1>1, <1>2, <2>1, <2>2, CoverKept DEF RowsSound
  <2>3. \A b \in queued' : rows'[b] # NoRow
    BY <1>1, <1>2, <1>3 DEF RowsSound
  <2> QED BY <1>1, <2>2, <2>3 DEF RowsSound, Covered
<1>11. WorldTypes' /\ ChainSound' /\ UtxosSound'
  BY <1>1, <1>4, Untouched
<1> QED BY <1>7, <1>8, <1>9, <1>10, <1>11, InvParts

LEMMA RequestStepKeeps ==
  ASSUME AdmissionInv, NEW r \in Requests, RequestStep(r) \/ RequestFails(r)
  PROVE  AdmissionInv'
<1>1. CASE RequestFails(r)
  BY <1>1, AnswerKeeps DEF RequestFails
<1>2. CASE RowConflicts(r)
  BY <1>2, AnswerKeeps DEF RowConflicts
<1> QED BY <1>1, <1>2, PassGateKeeps, TakeFeeKeeps, LatestLedgerKeeps, CreateRowKeeps,
           ReuseRowKeeps, FindCreatedKeeps, InsertUtxoKeeps, CreatesPersistedKeeps,
           FetchBalancesKeeps, FindSpentKeeps, UpdateSpentKeeps, SpendsPersistedKeeps,
           AddToMempoolKeeps
        DEF RequestStep

-----------------------------------------------------------------------------
(* What follows admission, and the world.                                  *)

(* The status of a row changes, the rest of it does not.                   *)
LEMMA StatusChanges ==
  ASSUME AdmissionInv, Grows, UNCHANGED <<utxos, req>>,
         NEW b \in queued, NEW s \in {"COMPLETED", "FAILED", "EXPIRED"},
         rows' = [rows EXCEPT ![b].status = s], queued' = queued \ {b}
  PROVE  /\ StoreTypes' /\ RowsSound' /\ UtxosSound'
         /\ req' \in [Requests -> Request] /\ RequestsSound'
<1>0. UNCHANGED utxos /\ UNCHANGED req
  OBVIOUS
<1>1. StoreTypes /\ RowsSound /\ UtxosSound /\ req \in [Requests -> Request]
  BY InvParts
<1>2. b \in Bundles
  BY <1>1 DEF StoreTypes
<1>3. /\ \A c \in Bundles : rows'[c].fee = rows[c].fee /\ rows'[c].ttl = rows[c].ttl
      /\ \A c \in Bundles \ {b} : rows'[c] = rows[c]
  BY <1>1, <1>2 DEF StoreTypes
<1>4. StoreTypes'
  BY <1>0, <1>1, <1>2 DEF StoreTypes
<1>5. rows[b] # NoRow
  BY <1>1 DEF RowsSound
<1>6. \A c \in Bundles : rows'[c] # NoRow => rows[c] # NoRow
  BY <1>3, <1>5
<1>7. \A c \in Bundles : rows[c].fee \in Nat
  BY <1>1 DEF StoreTypes
<1>8. RowsSound'
  <2>1. ASSUME NEW c \in Bundles, rows'[c] # NoRow
        PROVE  /\ rows'[c].fee >= 1 /\ Covered(c, rows[c].fee)'
               /\ \A e \in Expirations(c) : rows'[c].ttl <= e + RpcTimeout
    <3>1. rows[c].fee >= 1 /\ Covered(c, rows[c].fee)
          /\ \A e \in Expirations(c) : rows[c].ttl <= e + RpcTimeout
      BY <1>1, <1>6, <2>1 DEF RowsSound
    <3>2. PICK g \in Nat : g = rows[c].fee
      BY <1>7
    <3>3. Covered(c, g)'
      BY <3>1, <3>2 DEF Grows
    <3> QED BY <1>3, <3>1, <3>2, <3>3 DEF Covered
  <2>2. \A c \in queued' : rows'[c] # NoRow
    BY <1>1 DEF RowsSound, Grows, StoreTypes
  <2> QED BY <2>1, <2>2 DEF RowsSound, Covered
<1>9. UtxosSound'
  BY <1>0, Untouched
<1>10. RequestsSound'
  <2>1. ASSUME NEW r \in Requests PROVE RequestShape(r)' /\ RequestSound(r)'
    BY <1>0, RequestKept
  <2> QED BY <2>1 DEF RequestsSound
<1> QED BY <1>0, <1>1, <1>4, <1>8, <1>9, <1>10

(* A row keeps existing when its status changes.                           *)
LEMMA RowStays ==
  ASSUME AdmissionInv, NEW b \in queued, NEW s \in {"COMPLETED", "FAILED", "EXPIRED"},
         rows' = [rows EXCEPT ![b].status = s]
  PROVE  \A c \in Bundles : rows[c] # NoRow => rows'[c] # NoRow
<1>1. StoreTypes
  BY InvParts
<1>2. b \in Bundles
  BY <1>1 DEF StoreTypes
<1>3. rows'[b].status = s /\ \A c \in Bundles \ {b} : rows'[c] = rows[c]
  BY <1>1, <1>2 DEF StoreTypes
<1>4. NoRow.status = "none"
  BY DEF NoRow
<1> QED BY <1>3, <1>4

LEMMA DropKeeps ==
  ASSUME AdmissionInv, NEW b \in Bundles, Drop(b)
  PROVE  AdmissionInv'
<1>1. /\ b \in queued /\ queued' = queued \ {b}
      /\ rows' = [rows EXCEPT ![b].status = "EXPIRED"]
      /\ UNCHANGED <<utxos, req>> /\ UNCHANGED chain /\ UNCHANGED <<disabled, chain, now, restarts>>
  BY DEF Drop
<1>2. Grows
  <2>1. \A c \in Bundles, fee \in Nat : Covered(c, fee) <=> Covered(c, fee)'
    BY <1>1, CoverKept
  <2>2. \A c \in Bundles : rows[c] # NoRow => rows'[c] # NoRow
    BY <1>1, RowStays
  <2> QED BY <1>1, <2>1, <2>2 DEF Grows
<1>3. /\ StoreTypes' /\ RowsSound' /\ UtxosSound'
      /\ req' \in [Requests -> Request] /\ RequestsSound'
  BY <1>1, <1>2, StatusChanges
<1>4. WorldTypes' /\ ChainSound'
  BY <1>1, Untouched
<1> QED BY <1>3, <1>4, InvParts

(* A bundle that settles spends inputs for good and creates UTXOs that     *)
(* were never created.                                                     *)
LEMMA SettleChain ==
  ASSUME AdmissionInv, NEW b \in Bundles, Settle(b)
  PROVE  /\ balances' \in [Utxos -> Nat] /\ created' \subseteq Utxos /\ created \subseteq created'
         /\ ChainSound'
         /\ \A u \in created : balances'[u] \in {0, balances[u]}
<1>1. /\ Applicable(b)
      /\ created' = created \cup UtxosOf(b, "create")
      /\ balances' = [u \in Utxos |->
           IF u \in UtxosOf(b, "spend") THEN 0
           ELSE IF u \in UtxosOf(b, "create") THEN Creation(b, u).amount
           ELSE balances[u]]
  BY DEF Settle
<1>2. balances \in [Utxos -> Nat] /\ created \subseteq Utxos /\ ChainSound
  BY InvParts DEF WorldTypes
<1>3. UtxosOf(b, "create") \subseteq Utxos
  BY Classified DEF UtxosOf
<1>4. ASSUME NEW u \in UtxosOf(b, "create")
      PROVE  Creation(b, u).amount \in Nat
  <2>1. \E i \in classifyOperations(b)["create"] : operations[b][i].utxo = u
    BY <1>4 DEF UtxosOf
  <2>2. PICK j \in classifyOperations(b)["create"] :
          j = CHOOSE i \in classifyOperations(b)["create"] : operations[b][i].utxo = u
    BY <2>1
  <2> QED BY <2>2, Classified DEF Creation
<1>5. balances' \in [Utxos -> Nat] /\ created' \subseteq Utxos /\ created \subseteq created'
  BY <1>1, <1>2, <1>3, <1>4
<1>6. UtxosOf(b, "create") \cap created = {}
  BY <1>1 DEF Applicable
<1>7. \A u \in created : balances'[u] \in {0, balances[u]}
  BY <1>1, <1>2, <1>6
<1>8. ASSUME NEW u \in Utxos, balances'[u] > 0
      PROVE  u \in created'
  BY <1>1, <1>2, <1>8 DEF ChainSound
<1>9. ChainSound'
  BY <1>8 DEF ChainSound
<1> QED BY <1>5, <1>7, <1>9

(* What was covered stays covered: a balance that sinks is gone for good.  *)
LEMMA SettleCovers ==
  ASSUME AdmissionInv, NEW b \in Bundles, Settle(b)
  PROVE  \A c \in Bundles, fee \in Nat : Covered(c, fee) => Covered(c, fee)'
<1>1. /\ balances' \in [Utxos -> Nat] /\ created' \subseteq Utxos /\ created \subseteq created'
      /\ \A u \in created : balances'[u] \in {0, balances[u]}
  BY SettleChain
<1>2. balances \in [Utxos -> Nat] /\ created \subseteq Utxos /\ ChainSound
  BY InvParts DEF WorldTypes
<1>3. SUFFICES ASSUME NEW c \in Bundles, NEW fee \in Nat, Covered(c, fee)
               PROVE  Covered(c, fee)'
  OBVIOUS
<1>4. UtxosOf(c, "spend") \subseteq Utxos
  BY Classified DEF UtxosOf
<1>5. CASE \E u \in UtxosOf(c, "spend") : u \in created /\ balances[u] = 0
  <2>1. PICK u \in UtxosOf(c, "spend") : u \in created /\ balances[u] = 0
    BY <1>5
  <2>2. u \in created' /\ balances'[u] = 0
    BY <1>1, <2>1
  <2> QED BY <2>2 DEF Covered, UtxosOf
<1>6. CASE \E u \in UtxosOf(c, "spend") : balances'[u] < balances[u]
  <2>1. PICK u \in UtxosOf(c, "spend") : balances'[u] < balances[u]
    BY <1>6
  <2>2. u \in Utxos /\ balances[u] \in Nat /\ balances'[u] \in Nat
    BY <1>1, <1>2, <1>4, <2>1
  <2>3. u \in created
    BY <1>2, <2>1, <2>2 DEF ChainSound
  <2>4. u \in created' /\ balances'[u] = 0
    BY <1>1, <2>1, <2>2, <2>3
  <2> QED BY <2>4 DEF Covered, UtxosOf
<1>7. CASE /\ ~\E u \in UtxosOf(c, "spend") : u \in created /\ balances[u] = 0
           /\ ~\E u \in UtxosOf(c, "spend") : balances'[u] < balances[u]
  <2> DEFINE S == classifyOperations(c)["spend"]
             f == SpendBalances(c)
             g == [i \in S |-> balances'[operations[c][i].utxo]]
  <2>1. \A i \in S : operations[c][i].utxo \in Utxos /\ operations[c][i].utxo \in UtxosOf(c, "spend")
    BY Classified DEF UtxosOf
  <2>2. \A i \in S : f[i] = balances[operations[c][i].utxo] /\ g[i] = balances'[operations[c][i].utxo]
    BY DEF SpendBalances
  <2>3. IsFiniteSet(S)
    BY Classified
  <2>4. \A i \in S : f[i] \in Int /\ g[i] \in Int /\ f[i] <= g[i]
    <3> HIDE DEF S, f, g
    <3>1. ASSUME NEW i \in S PROVE f[i] \in Nat /\ g[i] \in Nat /\ ~(g[i] < f[i])
      BY <1>1, <1>2, <1>7, <2>1, <2>2
    <3> QED BY <3>1
  <2>5. g = SpendBalances(c)' /\ S = classifyOperations(c)["spend"]
    BY DEF SpendBalances, classifyOperations
  <2> HIDE DEF S, f, g
  <2>6. SumFunctionOnSet(f, S) <= SumFunctionOnSet(g, S)
    BY <2>3, <2>4, SumMonotone
  <2>7. Spendable(c) = SumFunctionOnSet(f, S)
    BY DEF Spendable, S, f
  <2>8. Spendable(c)' = SumFunctionOnSet(g, S)
    BY <2>5 DEF Spendable
  <2>9. PICK x \in Nat, y \in Nat : x = Spendable(c) /\ y = Spendable(c)'
    <3>1. Spendable(c) \in Nat
      BY <1>2, SpendableNat
    <3>2. SumFunctionOnSet(g, S) \in Nat
      <4>1. \A i \in S : g[i] \in Nat
        BY <1>1, <2>1, <2>2
      <4> QED BY <2>3, <4>1, SumNat
    <3> QED BY <2>8, <3>1, <3>2
  <2>10. Deposited(c) \in Nat /\ Outflows(c) \in Nat
    BY <1>2, FeeInt
  <2>11. fee <= x + Deposited(c) - Outflows(c)
    BY <1>3, <1>7, <2>9 DEF Covered
  <2>12. fee <= y + Deposited(c) - Outflows(c)
    BY <2>6, <2>7, <2>8, <2>9, <2>10, <2>11
  <2>13. fee <= Spendable(c)' + Deposited(c)' - Outflows(c)'
    BY <2>9, <2>12 DEF Deposited, Outflows, Total, Amounts
  <2> QED BY <2>13 DEF Covered
<1> QED BY <1>5, <1>6, <1>7

LEMMA SettleKeeps ==
  ASSUME AdmissionInv, NEW b \in Bundles, Settle(b)
  PROVE  AdmissionInv'
<1>1. /\ b \in queued /\ queued' = queued \ {b}
      /\ UNCHANGED <<utxos, req>> /\ UNCHANGED disabled /\ UNCHANGED now /\ UNCHANGED restarts
  BY DEF Settle
<1>2. PICK s \in {"COMPLETED", "FAILED"} : rows' = [rows EXCEPT ![b].status = s]
  BY DEF Settle
<1>3. Grows
  <2>1. \A c \in Bundles, fee \in Nat : Covered(c, fee) => Covered(c, fee)'
    BY SettleCovers
  <2>2. \A c \in Bundles : rows[c] # NoRow => rows'[c] # NoRow
    BY <1>1, <1>2, RowStays
  <2> QED BY <1>1, <2>1, <2>2 DEF Grows
<1>4. /\ StoreTypes' /\ RowsSound' /\ UtxosSound'
      /\ req' \in [Requests -> Request] /\ RequestsSound'
  BY <1>1, <1>2, <1>3, StatusChanges
<1>5. WorldTypes' /\ ChainSound'
  <2>1. balances' \in [Utxos -> Nat] /\ created' \subseteq Utxos /\ ChainSound'
    BY SettleChain
  <2>2. WorldTypes
    BY InvParts
  <2> QED BY <1>1, <2>1, <2>2 DEF WorldTypes
<1> QED BY <1>4, <1>5, InvParts

LEMMA RestartKeeps ==
  ASSUME AdmissionInv, Restart
  PROVE  AdmissionInv'
<1>1. /\ restarts < MaxRestarts /\ restarts' = restarts + 1
      /\ req' = [r \in Requests |-> Idle]
      /\ queued' = {b \in Bundles : rows[b].status = "PENDING"}
      /\ UNCHANGED rows /\ UNCHANGED utxos /\ UNCHANGED disabled /\ UNCHANGED chain
      /\ UNCHANGED balances /\ UNCHANGED created /\ UNCHANGED now
  BY DEF Restart, chain
<1>2. StoreTypes /\ WorldTypes /\ RowsSound
  BY InvParts
<1>3. \A b \in Bundles, fee \in Nat : Covered(b, fee) <=> Covered(b, fee)'
  BY <1>1, CoverKept
<1>4. Grows
  BY <1>1, <1>3 DEF Grows
<1>5. \A r \in Requests : req'[r] = Idle
  BY <1>1
<1>6. RequestsSound' /\ req' \in [Requests -> Request]
  <2>1. \A r \in Requests : req'[r] \in Request /\ RequestShape(r)' /\ RequestSound(r)'
    BY <1>5, IdleSound
  <2> QED BY <1>1, <2>1 DEF RequestsSound
<1>7. RowsSound'
  <2>1. \A b \in Bundles : rows[b].fee \in Nat
    BY <1>2 DEF StoreTypes
  <2>2. ASSUME NEW b \in Bundles, rows'[b] # NoRow
        PROVE  /\ rows'[b].fee >= 1 /\ Covered(b, rows[b].fee)'
               /\ \A e \in Expirations(b) : rows'[b].ttl <= e + RpcTimeout
    BY <1>1, <1>2, <1>3, <2>1, <2>2 DEF RowsSound
  <2>3. \A b \in queued' : rows'[b] # NoRow
    BY <1>1 DEF NoRow
  <2> QED BY <1>1, <2>2, <2>3 DEF RowsSound, Covered
<1>8. StoreTypes'
  BY <1>1, <1>2 DEF StoreTypes
<1>9. WorldTypes'
  <2>1. MaxRestarts \in Nat
    BY AdmissionAssumption
  <2>2. restarts' \in 0..MaxRestarts
    BY <1>1, <1>2, <2>1 DEF WorldTypes
  <2> QED BY <1>1, <1>2, <2>2 DEF WorldTypes
<1>10. ChainSound' /\ UtxosSound'
  BY <1>1, <1>4, Untouched
<1> QED BY <1>6, <1>7, <1>8, <1>9, <1>10, InvParts

LEMMA WorldKeeps ==
  ASSUME AdmissionInv, SetChannelState \/ LedgerCloses \/ UNCHANGED vars
  PROVE  AdmissionInv'
<1>1. /\ UNCHANGED rows /\ UNCHANGED utxos /\ UNCHANGED queued /\ UNCHANGED req
      /\ UNCHANGED balances /\ UNCHANGED created /\ UNCHANGED restarts /\ UNCHANGED chain
      /\ UNCHANGED <<rows, queued, chain>>
  BY DEF SetChannelState, LedgerCloses, vars, chain
<1>2. StoreTypes /\ WorldTypes
  BY InvParts
<1>3. disabled' \in BOOLEAN /\ now' \in 1..MaxLedger
  <2>1. disabled \in BOOLEAN /\ now \in 1..MaxLedger /\ MaxLedger \in Nat
    BY <1>2, AdmissionAssumption DEF WorldTypes
  <2>2. CASE SetChannelState
    <3>1. disabled' = ~disabled /\ now' = now
      BY <2>2 DEF SetChannelState
    <3> QED BY <2>1, <3>1
  <2>3. CASE LedgerCloses
    <3>1. disabled' = disabled /\ now < MaxLedger /\ now' = now + 1
      BY <2>3 DEF LedgerCloses
    <3> QED BY <2>1, <3>1
  <2>4. CASE UNCHANGED vars
    BY <2>1, <2>4 DEF vars
  <2> QED BY <2>2, <2>3, <2>4
<1>4. \A b \in Bundles, fee \in Nat : Covered(b, fee) <=> Covered(b, fee)'
  BY <1>1, CoverKept
<1>5. Grows
  BY <1>1, <1>4 DEF Grows
<1>6. RequestsSound' /\ req' \in [Requests -> Request]
  <2>1. \A r \in Requests : RequestShape(r)' /\ RequestSound(r)'
    BY <1>1, <1>5, RequestKept
  <2> QED BY <1>1, <2>1, InvParts DEF RequestsSound
<1>7. WorldTypes' /\ StoreTypes'
  BY <1>1, <1>2, <1>3 DEF WorldTypes, StoreTypes
<1>8. ChainSound' /\ UtxosSound' /\ RowsSound'
  BY <1>1, <1>5, Untouched
<1> QED BY <1>6, <1>7, <1>8, InvParts

-----------------------------------------------------------------------------
LEMMA AdmissionInvariant == Spec => []AdmissionInv
<1>1. Init => AdmissionInv
  <2> SUFFICES ASSUME Init PROVE AdmissionInv
    OBVIOUS
  <2>1. \A b \in Bundles : rows[b] = NoRow
    BY DEF Init
  <2>2. \A u \in Utxos : utxos[u].createdAt = NoBundle /\ utxos[u].spentAt = NoBundle
    BY DEF Init, NoUtxo
  <2>3. NoBundle \notin Bundles /\ MaxLedger \in Nat /\ MaxLedger >= 1 /\ MaxRestarts \in Nat
    BY AdmissionAssumption
  <2>4. StoreTypes
    BY DEF Init, StoreTypes, NoRow, NoUtxo
  <2>5. WorldTypes
    <3>1. 1 \in 1..MaxLedger /\ 0 \in 0..MaxRestarts
      BY <2>3
    <3>2. disabled = FALSE /\ now = 1 /\ restarts = 0 /\ created = {}
          /\ balances = [u \in Utxos |-> 0]
      BY DEF Init
    <3>3. balances \in [Utxos -> Nat]
      BY <3>2
    <3> QED BY <3>1, <3>2, <3>3 DEF WorldTypes
  <2>6. RowsSound
    BY <2>1 DEF Init, RowsSound
  <2>7. UtxosSound
    BY <2>2, <2>3 DEF UtxosSound
  <2>8. ChainSound
    BY DEF Init, ChainSound
  <2>9. Idle \in Request
    BY DEF Idle, Request
  <2>10. req \in [Requests -> Request] /\ \A r \in Requests : req[r] = Idle
    BY <2>9 DEF Init
  <2>11. RequestsSound
    BY <2>10 DEF RequestsSound, RequestShape, RequestSound, Persisting, Idle
  <2> QED BY <2>4, <2>5, <2>6, <2>7, <2>8, <2>10, <2>11, InvParts
<1>2. AdmissionInv /\ [Next]_vars => AdmissionInv'
  BY CheckBundleKeeps, RequestStepKeeps, SettleKeeps, DropKeeps, RestartKeeps, WorldKeeps DEF Next
<1> QED BY <1>1, <1>2, PTL DEF Spec

(* Rows, UTXO records, requests and clock stay in their domains; no fee is *)
(* negative, and a request in a loop of persistCreateOperations or         *)
(* persistSpendOperations is at an operation of its bundle.                *)
THEOREM AdmissionTypeCorrect == Spec => []AdmissionTypeOK
<1>1. AdmissionInv => AdmissionTypeOK
  BY DEF AdmissionInv
<1> QED BY <1>1, AdmissionInvariant, PTL

(* The UTXO records are true and complete, whatever requests for the same  *)
(* or for different bundles race, fail half way or are cut off.            *)
THEOREM UtxoRecordsAreTrue == Spec => []UtxosRecorded
<1>1. ASSUME AdmissionInv PROVE UtxosRecorded
  <2>1. UtxosSound /\ \A r \in Requests : RequestSound(r)
    BY <1>1, InvParts DEF RequestsSound
  <2>2. ASSUME NEW r \in Requests, req[r].pc = "queue", ~req[r].reuse
        PROVE  /\ \A u \in UtxosOf(req[r].bundle, "create") : utxos[u].known
               /\ \A u \in UtxosOf(req[r].bundle, "spend") : utxos[u].spentAt # NoBundle
    BY <2>1, <2>2 DEF RequestSound, UtxosOf, Creates, Spends
  <2> QED BY <2>1, <2>2 DEF UtxosRecorded, UtxosSound
<1> QED BY <1>1, AdmissionInvariant, PTL

(* A queued bundle whose inputs are all there can pay the fee it was       *)
(* queued with, although the fee was computed from balances read before    *)
(* the bundle was stored and other bundles have settled since.             *)
THEOREM QueuedCanPay == Spec => []FeeIsPayable
<1>1. ASSUME AdmissionInv PROVE FeeIsPayable
  <2>1. RowsSound /\ StoreTypes /\ balances \in [Utxos -> Nat]
    BY <1>1, InvParts DEF WorldTypes
  <2>2. SUFFICES ASSUME NEW b \in queued, \A u \in UtxosOf(b, "spend") : balances[u] > 0
                 PROVE  /\ rows[b].fee >= 1
                        /\ Spendable(b) + Deposited(b) - Outflows(b) >= rows[b].fee
    BY DEF FeeIsPayable
  <2>3. b \in Bundles /\ rows[b].fee \in Nat
    BY <2>1 DEF StoreTypes
  <2>4. rows[b].fee >= 1 /\ Covered(b, rows[b].fee)
    BY <2>1, <2>3 DEF RowsSound
  <2>5. UtxosOf(b, "spend") \subseteq Utxos
    BY <2>3, Classified DEF UtxosOf
  <2>6. ~\E u \in UtxosOf(b, "spend") : u \in created /\ balances[u] = 0
    BY <2>1, <2>2, <2>5
  <2>7. rows[b].fee <= Spendable(b) + Deposited(b) - Outflows(b)
    BY <2>4, <2>6 DEF Covered
  <2>8. Spendable(b) \in Nat /\ Deposited(b) \in Nat /\ Outflows(b) \in Nat
    BY <2>1, <2>3, FeeInt, SpendableNat
  <2> QED BY <2>3, <2>4, <2>7, <2>8
<1> QED BY <1>1, AdmissionInvariant, PTL

(* calculateBundleTtl keeps no bundle longer than its earliest signature   *)
(* allows, but for the time the answer of the RPC server may take.         *)
THEOREM TtlsFollowSignatures == Spec => []TtlWithinSignatures
<1>1. AdmissionInv => TtlWithinSignatures
  BY InvParts DEF RowsSound, TtlWithinSignatures
<1> QED BY <1>1, AdmissionInvariant, PTL
=============================================================================
