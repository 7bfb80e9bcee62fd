------------------------------ MODULE PayProofs ------------------------------
(***************************************************************************)
(* Proofs about the pay service of module Pay, for any number of accounts, *)
(* wallets and overlapping requests.  The argument: a request's locks hold *)
(* what it has read (RequestSound), two requests never hold the same row   *)
(* (LocksExclusive), so that every commit adds to one side of the books    *)
(* what it adds to the other (BooksBalance).                               *)
(***************************************************************************)
EXTENDS Pay, FiniteSums, SequenceTheorems

Modes == {"custodial", "self"}
Ops == {"idle", "register", "kyc", "custodial", "self", "debit", "escrow",
        "claim", "credit", "release"}
Account == [name : Usernames, balance : Nat, status : {"ACTIVE", "SUSPENDED"}]
Send == [status : {"PENDING", "COMPLETED"}, amount : Amounts,
         from : Addresses, to : Addresses, mode : Modes]
Escrow == [for : Addresses, sender : Addresses, amount : Amounts,
           status : {"HELD", "CLAIMED"}, mode : Modes, send : Nat]
RequestRecord ==
  [op : Ops, from : Addresses \cup Usernames \cup {""}, to : Addresses \cup {""},
   amount : Amounts \cup {0}, mode : Modes \cup {""}, verified : BOOLEAN,
   locked : SUBSET Deposits, rows : SUBSET Nat, read : Nat, send : Nat]

AccountTypes ==
  /\ accounts \in [Deposits -> {NoAccount} \cup Account]
  /\ kyc \in [Addresses -> {"NONE", "PENDING", "VERIFIED"}]
  /\ funded \in [Deposits -> {0} \cup Funds]
RecordTypes ==
  /\ sends \in Seq(Send)
  /\ escrows \in Seq(Escrow)
  /\ received \in Seq(Nat) /\ Len(received) = Len(escrows)
  /\ \A i \in DOMAIN escrows : escrows[i].send \in DOMAIN sends
RequestTypes == req \in [Requests -> RequestRecord]

(* What a request knows stays true while it waits.                         *)
HasWho(r) ==
  /\ req[r].op = "register" => req[r].from \in Usernames
  /\ req[r].op \in {"kyc", "claim", "credit", "release"} =>
       req[r].to \in Addresses /\ Owns(req[r].to)
  /\ req[r].op \in {"custodial", "self", "debit", "escrow"} =>
       /\ req[r].from \in Addresses /\ req[r].to \in Addresses
       /\ req[r].amount \in Amounts /\ req[r].mode \in Modes
  /\ req[r].op \in {"custodial", "debit"} =>
       req[r].from \in Deposits /\ Exists(req[r].from) /\ req[r].mode = "custodial"
  /\ req[r].op = "self" => req[r].mode = "self"
HasAccount(r) ==
  /\ req[r].op \notin {"debit", "release"} => req[r].locked = {}
  /\ req[r].op = "debit" =>
       /\ req[r].locked = {req[r].from}
       /\ req[r].read = accounts[req[r].from].balance /\ req[r].amount <= req[r].read
       /\ accounts[req[r].from].status # "SUSPENDED"
  /\ req[r].op = "release" =>
       /\ req[r].locked \subseteq {req[r].to}
       /\ \A a \in req[r].locked : Exists(a) /\ req[r].read = accounts[a].balance
       /\ Custodial(req[r].rows) # {} /\ req[r].to \in Deposits => req[r].to \in req[r].locked
HasEscrows(r) ==
  /\ req[r].op \notin {"credit", "release"} => req[r].rows = {}
  /\ req[r].rows \subseteq HeldFor(req[r].to)
HasSend(r) ==
  /\ req[r].op # "escrow" => req[r].send = 0
  /\ req[r].op = "escrow" => /\ req[r].send \in DOMAIN sends
                             /\ \A i \in DOMAIN escrows : escrows[i].send # req[r].send
RequestSound(r) == HasWho(r) /\ HasAccount(r) /\ HasEscrows(r) /\ HasSend(r)

LocksExclusive ==
  \A r, q \in Requests : r # q =>
    /\ req[r].locked \cap req[q].locked = {}
    /\ req[r].rows \cap req[q].rows = {}
    /\ req[r].op = "escrow" /\ req[q].op = "escrow" => req[r].send # req[q].send

(* One escrow for a send, one receipt for a claimed escrow.                *)
EscrowsSound ==
  /\ \A i \in DOMAIN escrows : received[i] = IF escrows[i].status = "CLAIMED" THEN 1 ELSE 0
  /\ \A i, j \in DOMAIN escrows : escrows[i].send = escrows[j].send => i = j

(* Only the owner of an account submits KYC data for its address, so an    *)
(* address that was never registered has neither sent nor received.        *)
KycOwned == \A a \in Addresses : kyc[a] # "NONE" => Owns(a)
BooksBalance ==
  \A a \in Deposits :
    /\ Exists(a) => accounts[a].balance = funded[a] - Spent(a) + Released(a)
    /\ ~Exists(a) => funded[a] = 0 /\ Spent(a) = 0 /\ Released(a) = 0

PayInv ==
  /\ AccountTypes /\ RecordTypes /\ RequestTypes
  /\ \A r \in Requests : RequestSound(r)
  /\ LocksExclusive /\ EscrowsSound /\ KycOwned /\ BooksBalance

-----------------------------------------------------------------------------
(* The sums.                                                               *)
LEMMA AmountsAreNat == \A n \in Amounts : n \in Nat /\ n > 0
BY PayAssumption

LEMMA FundsAreNat == \A n \in {0} \cup Funds : n \in Nat /\ n \in Int
BY PayAssumption

LEMMA CountedFinite == \A n \in Nat : IsFiniteSet(1..n)
BY FS_Interval

LEMMA RecordSums ==
  ASSUME RecordTypes, NEW a
  PROVE  /\ IsFiniteSet(SentFrom(a)) /\ IsFiniteSet(ReceivedBy(a))
         /\ \A i \in DOMAIN sends : SendAmount[i] \in Int
         /\ \A i \in DOMAIN escrows : ReceivedAmount[i] \in Int /\ EscrowAmount[i] \in Int
         /\ Spent(a) \in Int /\ Released(a) \in Int
<1>1. DOMAIN sends = 1..Len(sends) /\ DOMAIN escrows = 1..Len(escrows)
      /\ DOMAIN received = 1..Len(escrows) /\ Len(sends) \in Nat /\ Len(escrows) \in Nat
  BY DEF RecordTypes
<1>2. IsFiniteSet(DOMAIN sends) /\ IsFiniteSet(DOMAIN escrows)
  BY <1>1, FS_Interval
<1>3. SentFrom(a) \subseteq DOMAIN sends /\ ReceivedBy(a) \subseteq DOMAIN escrows
  BY DEF SentFrom, ReceivedBy, Custodial
<1>4. IsFiniteSet(SentFrom(a)) /\ IsFiniteSet(ReceivedBy(a))
  BY <1>2, <1>3, FS_Subset
<1>5. ASSUME NEW i \in DOMAIN sends PROVE SendAmount[i] \in Int
  <2>1. sends[i] \in Send
    BY DEF RecordTypes
  <2> QED BY <2>1, AmountsAreNat DEF SendAmount, Send
<1>6. ASSUME NEW i \in DOMAIN escrows PROVE ReceivedAmount[i] \in Int /\ EscrowAmount[i] \in Int
  <2>1. escrows[i] \in Escrow /\ received[i] \in Nat
    BY <1>1 DEF RecordTypes
  <2>2. escrows[i].amount \in Nat
    BY <2>1, AmountsAreNat DEF Escrow
  <2> QED BY <2>1, <2>2 DEF ReceivedAmount, EscrowAmount
<1>7. Spent(a) \in Int
  <2>1. SumFunctionOnSet(SendAmount, SentFrom(a)) \in Int
    BY <1>2, <1>3, <1>5, SumRemove
  <2> QED BY <2>1 DEF Spent
<1>8. Released(a) \in Int
  <2>1. SumFunctionOnSet(ReceivedAmount, ReceivedBy(a)) \in Int
    BY <1>2, <1>3, <1>6, SumRemove
  <2> QED BY <2>1 DEF Released
<1> QED BY <1>4, <1>5, <1>6, <1>7, <1>8

(* A send that is recorded counts for the account it is from.              *)
LEMMA SendAppended ==
  ASSUME RecordTypes, NEW rec \in Send, sends' = Append(sends, rec), NEW a
  PROVE  /\ sends' \in Seq(Send) /\ DOMAIN sends' = DOMAIN sends \cup {Len(sends) + 1}
         /\ Len(sends) + 1 \notin DOMAIN sends
         /\ Spent(a)' = Spent(a) + IF rec.from = a /\ rec.mode = "custodial" THEN rec.amount ELSE 0
<1> DEFINE n == Len(sends) + 1
           S == SentFrom(a)
<1>1. /\ sends' \in Seq(Send) /\ DOMAIN sends = 1..Len(sends) /\ Len(sends) \in Nat
      /\ DOMAIN sends' = 1..n /\ sends'[n] = rec
      /\ \A i \in 1..Len(sends) : sends'[i] = sends[i]
  BY DEF RecordTypes
<1>2. DOMAIN sends' = DOMAIN sends \cup {n} /\ n \notin DOMAIN sends
  BY <1>1
<1> HIDE DEF n
<1>3. S \subseteq DOMAIN sends /\ IsFiniteSet(S) /\ Spent(a) \in Int
  BY RecordSums DEF SentFrom
<1>4. \A i \in DOMAIN sends : SendAmount[i] \in Int /\ SendAmount'[i] = SendAmount[i]
  BY <1>1, <1>2, RecordSums DEF SendAmount
<1>5. SumFunctionOnSet(SendAmount, S) = SumFunctionOnSet(SendAmount', S)
  <2>1. \A i \in S : SendAmount[i] = SendAmount'[i] /\ SendAmount[i] \in Int
    BY <1>3, <1>4
  <2> QED BY <1>3, <2>1, SumSame
<1>6. CASE rec.from = a /\ rec.mode = "custodial"
  <2>1. SentFrom(a)' = S \cup {n} /\ n \notin S
    BY <1>1, <1>2, <1>6 DEF SentFrom
  <2>2. SendAmount'[n] = rec.amount /\ rec.amount \in Int
    BY <1>1, <1>2, AmountsAreNat DEF SendAmount, Send
  <2>3. \A i \in S \cup {n} : SendAmount'[i] \in Int
    BY <1>3, <1>4, <2>2
  <2>4. SumFunctionOnSet(SendAmount', S \cup {n}) = SumFunctionOnSet(SendAmount', S) + SendAmount'[n]
    BY <1>3, <2>1, <2>3, SumAdd
  <2>5. Spent(a)' = Spent(a) + rec.amount
    BY <1>5, <2>1, <2>2, <2>4 DEF Spent
  <2> QED BY <1>1, <1>2, <1>6, <2>5 DEF n
<1>7. CASE ~(rec.from = a /\ rec.mode = "custodial")
  <2>1. SentFrom(a)' = S
    BY <1>1, <1>2, <1>7 DEF SentFrom
  <2>2. Spent(a)' = Spent(a)
    BY <1>5, <2>1 DEF Spent
  <2> QED BY <1>1, <1>2, <1>3, <1>7, <2>2 DEF n
<1> QED BY <1>6, <1>7

(* An escrow that is created has released nothing.                         *)
LEMMA EscrowAppended ==
  ASSUME RecordTypes, NEW e \in Escrow, escrows' = Append(escrows, e),
         received' = Append(received, 0), NEW a
  PROVE  /\ escrows' \in Seq(Escrow) /\ received' \in Seq(Nat) /\ Len(received') = Len(escrows')
         /\ DOMAIN escrows' = DOMAIN escrows \cup {Len(escrows) + 1}
         /\ Len(escrows) + 1 \notin DOMAIN escrows
         /\ escrows'[Len(escrows) + 1] = e /\ received'[Len(escrows) + 1] = 0
         /\ \A i \in DOMAIN escrows : escrows'[i] = escrows[i] /\ received'[i] = received[i]
         /\ Released(a)' = Released(a)
<1> DEFINE n == Len(escrows) + 1
           S == ReceivedBy(a)
<1>1. /\ escrows' \in Seq(Escrow) /\ received' \in Seq(Nat) /\ Len(received') = Len(escrows')
      /\ DOMAIN escrows = 1..Len(escrows) /\ Len(escrows) \in Nat
      /\ DOMAIN escrows' = 1..n /\ escrows'[n] = e /\ received'[n] = 0
      /\ \A i \in 1..Len(escrows) : escrows'[i] = escrows[i] /\ received'[i] = received[i]
  BY DEF RecordTypes
<1>2. DOMAIN escrows' = DOMAIN escrows \cup {n} /\ n \notin DOMAIN escrows
  BY <1>1
<1>a. n = Len(escrows) + 1
  OBVIOUS
<1> HIDE DEF n
<1>3. S \subseteq DOMAIN escrows /\ IsFiniteSet(S) /\ Released(a) \in Int
  BY RecordSums DEF ReceivedBy, Custodial
<1>4. \A i \in DOMAIN escrows : ReceivedAmount[i] \in Int /\ ReceivedAmount'[i] = ReceivedAmount[i]
  BY <1>1, <1>2, RecordSums DEF ReceivedAmount
<1>5. SumFunctionOnSet(ReceivedAmount, S) = SumFunctionOnSet(ReceivedAmount', S)
  <2>1. \A i \in S : ReceivedAmount[i] = ReceivedAmount'[i] /\ ReceivedAmount[i] \in Int
    BY <1>3, <1>4
  <2> QED BY <1>3, <2>1, SumSame
<1>6. CASE e.for = a /\ e.mode = "custodial"
  <2>1. ReceivedBy(a)' = S \cup {n} /\ n \notin S
    BY <1>1, <1>2, <1>6 DEF ReceivedBy, Custodial
  <2>2. ReceivedAmount'[n] = 0
    <3>1. ReceivedAmount'[n] = 0 * e.amount /\ e.amount \in Int
      BY <1>1, <1>2, AmountsAreNat DEF ReceivedAmount, Escrow
    <3> QED BY <3>1
  <2>3. \A i \in S \cup {n} : ReceivedAmount'[i] \in Int
    BY <1>3, <1>4, <2>2
  <2>4. SumFunctionOnSet(ReceivedAmount', S \cup {n})
          = SumFunctionOnSet(ReceivedAmount', S) + ReceivedAmount'[n]
    BY <1>3, <2>1, <2>3, SumAdd
  <2>5. Released(a)' = Released(a)
    BY <1>3, <1>5, <2>1, <2>2, <2>4 DEF Released
  <2> QED BY <1>1, <1>2, <1>a, <2>5
<1>7. CASE ~(e.for = a /\ e.mode = "custodial")
  <2>1. ReceivedBy(a)' = S
    BY <1>1, <1>2, <1>7 DEF ReceivedBy, Custodial
  <2>2. Released(a)' = Released(a)
    BY <1>5, <2>1 DEF Released
  <2> QED BY <1>1, <1>2, <1>a, <2>2
<1> QED BY <1>6, <1>7

(* A claim releases, to the address it is for, what its custodial escrows  *)
(* hold.                                                                   *)
LEMMA EscrowsReleased ==
  ASSUME RecordTypes, EscrowsSound, NEW to \in Addresses, NEW rows \in SUBSET HeldFor(to),
         escrows' = [i \in DOMAIN escrows |-> IF i \in rows
                       THEN [escrows[i] EXCEPT !.status = "CLAIMED"] ELSE escrows[i]],
         received' = [i \in DOMAIN escrows |-> received[i] + IF i \in rows THEN 1 ELSE 0],
         NEW a
  PROVE  /\ escrows' \in Seq(Escrow) /\ received' \in Seq(Nat) /\ Len(received') = Len(escrows')
         /\ DOMAIN escrows' = DOMAIN escrows
         /\ \A i \in DOMAIN escrows :
              /\ escrows'[i].send = escrows[i].send
              /\ i \notin rows => escrows'[i] = escrows[i] /\ received'[i] = received[i]
              /\ i \in rows => escrows'[i].status = "CLAIMED" /\ received'[i] = 1
         /\ AmountOf(Custodial(rows)) \in Nat
         /\ Released(a)' = Released(a) + IF a = to THEN AmountOf(Custodial(rows)) ELSE 0
<1> DEFINE S == ReceivedBy(a)
           R == Custodial(rows)
<1>1. /\ DOMAIN escrows = 1..Len(escrows) /\ Len(escrows) \in Nat
      /\ DOMAIN received = 1..Len(escrows)
      /\ \A i \in DOMAIN escrows : escrows[i] \in Escrow /\ received[i] \in Nat
  BY DEF RecordTypes
<1>2. \A i \in rows : /\ i \in DOMAIN escrows /\ escrows[i].for = to /\ escrows[i].status = "HELD"
                      /\ received[i] = 0
  BY DEF HeldFor, EscrowsSound
<1>3. ASSUME NEW i \in DOMAIN escrows
      PROVE  /\ escrows'[i] \in Escrow /\ received'[i] \in Nat
             /\ escrows'[i].send = escrows[i].send /\ escrows'[i].mode = escrows[i].mode
             /\ escrows'[i].for = escrows[i].for /\ escrows'[i].amount = escrows[i].amount
             /\ i \notin rows => escrows'[i] = escrows[i] /\ received'[i] = received[i]
             /\ i \in rows => escrows'[i].status = "CLAIMED" /\ received'[i] = 1
  <2>1. escrows[i] \in Escrow /\ received[i] \in Nat
    BY <1>1
  <2>2. CASE i \in rows
    <3>1. escrows'[i] = [escrows[i] EXCEPT !.status = "CLAIMED"] /\ received'[i] = received[i] + 1
      BY <2>2
    <3> QED BY <1>2, <2>1, <2>2, <3>1 DEF Escrow
  <2>3. CASE i \notin rows
    <3>1. escrows'[i] = escrows[i] /\ received'[i] = received[i] + 0
      BY <2>3
    <3> QED BY <2>1, <2>3, <3>1
  <2> QED BY <2>2, <2>3
<1>4. /\ escrows' \in Seq(Escrow) /\ received' \in Seq(Nat) /\ Len(received') = Len(escrows')
      /\ DOMAIN escrows' = DOMAIN escrows
  <2>1. DOMAIN escrows' = 1..Len(escrows) /\ DOMAIN received' = 1..Len(escrows)
    BY <1>1
  <2>2. escrows' = [i \in 1..Len(escrows) |-> escrows'[i]]
        /\ received' = [i \in 1..Len(escrows) |-> received'[i]]
    BY <1>1
  <2>3. escrows' \in Seq(Escrow) /\ received' \in Seq(Nat)
    BY <1>1, <1>3, <2>2, IsASeq
  <2>4. Len(escrows') = Len(escrows) /\ Len(received') = Len(escrows)
    BY <1>1, <2>1, <2>3, LenProperties
  <2> QED BY <1>1, <2>1, <2>3, <2>4
<1>5. R \subseteq DOMAIN escrows /\ IsFiniteSet(R)
  <2>1. R \subseteq 1..Len(escrows)
    BY <1>1, <1>2 DEF Custodial
  <2>2. IsFiniteSet(1..Len(escrows))
    BY <1>1, CountedFinite
  <2>3. IsFiniteSet(R)
    BY <2>1, <2>2, FS_Subset
  <2> QED BY <1>1, <2>1, <2>3
<1>6. \A i \in DOMAIN escrows : EscrowAmount[i] = escrows[i].amount /\ escrows[i].amount \in Nat
  BY <1>1, AmountsAreNat DEF EscrowAmount, Escrow
<1>7. AmountOf(R) \in Nat
  <2>1. SumFunctionOnSet(EscrowAmount, R) \in Nat
    <3>1. \A i \in R : EscrowAmount[i] \in Nat
      BY <1>5, <1>6
    <3> QED BY <1>5, <3>1, SumNat
  <2> QED BY <2>1 DEF AmountOf
<1>8. S \subseteq DOMAIN escrows /\ IsFiniteSet(S) /\ Released(a) \in Int
      /\ \A i \in DOMAIN escrows : ReceivedAmount[i] \in Int
  BY RecordSums DEF ReceivedBy, Custodial
<1>9. ReceivedBy(a)' = S
  BY <1>3, <1>4 DEF ReceivedBy, Custodial
<1>10. ASSUME NEW i \in DOMAIN escrows
       PROVE  /\ i \notin rows => ReceivedAmount'[i] = ReceivedAmount[i]
              /\ i \in rows => ReceivedAmount[i] = 0 /\ ReceivedAmount'[i] = EscrowAmount[i]
  <2>1. /\ ReceivedAmount[i] = received[i] * escrows[i].amount
        /\ ReceivedAmount'[i] = received'[i] * escrows'[i].amount
    BY <1>4 DEF ReceivedAmount
  <2>2. CASE i \in rows
    <3>1. ReceivedAmount[i] = 0 * escrows[i].amount /\ ReceivedAmount'[i] = 1 * escrows[i].amount
      BY <1>2, <1>3, <2>1, <2>2
    <3> QED BY <1>6, <2>2, <3>1
  <2>3. CASE i \notin rows
    BY <1>3, <2>1, <2>3
  <2> QED BY <2>2, <2>3
<1>11. CASE a = to
  <2>1. R \subseteq S /\ R \subseteq rows /\ (S \ R) \cap rows = {} /\ (S \ R) \cup R = S /\ (S \ R) \cap R = {}
    BY <1>2, <1>11 DEF ReceivedBy, Custodial
  <2> DEFINE f == ReceivedAmount
             g == ReceivedAmount'
             rest == S \ R
  <2>2. \A i \in S : f[i] \in Int /\ g[i] \in Int
    BY <1>6, <1>8, <1>10
  <2>3. (\A i \in rest : f[i] = g[i] /\ f[i] \in Int) /\ (\A i \in R : f[i] = 0)
        /\ (\A i \in R : g[i] = EscrowAmount[i] /\ g[i] \in Int)
    BY <1>8, <1>10, <2>1, <2>2
  <2>4. IsFiniteSet(rest)
    BY <1>8, FS_Subset
  <2> HIDE DEF f, g, rest, R, S
  <2>5. SumFunctionOnSet(f, rest) = SumFunctionOnSet(g, rest)
    BY <2>3, <2>4, SumSame
  <2>6. SumFunctionOnSet(f, R) = 0
    BY <1>5, <2>3, SumZero
  <2>7. SumFunctionOnSet(g, R) = SumFunctionOnSet(EscrowAmount, R)
    BY <1>5, <2>3, SumSame
  <2>8. rest \cup R = S /\ rest \cap R = {}
    BY <2>1 DEF rest
  <2>9. /\ SumFunctionOnSet(f, rest \cup R) = SumFunctionOnSet(f, rest) + SumFunctionOnSet(f, R)
        /\ SumFunctionOnSet(g, rest \cup R) = SumFunctionOnSet(g, rest) + SumFunctionOnSet(g, R)
    <3>1. \A i \in rest \cup R : f[i] \in Int /\ g[i] \in Int
      BY <2>2, <2>8
    <3> QED BY <1>5, <2>4, <2>8, <3>1, SumUnion
  <2>10. SumFunctionOnSet(f, rest) \in Int
    <3>1. \A i \in rest : f[i] \in Int
      BY <2>3
    <3> QED BY <2>4, <3>1, SumRemove
  <2>11. SumFunctionOnSet(f, S) = SumFunctionOnSet(f, rest)
    <3>1. SumFunctionOnSet(f, rest \cup R) = SumFunctionOnSet(f, rest)
      BY <2>6, <2>9, <2>10
    <3> QED BY <2>8, <3>1, Zenon
  <2>12. SumFunctionOnSet(g, S) = SumFunctionOnSet(f, rest) + AmountOf(R)
    BY <2>5, <2>7, <2>8, <2>9 DEF AmountOf
  <2>13. Released(a)' = Released(a) + AmountOf(R)
    BY <1>9, <2>11, <2>12 DEF Released, f, g, S
  <2> QED BY <1>3, <1>4, <1>7, <1>11, <2>13 DEF R
<1>12. CASE a # to
  <2>1. \A i \in S : i \notin rows
    BY <1>2, <1>12 DEF ReceivedBy
  <2>2. \A i \in S : ReceivedAmount[i] = ReceivedAmount'[i] /\ ReceivedAmount[i] \in Int
    BY <1>8, <1>10, <2>1
  <2>3. SumFunctionOnSet(ReceivedAmount, S) = SumFunctionOnSet(ReceivedAmount', S)
    BY <1>8, <2>2, SumSame
  <2>4. Released(a)' = Released(a)
    BY <1>9, <2>3 DEF Released
  <2>5. Released(a) + 0 = Released(a)
    BY <1>8
  <2> QED BY <1>3, <1>4, <1>7, <1>12, <2>4, <2>5
<1> QED BY <1>11, <1>12

-----------------------------------------------------------------------------
(* What a step leaves alone.                                               *)
LEMMA Untouched ==
  /\ AccountTypes /\ UNCHANGED <<accounts, kyc, funded>> => AccountTypes'
  /\ RecordTypes /\ UNCHANGED <<sends, escrows, received>> => RecordTypes'
  /\ RequestTypes /\ UNCHANGED req => RequestTypes'
  /\ LocksExclusive /\ UNCHANGED req => LocksExclusive'
  /\ EscrowsSound /\ UNCHANGED <<escrows, received>> => EscrowsSound'
  /\ KycOwned /\ UNCHANGED <<kyc, accounts>> => KycOwned'
  /\ BooksBalance /\ UNCHANGED <<accounts, funded, sends, escrows, received>> => BooksBalance'
  /\ UNCHANGED sends => \A a : Spent(a)' = Spent(a)
  /\ UNCHANGED <<escrows, received>> => \A a : Released(a)' = Released(a)
<1>1. AccountTypes /\ UNCHANGED <<accounts, kyc, funded>> => AccountTypes'
  BY DEF AccountTypes
<1>2. RecordTypes /\ UNCHANGED <<sends, escrows, received>> => RecordTypes'
  BY DEF RecordTypes
<1>3. RequestTypes /\ UNCHANGED req => RequestTypes'
  BY DEF RequestTypes
<1>4. LocksExclusive /\ UNCHANGED req => LocksExclusive'
  BY DEF LocksExclusive
<1>5. EscrowsSound /\ UNCHANGED <<escrows, received>> => EscrowsSound'
  BY DEF EscrowsSound
<1>6. KycOwned /\ UNCHANGED <<kyc, accounts>> => KycOwned'
  BY DEF KycOwned, Owns, Exists
<1>7. UNCHANGED sends => \A a : Spent(a)' = Spent(a)
  BY DEF Spent, SendAmount, SentFrom
<1>8. UNCHANGED <<escrows, received>> => \A a : Released(a)' = Released(a)
  BY DEF Released, ReceivedAmount, ReceivedBy, Custodial
<1>9. BooksBalance /\ UNCHANGED <<accounts, funded, sends, escrows, received>> => BooksBalance'
  BY <1>7, <1>8 DEF BooksBalance, Exists
<1> QED BY <1>1, <1>2, <1>3, <1>4, <1>5, <1>6, <1>7, <1>8, <1>9

(* A request that waits keeps its grounds, if nobody touches the rows it   *)
(* has locked.                                                             *)
LEMMA Waits ==
  ASSUME PayInv, NEW q \in Requests, req'[q] = req[q],
         \A a \in Deposits : Exists(a) => Exists(a)',
         \A a \in req[q].locked : accounts'[a] = accounts[a],
         \A i \in req[q].rows : i \in DOMAIN escrows' /\ escrows'[i] = escrows[i],
         DOMAIN sends \subseteq DOMAIN sends',
         req[q].op = "escrow" => \A i \in DOMAIN escrows' : escrows'[i].send # req[q].send
  PROVE  RequestSound(q)'
<1>1. RequestSound(q) /\ req[q] \in RequestRecord
  BY DEF PayInv, RequestTypes
<1>2. HasWho(q)'
  BY <1>1 DEF RequestSound, HasWho, Owns
<1>3. HasAccount(q)'
  <2>1. Custodial(req[q].rows)' = Custodial(req[q].rows)
    BY DEF Custodial
  <2>2. \A a \in req[q].locked : Exists(a) => Exists(a)'
    BY <1>1 DEF RequestRecord
  <2> QED BY <1>1, <2>1, <2>2 DEF RequestSound, HasAccount
<1>4. HasEscrows(q)'
  BY <1>1 DEF RequestSound, HasEscrows, HeldFor
<1>5. HasSend(q)'
  BY <1>1 DEF RequestSound, HasSend
<1> QED BY <1>2, <1>3, <1>4, <1>5 DEF RequestSound

(* One request moves.                                                      *)
LEMMA RequestMoves ==
  ASSUME PayInv, NEW r \in Requests, NEW v \in RequestRecord, req' = [req EXCEPT ![r] = v],
         RequestSound(r)',
         \A q \in Requests : q # r =>
           /\ v.locked \cap req[q].locked = {} /\ v.rows \cap req[q].rows = {}
           /\ v.op = "escrow" /\ req[q].op = "escrow" => v.send # req[q].send,
         \A a \in Deposits : Exists(a) => Exists(a)',
         \A q \in Requests : q # r =>
           /\ \A a \in req[q].locked : accounts'[a] = accounts[a]
           /\ \A i \in req[q].rows : i \in DOMAIN escrows' /\ escrows'[i] = escrows[i],
         DOMAIN sends \subseteq DOMAIN sends',
         \A q \in Requests : q # r /\ req[q].op = "escrow" =>
           \A i \in DOMAIN escrows' : escrows'[i].send # req[q].send
  PROVE  RequestTypes' /\ (\A q \in Requests : RequestSound(q)') /\ LocksExclusive'
<1>1. req'[r] = v /\ (\A q \in Requests : q # r => req'[q] = req[q]) /\ RequestTypes'
  BY DEF PayInv, RequestTypes
<1>2. ASSUME NEW q \in Requests, q # r
      PROVE  RequestSound(q)'
  BY <1>1, <1>2, Waits
<1>3. LocksExclusive'
  BY <1>1 DEF PayInv, LocksExclusive
<1> QED BY <1>1, <1>2, <1>3

LEMMA IdleRequest ==
  Idle \in RequestRecord /\ Idle.op = "idle" /\ Idle.locked = {} /\ Idle.rows = {} /\ Idle.send = 0
BY DEF Idle, RequestRecord, Ops

LEMMA IdleSound ==
  ASSUME NEW r \in Requests, req'[r] = Idle
  PROVE  RequestSound(r)'
BY IdleRequest DEF RequestSound, HasWho, HasAccount, HasEscrows, HasSend

(* A request is answered, and lets go of what it has locked.               *)
LEMMA RequestAnswered ==
  ASSUME PayInv, NEW r \in Requests, Answer(r),
         \A a \in Deposits : Exists(a) => Exists(a)',
         \A q \in Requests : q # r =>
           /\ \A a \in req[q].locked : accounts'[a] = accounts[a]
           /\ \A i \in req[q].rows : i \in DOMAIN escrows' /\ escrows'[i] = escrows[i],
         DOMAIN sends \subseteq DOMAIN sends',
         \A q \in Requests : q # r /\ req[q].op = "escrow" =>
           \A i \in DOMAIN escrows' : escrows'[i].send # req[q].send
  PROVE  RequestTypes' /\ (\A q \in Requests : RequestSound(q)') /\ LocksExclusive'
<1>1. req' = [req EXCEPT ![r] = Idle] /\ req'[r] = Idle
  BY DEF Answer, PayInv, RequestTypes
<1>2. RequestSound(r)'
  BY <1>1, IdleSound
<1> QED BY <1>1, <1>2, IdleRequest, RequestMoves

(* What the requests hold is there, and what is there is theirs.           *)
LEMMA Grounds ==
  ASSUME PayInv, NEW q \in Requests
  PROVE  /\ req[q] \in RequestRecord
         /\ \A i \in req[q].rows : i \in DOMAIN escrows
         /\ req[q].op = "escrow" => \A i \in DOMAIN escrows : escrows[i].send # req[q].send
BY DEF PayInv, RequestTypes, RequestSound, HasEscrows, HasSend, HeldFor

(* A step of one request that changes no table.                            *)
LEMMA OnlyAnswers ==
  ASSUME PayInv, NEW r \in Requests, Answer(r),
         UNCHANGED <<accounts, kyc, escrowVars, sends, funded>>
  PROVE  PayInv'
<1>1. RequestTypes' /\ (\A q \in Requests : RequestSound(q)') /\ LocksExclusive'
  BY RequestAnswered, Grounds DEF escrowVars, Exists
<1> QED BY <1>1, Untouched DEF PayInv, escrowVars

LEMMA OnlyMoves ==
  ASSUME PayInv, NEW r \in Requests, NEW v \in RequestRecord, req' = [req EXCEPT ![r] = v],
         RequestSound(r)',
         \A q \in Requests : q # r =>
           v.locked \cap req[q].locked = {} /\ v.rows \cap req[q].rows = {},
         v.op # "escrow",
         UNCHANGED <<accounts, kyc, escrowVars, sends, funded>>
  PROVE  PayInv'
<1>1. RequestTypes' /\ (\A q \in Requests : RequestSound(q)') /\ LocksExclusive'
  BY RequestMoves, Grounds DEF escrowVars, Exists
<1> QED BY <1>1, Untouched DEF PayInv, escrowVars

LEMMA InitInv == Init => PayInv
<1> SUFFICES ASSUME Init PROVE PayInv
  OBVIOUS
<1>1. AccountTypes /\ KycOwned
  BY DEF Init, AccountTypes, KycOwned
<1>2. RecordTypes
  BY DEF Init, RecordTypes
<1>3. RequestTypes
  BY IdleRequest DEF Init, RequestTypes
<1>4. ASSUME NEW r \in Requests PROVE RequestSound(r)
  BY IdleRequest DEF Init, RequestSound, HasWho, HasAccount, HasEscrows, HasSend
<1>5. LocksExclusive
  BY IdleRequest DEF Init, LocksExclusive
<1>6. EscrowsSound
  BY DEF Init, EscrowsSound
<1>7. BooksBalance
  <2>1. ASSUME NEW a \in Deposits PROVE Spent(a) = 0 /\ Released(a) = 0
    <3>1. SentFrom(a) = {} /\ ReceivedBy(a) = {}
      BY DEF Init, SentFrom, ReceivedBy, Custodial
    <3> QED BY <3>1, SumEmpty DEF Spent, Released
  <2>2. \A a \in Deposits : ~Exists(a) /\ funded[a] = 0
    BY DEF Init, Exists
  <2> QED BY <2>1, <2>2 DEF BooksBalance
<1> QED BY <1>1, <1>2, <1>3, <1>4, <1>5, <1>6, <1>7 DEF PayInv

(* The first step of a request.                                            *)
LEMMA RequestsStart ==
  ASSUME PayInv, NEW r \in Requests,
         \/ \E name \in Usernames : RegisterChecks(r, name)
         \/ \E a \in Addresses : PostKyc(r, a) \/ ClaimChecksKyc(r, a)
         \/ \E from, to \in Addresses, n \in Amounts, mode \in {"custodial", "self"} :
              SendChecksKyc(r, from, to, n, mode)
  PROVE  PayInv'
<1>1. ASSUME NEW v \in RequestRecord, req' = [req EXCEPT ![r] = v],
             v.locked = {}, v.rows = {}, v.send = 0,
             v.op \notin {"debit", "release", "credit", "escrow"},
             UNCHANGED <<accounts, kyc, escrowVars, sends, funded>>,
             HasWho(r)'
      PROVE  PayInv'
  <2>1. req'[r] = v
    BY <1>1 DEF PayInv, RequestTypes
  <2>2. HasAccount(r)' /\ HasEscrows(r)' /\ HasSend(r)'
    BY <1>1, <2>1 DEF HasAccount, HasEscrows, HasSend
  <2>3. RequestSound(r)'
    BY <1>1, <2>2 DEF RequestSound
  <2>4. \A q \in Requests : q # r =>
           v.locked \cap req[q].locked = {} /\ v.rows \cap req[q].rows = {}
    BY <1>1
  <2> QED BY <1>1, <2>3, <2>4, OnlyMoves
<1>2. ASSUME NEW name \in Usernames, RegisterChecks(r, name)
      PROVE  PayInv'
  <2> DEFINE v == [Idle EXCEPT !.op = "register", !.from = name]
  <2>1. /\ v \in RequestRecord /\ v.locked = {} /\ v.rows = {} /\ v.send = 0
        /\ v.op = "register" /\ v.from = name
    BY DEF Idle, RequestRecord, Ops
  <2>2. req' = [req EXCEPT ![r] = v] /\ UNCHANGED <<accounts, kyc, escrowVars, sends, funded>>
    BY <1>2 DEF RegisterChecks
  <2> HIDE DEF v
  <2>3. req'[r] = v
    BY <2>2 DEF PayInv, RequestTypes
  <2>4. HasWho(r)'
    BY <2>1, <2>3 DEF HasWho
  <2> QED BY <1>1, <2>1, <2>2, <2>4
<1>3. ASSUME NEW a \in Addresses, PostKyc(r, a)
      PROVE  PayInv'
  <2> DEFINE v == [Idle EXCEPT !.op = "kyc", !.to = a, !.verified = kyc[a] # "NONE"]
  <2>1. /\ v \in RequestRecord /\ v.locked = {} /\ v.rows = {} /\ v.send = 0
        /\ v.op = "kyc" /\ v.to = a
    BY DEF Idle, RequestRecord, Ops
  <2>2. req' = [req EXCEPT ![r] = v] /\ UNCHANGED <<accounts, kyc, escrowVars, sends, funded>>
        /\ Owns(a)
    BY <1>3 DEF PostKyc
  <2> HIDE DEF v
  <2>3. req'[r] = v
    BY <2>2 DEF PayInv, RequestTypes
  <2>4. HasWho(r)'
    BY <2>1, <2>2, <2>3 DEF HasWho, Owns, Exists
  <2> QED BY <1>1, <2>1, <2>2, <2>4
<1>4. ASSUME NEW a \in Addresses, ClaimChecksKyc(r, a)
      PROVE  PayInv'
  <2> DEFINE v == [Idle EXCEPT !.op = "claim", !.to = a]
  <2>1. /\ v \in RequestRecord /\ v.locked = {} /\ v.rows = {} /\ v.send = 0
        /\ v.op = "claim" /\ v.to = a
    BY DEF Idle, RequestRecord, Ops
  <2>2. req' = [req EXCEPT ![r] = v] /\ UNCHANGED <<accounts, kyc, escrowVars, sends, funded>>
        /\ kyc[a] = "VERIFIED"
    BY <1>4 DEF ClaimChecksKyc
  <2> HIDE DEF v
  <2>3. req'[r] = v
    BY <2>2 DEF PayInv, RequestTypes
  <2>4. Owns(a)
    BY <2>2 DEF PayInv, KycOwned
  <2>5. HasWho(r)'
    BY <2>1, <2>2, <2>3, <2>4 DEF HasWho, Owns, Exists
  <2> QED BY <1>1, <2>1, <2>2, <2>5
<1>5. ASSUME NEW from \in Addresses, NEW to \in Addresses, NEW n \in Amounts,
             NEW mode \in {"custodial", "self"}, SendChecksKyc(r, from, to, n, mode)
      PROVE  PayInv'
  <2> DEFINE v == [Idle EXCEPT !.op = mode, !.mode = mode, !.from = from, !.to = to, !.amount = n,
                               !.verified = kyc[to] = "VERIFIED"]
  <2>1. /\ v \in RequestRecord /\ v.locked = {} /\ v.rows = {} /\ v.send = 0
        /\ v.op = mode /\ v.to = to /\ v.from = from /\ v.amount = n /\ v.mode = mode
    BY DEF Idle, RequestRecord, Ops, Modes
  <2>2. req' = [req EXCEPT ![r] = v] /\ UNCHANGED <<accounts, kyc, escrowVars, sends, funded>>
        /\ (mode = "custodial" => from \in Deposits /\ Exists(from))
    BY <1>5 DEF SendChecksKyc
  <2> HIDE DEF v
  <2>3. req'[r] = v
    BY <2>2 DEF PayInv, RequestTypes
  <2>4. HasWho(r)'
    BY <2>1, <2>2, <2>3 DEF HasWho, Exists, Modes
  <2> QED BY <1>1, <2>1, <2>2, <2>4
<1> QED BY <1>2, <1>3, <1>4, <1>5

(* An account is registered: it has no history.                            *)
LEMMA Registers ==
  ASSUME PayInv, NEW r \in Requests, RegisterCreates(r)
  PROVE  PayInv'
<1>1. PICK a \in Deposits : ~Exists(a) /\ accounts' = [accounts EXCEPT ![a] =
            [name |-> req[r].from, balance |-> 0, status |-> "ACTIVE"]]
  BY DEF RegisterCreates
<1>2. Answer(r) /\ UNCHANGED <<kyc, escrowVars, sends, funded>> /\ req[r].from \in Usernames
  BY DEF RegisterCreates, PayInv, RequestSound, HasWho
<1> DEFINE new == [name |-> req[r].from, balance |-> 0, status |-> "ACTIVE"]
<1>3. new \in Account /\ new # NoAccount /\ new.balance = 0
  <2>1. new.status = "ACTIVE" /\ NoAccount.status = "none"
    BY DEF NoAccount
  <2> QED BY <1>2, <2>1 DEF Account
<1> HIDE DEF new
<1>4. accounts'[a] = new /\ \A b \in Deposits : b # a => accounts'[b] = accounts[b]
  BY <1>1 DEF PayInv, AccountTypes, new
<1>5. AccountTypes'
  BY <1>1, <1>2, <1>3, <1>4 DEF PayInv, AccountTypes, new
<1>6. \A b \in Deposits : Exists(b) => Exists(b)'
  BY <1>1, <1>3, <1>4 DEF Exists
<1>7. ASSUME NEW q \in Requests, NEW b \in req[q].locked
      PROVE  accounts'[b] = accounts[b]
  <2>1. Exists(b) /\ b \in Deposits
    <3>1. HasAccount(q) /\ HasWho(q) /\ req[q].locked \in SUBSET Deposits
      BY Grounds DEF PayInv, RequestSound, RequestRecord
    <3>2. CASE req[q].op = "debit"
      BY <3>1, <3>2 DEF HasAccount, HasWho
    <3>3. CASE req[q].op = "release"
      BY <3>1, <3>3 DEF HasAccount
    <3>4. CASE req[q].op \notin {"debit", "release"}
      BY <3>1, <3>4 DEF HasAccount
    <3> QED BY <3>1, <3>2, <3>3, <3>4
  <2> QED BY <1>1, <1>4, <2>1
<1>8. RequestTypes' /\ (\A q \in Requests : RequestSound(q)') /\ LocksExclusive'
  BY <1>2, <1>6, <1>7, RequestAnswered, Grounds DEF escrowVars
<1>9. KycOwned'
  BY <1>2, <1>6 DEF PayInv, KycOwned, Owns
<1>10. BooksBalance'
  <2>1. \A b \in Deposits : Spent(b)' = Spent(b) /\ Released(b)' = Released(b) /\ funded'[b] = funded[b]
    BY <1>2, Untouched DEF escrowVars
  <2>2. Exists(a)'
    BY <1>3, <1>4 DEF Exists
  <2>3. accounts'[a].balance = 0 /\ funded[a] = 0 /\ Spent(a) = 0 /\ Released(a) = 0
    BY <1>1, <1>3, <1>4 DEF PayInv, BooksBalance
  <2>4. ASSUME NEW b \in Deposits, b # a
        PROVE  Exists(b)' = Exists(b) /\ accounts'[b].balance = accounts[b].balance
    BY <1>4, <2>4 DEF Exists
  <2> QED BY <2>1, <2>2, <2>3, <2>4 DEF PayInv, BooksBalance
<1> QED BY <1>2, <1>5, <1>8, <1>9, <1>10, Untouched DEF PayInv, escrowVars

(* KYC, deposits and suspension.                                           *)
LEMMA KycSteps ==
  ASSUME PayInv, (\E r \in Requests : KycWrites(r)) \/ (\E a \in Addresses : Verify(a))
  PROVE  PayInv'
<1>1. ASSUME NEW r \in Requests, KycWrites(r)
      PROVE  PayInv'
  <2>1. req[r].to \in Addresses /\ Owns(req[r].to)
    BY <1>1 DEF KycWrites, PayInv, RequestSound, HasWho
  <2>2. Answer(r) /\ UNCHANGED <<accounts, escrowVars, sends, funded>>
        /\ kyc' = [kyc EXCEPT ![req[r].to] = "PENDING"]
    BY <1>1 DEF KycWrites
  <2>3. RequestTypes' /\ (\A q \in Requests : RequestSound(q)') /\ LocksExclusive'
    BY <2>2, RequestAnswered, Grounds DEF escrowVars, Exists
  <2>4. AccountTypes' /\ KycOwned'
    BY <2>1, <2>2 DEF PayInv, AccountTypes, KycOwned, Owns, Exists
  <2> QED BY <2>2, <2>3, <2>4, Untouched DEF PayInv, escrowVars
<1>2. ASSUME NEW a \in Addresses, Verify(a)
      PROVE  PayInv'
  <2>1. kyc[a] = "PENDING" /\ kyc' = [kyc EXCEPT ![a] = "VERIFIED"]
        /\ UNCHANGED <<accounts, escrowVars, sends, req, funded>>
    BY <1>2 DEF Verify
  <2>2. AccountTypes' /\ KycOwned'
    BY <2>1 DEF PayInv, AccountTypes, KycOwned, Owns, Exists
  <2>3. ASSUME NEW q \in Requests PROVE RequestSound(q)'
    BY <2>1, Waits, Grounds DEF Exists, escrowVars
  <2> QED BY <2>1, <2>2, <2>3, Untouched DEF PayInv, escrowVars
<1> QED BY <1>1, <1>2

LEMMA AccountSteps ==
  ASSUME PayInv, NEW a \in Deposits, Suspend(a) \/ \E n \in Funds : Deposit(a, n)
  PROVE  PayInv'
<1>1. Exists(a) /\ AccountFree(a) /\ accounts[a] \in Account
  BY DEF Suspend, Deposit, PayInv, AccountTypes, Exists
<1>2. ASSUME NEW new \in Account, accounts' = [accounts EXCEPT ![a] = new],
             UNCHANGED <<kyc, escrowVars, sends, req>>,
             funded' \in [Deposits -> {0} \cup Funds],
             \A b \in Deposits : b # a => funded'[b] = funded[b],
             new.balance - funded'[a] = accounts[a].balance - funded[a]
      PROVE  PayInv'
  <2>1. accounts'[a] = new /\ \A b \in Deposits : b # a => accounts'[b] = accounts[b]
    BY <1>2 DEF PayInv, AccountTypes
  <2>2. new # NoAccount
    <3>1. new.status \in {"ACTIVE", "SUSPENDED"} /\ NoAccount.status = "none"
      BY DEF Account, NoAccount
    <3> QED BY <3>1
  <2>3. \A b \in Deposits : Exists(b)' <=> Exists(b)
    BY <1>1, <2>1, <2>2 DEF Exists
  <2>4. AccountTypes'
    BY <1>2 DEF PayInv, AccountTypes
  <2>5. ASSUME NEW q \in Requests PROVE RequestSound(q)'
    <3>1. \A b \in req[q].locked : accounts'[b] = accounts[b]
      BY <1>1, <2>1, Grounds DEF AccountFree, RequestRecord
    <3> QED BY <1>2, <2>3, <3>1, Waits, Grounds DEF escrowVars
  <2>6. KycOwned'
    BY <1>2, <2>3 DEF PayInv, KycOwned, Owns
  <2>7. BooksBalance'
    <3>1. ASSUME NEW b \in Deposits
          PROVE  /\ Exists(b)' => accounts'[b].balance = funded'[b] - Spent(b)' + Released(b)'
                 /\ ~Exists(b)' => funded'[b] = 0 /\ Spent(b)' = 0 /\ Released(b)' = 0
      <4>1. Spent(b)' = Spent(b) /\ Released(b)' = Released(b)
        BY <1>2, Untouched DEF escrowVars
      <4>2. CASE b # a
        BY <1>2, <2>1, <2>3, <4>1, <4>2 DEF PayInv, BooksBalance
      <4>3. CASE b = a
        <5>1. accounts[a].balance = funded[a] - Spent(a) + Released(a)
          BY <1>1 DEF PayInv, BooksBalance
        <5>2. Spent(a) \in Int /\ Released(a) \in Int
          BY RecordSums DEF PayInv
        <5>3. funded[a] \in Int /\ funded'[a] \in Int /\ new.balance \in Int /\ accounts[a].balance \in Int
          <6>1. funded[a] \in {0} \cup Funds /\ funded'[a] \in {0} \cup Funds
            BY <1>2 DEF PayInv, AccountTypes
          <6>2. new.balance \in Nat /\ accounts[a].balance \in Nat
            BY <1>1, <1>2 DEF Account
          <6>3. funded[a] \in Int
            BY <6>1, FundsAreNat, Zenon
          <6>4. funded'[a] \in Int
            BY <6>1, FundsAreNat, Zenon
          <6>5. \A k \in Nat : k \in Int
            OBVIOUS
          <6> QED BY <6>2, <6>3, <6>4, <6>5, Zenon
        <5>4. new.balance = funded'[a] - Spent(a) + Released(a)
          <6>1. new.balance - funded'[a] = accounts[a].balance - funded[a]
            BY <1>2
          <6> DEFINE x == new.balance
                     y == accounts[a].balance
                     f == funded[a]
                     g == funded'[a]
          <6>2. y = f - Spent(a) + Released(a) /\ x - g = y - f
                /\ x \in Int /\ y \in Int /\ f \in Int /\ g \in Int
            BY <5>1, <5>3, <6>1
          <6> HIDE DEF x, y, f, g
          <6>3. x = g - Spent(a) + Released(a)
            BY <5>2, <6>2
          <6> QED BY <6>3 DEF x, g
        <5> QED BY <1>1, <2>1, <2>3, <4>1, <4>3, <5>4
      <4> QED BY <4>2, <4>3
    <3> QED BY <3>1 DEF BooksBalance
  <2> QED BY <1>2, <2>4, <2>5, <2>6, <2>7, Untouched DEF PayInv, escrowVars
<1>3. CASE Suspend(a)
  <2> DEFINE new == [accounts[a] EXCEPT !.status = "SUSPENDED"]
  <2>1. new \in Account /\ new.balance = accounts[a].balance
    BY <1>1 DEF Account
  <2>2. accounts' = [accounts EXCEPT ![a] = new] /\ UNCHANGED <<kyc, escrowVars, sends, req, funded>>
    BY <1>3 DEF Suspend, PayInv, AccountTypes
  <2>3. funded' \in [Deposits -> {0} \cup Funds] /\ funded' = funded
    BY <2>2 DEF PayInv, AccountTypes
  <2> HIDE DEF new
  <2> QED BY <1>2, <2>1, <2>2, <2>3
<1>4. ASSUME NEW n \in Funds, Deposit(a, n)
      PROVE  PayInv'
  <2> DEFINE new == [accounts[a] EXCEPT !.balance = @ + n]
  <2>0. n \in Nat /\ accounts[a].balance \in Nat
    BY <1>1, PayAssumption DEF Account
  <2>1. new \in Account /\ new.balance = accounts[a].balance + n
    BY <1>1, <2>0 DEF Account
  <2>2. accounts' = [accounts EXCEPT ![a] = new] /\ UNCHANGED <<kyc, escrowVars, sends, req>>
    BY <1>4 DEF Deposit, PayInv, AccountTypes
  <2>3. /\ funded' \in [Deposits -> {0} \cup Funds] /\ funded'[a] = n /\ funded[a] = 0
        /\ \A b \in Deposits : b # a => funded'[b] = funded[b]
    BY <1>4 DEF Deposit, PayInv, AccountTypes
  <2> HIDE DEF new
  <2>4. new.balance - funded'[a] = accounts[a].balance - funded[a]
    BY <2>0, <2>1, <2>3
  <2> QED BY <1>2, <2>1, <2>2, <2>3, <2>4
<1> QED BY <1>3, <1>4

-----------------------------------------------------------------------------
(* A send is recorded: the request is answered, or goes on to the escrow   *)
(* with a send that no escrow is for.                                      *)
LEMMA SendRecorded ==
  ASSUME PayInv, NEW r \in Requests, Recorded(r), req[r].op \in {"debit", "self"},
         \A a \in Deposits : Exists(a) => Exists(a)',
         \A q \in Requests : q # r => \A a \in req[q].locked : accounts'[a] = accounts[a],
         UNCHANGED <<kyc, escrowVars, funded>>
  PROVE  /\ RequestTypes' /\ (\A q \in Requests : RequestSound(q)') /\ LocksExclusive'
         /\ RecordTypes'
         /\ \A a : Spent(a)' = Spent(a) + IF req[r].from = a /\ req[r].mode = "custodial"
                                          THEN req[r].amount ELSE 0
<1> DEFINE rec == SendRecord(req[r])
           n == Len(sends) + 1
<1>1. /\ req[r].from \in Addresses /\ req[r].to \in Addresses /\ req[r].amount \in Amounts
      /\ req[r].mode \in Modes /\ req[r].rows = {} /\ req[r].send = 0
  BY DEF PayInv, RequestSound, HasWho, HasEscrows, HasSend
<1>2. rec \in Send /\ rec.from = req[r].from /\ rec.mode = req[r].mode /\ rec.amount = req[r].amount
  BY <1>1 DEF SendRecord, Send
<1>3. sends' = Append(sends, rec)
  BY DEF Recorded
<1> HIDE DEF rec
<1>4. /\ sends' \in Seq(Send) /\ DOMAIN sends' = DOMAIN sends \cup {n} /\ n \notin DOMAIN sends
      /\ n \in Nat
  BY <1>2, <1>3, SendAppended DEF PayInv, RecordTypes
<1>5. \A a : Spent(a)' = Spent(a) + IF req[r].from = a /\ req[r].mode = "custodial"
                                    THEN req[r].amount ELSE 0
  BY <1>2, <1>3, SendAppended DEF PayInv
<1>6. RecordTypes'
  BY <1>4 DEF PayInv, RecordTypes, escrowVars
<1>7. \A q \in Requests : q # r =>
           /\ \A a \in req[q].locked : accounts'[a] = accounts[a]
           /\ \A i \in req[q].rows : i \in DOMAIN escrows' /\ escrows'[i] = escrows[i]
  BY Grounds DEF escrowVars
<1>8. \A q \in Requests : q # r /\ req[q].op = "escrow" =>
           \A i \in DOMAIN escrows' : escrows'[i].send # req[q].send
  BY Grounds DEF escrowVars
<1>9. CASE req[r].verified
  <2>1. Answer(r)
    BY <1>9 DEF Recorded, Answer
  <2> QED BY <1>4, <1>5, <1>6, <1>7, <1>8, <2>1, RequestAnswered
<1>10. CASE ~req[r].verified
  <2>1. n \in Nat
    BY <1>4
  <2> DEFINE v == [req[r] EXCEPT !.op = "escrow", !.locked = {}, !.send = n]
  <2>2. req[r] \in RequestRecord
    BY Grounds
  <2>3. /\ v \in RequestRecord /\ v.op = "escrow" /\ v.locked = {} /\ v.send = n /\ v.rows = req[r].rows
        /\ v.from = req[r].from /\ v.to = req[r].to /\ v.amount = req[r].amount /\ v.mode = req[r].mode
    BY <2>1, <2>2 DEF RequestRecord, Ops
  <2>4. req' = [req EXCEPT ![r] = v]
    BY <1>10 DEF Recorded, PayInv, RequestTypes
  <2> HIDE DEF v, n
  <2>5. req'[r] = v
    BY <2>4 DEF PayInv, RequestTypes
  <2>6. \A i \in DOMAIN escrows : escrows[i].send # n
    BY <1>4 DEF PayInv, RecordTypes
  <2>7. RequestSound(r)'
    <3>1. HasWho(r)'
      BY <1>1, <2>3, <2>5 DEF HasWho
    <3>2. HasAccount(r)' /\ HasEscrows(r)'
      BY <1>1, <2>3, <2>5 DEF HasAccount, HasEscrows
    <3>3. HasSend(r)'
      BY <1>4, <2>3, <2>5, <2>6 DEF HasSend, escrowVars
    <3> QED BY <3>1, <3>2, <3>3 DEF RequestSound
  <2>8. \A q \in Requests : q # r =>
           /\ v.locked \cap req[q].locked = {} /\ v.rows \cap req[q].rows = {}
           /\ v.op = "escrow" /\ req[q].op = "escrow" => v.send # req[q].send
    BY <1>1, <1>4, <2>3 DEF PayInv, RequestSound, HasSend
  <2>9. DOMAIN sends \subseteq DOMAIN sends'
    BY <1>4
  <2>10. RequestTypes' /\ (\A q \in Requests : RequestSound(q)') /\ LocksExclusive'
    BY <1>7, <1>8, <2>3, <2>4, <2>7, <2>8, <2>9, RequestMoves
  <2> QED BY <1>5, <1>6, <2>10
<1> QED BY <1>9, <1>10

LEMMA DebitLocksKeeps ==
  ASSUME PayInv, NEW r \in Requests, DebitLocks(r)
  PROVE  PayInv'
<1> DEFINE a == req[r].from
           v == [req[r] EXCEPT !.op = "debit", !.locked = {a}, !.read = accounts[a].balance]
<1>1. /\ req[r].op = "custodial" /\ AccountFree(a) /\ MaySpend(accounts[a], req[r].amount)
      /\ UNCHANGED <<accounts, kyc, escrowVars, sends, funded>>
  BY DEF DebitLocks
<1>2. /\ req[r] \in RequestRecord /\ HasWho(r) /\ a \in Deposits /\ Exists(a)
      /\ req[r].rows = {} /\ req[r].send = 0
  BY <1>1, Grounds DEF PayInv, RequestSound, HasWho, HasEscrows, HasSend
<1>3. accounts[a] \in Account
  BY <1>2 DEF PayInv, AccountTypes, Exists
<1>4. /\ v \in RequestRecord /\ v.op = "debit" /\ v.locked = {a} /\ v.read = accounts[a].balance
      /\ v.rows = {} /\ v.send = 0
      /\ v.from = a /\ v.to = req[r].to /\ v.amount = req[r].amount /\ v.mode = req[r].mode
  BY <1>2, <1>3 DEF RequestRecord, Ops, Account
<1>5. req' = [req EXCEPT ![r] = v]
  BY DEF DebitLocks, PayInv, RequestTypes
<1> HIDE DEF v
<1>6. req'[r] = v
  BY <1>5 DEF PayInv, RequestTypes
<1>7. RequestSound(r)'
  <2>1. HasWho(r)'
    BY <1>1, <1>2, <1>4, <1>6 DEF HasWho, Exists
  <2>2. HasAccount(r)'
    <3>1. accounts[a].status # "SUSPENDED" /\ req[r].amount <= accounts[a].balance
      <4>1. accounts[a].balance >= req[r].amount /\ accounts[a].status # "SUSPENDED"
        BY <1>1 DEF MaySpend
      <4>2. accounts[a].balance \in Nat /\ req[r].amount \in Nat
        BY <1>1, <1>2, <1>3, AmountsAreNat DEF Account, HasWho
      <4> QED BY <4>1, <4>2
    <3> QED BY <1>1, <1>4, <1>6, <3>1 DEF HasAccount
  <2>3. HasEscrows(r)' /\ HasSend(r)'
    BY <1>4, <1>6 DEF HasEscrows, HasSend
  <2> QED BY <2>1, <2>2, <2>3 DEF RequestSound
<1>8. \A q \in Requests : q # r =>
        v.locked \cap req[q].locked = {} /\ v.rows \cap req[q].rows = {}
  BY <1>1, <1>4 DEF AccountFree
<1>9. v.op # "escrow"
  BY <1>4
<1> QED BY <1>1, <1>4, <1>5, <1>7, <1>8, <1>9, OnlyMoves

(* The balance that was read is still the balance, so what the commit      *)
(* writes is what the record says.                                         *)
LEMMA DebitCommitsKeeps ==
  ASSUME PayInv, NEW r \in Requests, DebitCommits(r)
  PROVE  PayInv'
<1> DEFINE a == req[r].from
           new == [accounts[a] EXCEPT !.balance = req[r].read - req[r].amount]
<1>1. /\ req[r].op = "debit" /\ Recorded(r) /\ UNCHANGED <<kyc, escrowVars, funded>>
      /\ HasWho(r) /\ HasAccount(r)
  BY DEF DebitCommits, PayInv, RequestSound
<1>2. /\ a \in Deposits /\ Exists(a) /\ req[r].amount \in Amounts /\ req[r].mode = "custodial"
      /\ req[r].locked = {a} /\ req[r].read = accounts[a].balance /\ req[r].amount <= req[r].read
  BY <1>1 DEF HasWho, HasAccount
<1>3. accounts[a] \in Account /\ accounts[a].balance \in Nat /\ req[r].amount \in Nat
  BY <1>2, AmountsAreNat DEF PayInv, AccountTypes, Exists, Account
<1>4. new \in Account /\ new.balance = accounts[a].balance - req[r].amount
  BY <1>2, <1>3 DEF Account
<1>5. accounts' = [accounts EXCEPT ![a] = new]
  BY DEF DebitCommits, PayInv, AccountTypes
<1> HIDE DEF new
<1>6. accounts'[a] = new /\ \A b \in Deposits : b # a => accounts'[b] = accounts[b]
  BY <1>2, <1>5 DEF PayInv, AccountTypes
<1>7. \A b \in Deposits : Exists(b)' <=> Exists(b)
  <2>1. new # NoAccount
    <3>1. new.status \in {"ACTIVE", "SUSPENDED"} /\ NoAccount.status = "none"
      BY <1>4 DEF Account, NoAccount
    <3> QED BY <3>1
  <2> QED BY <1>2, <1>6, <2>1 DEF Exists
<1>8. AccountTypes'
  BY <1>1, <1>2, <1>4, <1>5 DEF PayInv, AccountTypes
<1>9. ASSUME NEW q \in Requests, q # r, NEW b \in req[q].locked
      PROVE  accounts'[b] = accounts[b]
  <2>1. b # a
    BY <1>2, <1>9 DEF PayInv, LocksExclusive
  <2>2. b \in Deposits
    BY Grounds DEF RequestRecord
  <2> QED BY <1>6, <2>1, <2>2
<1>10. /\ RequestTypes' /\ (\A q \in Requests : RequestSound(q)') /\ LocksExclusive' /\ RecordTypes'
       /\ \A b : Spent(b)' = Spent(b) + IF req[r].from = b /\ req[r].mode = "custodial"
                                        THEN req[r].amount ELSE 0
  BY <1>1, <1>7, <1>9, SendRecorded
<1>11. BooksBalance'
  <2>1. ASSUME NEW b \in Deposits
        PROVE  /\ Exists(b)' => accounts'[b].balance = funded'[b] - Spent(b)' + Released(b)'
               /\ ~Exists(b)' => funded'[b] = 0 /\ Spent(b)' = 0 /\ Released(b)' = 0
    <3>1. Released(b)' = Released(b) /\ funded'[b] = funded[b]
      BY <1>1, Untouched DEF escrowVars
    <3>2. Spent(b) \in Int /\ Released(b) \in Int /\ funded[b] \in Int
      BY RecordSums, FundsAreNat DEF PayInv, AccountTypes
    <3>3. CASE b # a
      <4>1. Spent(b)' = Spent(b)
        BY <1>10, <3>2, <3>3
      <4> QED BY <1>6, <1>7, <3>1, <3>3, <4>1 DEF PayInv, BooksBalance
    <3>4. CASE b = a
      <4>1. Spent(b)' = Spent(b) + req[r].amount
        BY <1>2, <1>10, <3>4
      <4>2. accounts[a].balance = funded[a] - Spent(a) + Released(a)
        BY <1>2 DEF PayInv, BooksBalance
      <4>3. accounts'[a].balance = accounts[a].balance - req[r].amount
        BY <1>4, <1>6
      <4>4. \A x, y, f, s, t, m \in Int : y = f - s + t /\ x = y - m => x = f - (s + m) + t
        OBVIOUS
      <4>5. accounts'[a].balance \in Int
        BY <1>3, <4>3
      <4>6. accounts'[a].balance = funded[a] - (Spent(a) + req[r].amount) + Released(a)
        BY <1>3, <3>2, <3>4, <4>2, <4>3, <4>4, <4>5
      <4> QED BY <1>2, <1>7, <3>1, <3>4, <4>1, <4>6
    <3> QED BY <3>3, <3>4
  <2> QED BY <2>1 DEF BooksBalance
<1>12. KycOwned'
  BY <1>1, <1>7 DEF PayInv, KycOwned, Owns
<1> QED BY <1>1, <1>8, <1>10, <1>11, <1>12, Untouched DEF PayInv, escrowVars

LEMMA SelfSendKeeps ==
  ASSUME PayInv, NEW r \in Requests, SelfSendRecords(r)
  PROVE  PayInv'
<1>1. /\ req[r].op = "self" /\ Recorded(r) /\ UNCHANGED <<accounts, kyc, escrowVars, funded>>
      /\ req[r].mode = "self"
  BY DEF SelfSendRecords, PayInv, RequestSound, HasWho
<1>2. /\ RequestTypes' /\ (\A q \in Requests : RequestSound(q)') /\ LocksExclusive' /\ RecordTypes'
      /\ \A b : Spent(b)' = Spent(b) + IF req[r].from = b /\ req[r].mode = "custodial"
                                       THEN req[r].amount ELSE 0
  BY <1>1, SendRecorded DEF Exists
<1>3. \A b \in Deposits : Spent(b)' = Spent(b) /\ Released(b)' = Released(b)
  BY <1>1, <1>2, RecordSums, Untouched DEF PayInv, escrowVars
<1>4. BooksBalance'
  BY <1>1, <1>3 DEF PayInv, BooksBalance, Exists
<1> QED BY <1>1, <1>2, <1>4, Untouched DEF PayInv, escrowVars

LEMMA CreateEscrowKeeps ==
  ASSUME PayInv, NEW r \in Requests, createEscrow(r)
  PROVE  PayInv'
<1> DEFINE e == [for |-> req[r].to, sender |-> req[r].from, amount |-> req[r].amount,
                 status |-> "HELD", mode |-> req[r].mode, send |-> req[r].send]
           n == Len(escrows) + 1
<1>1. /\ req[r].op = "escrow" /\ req[r] \in RequestRecord /\ HasWho(r) /\ HasSend(r)
      /\ Answer(r) /\ UNCHANGED <<accounts, kyc, sends, funded>>
  BY Grounds DEF createEscrow, PayInv, RequestSound
<1>2. e \in Escrow /\ e.send = req[r].send /\ e.status = "HELD"
  BY <1>1 DEF HasWho, Escrow, RequestRecord
<1>3. escrows' = Append(escrows, e) /\ received' = Append(received, 0)
  BY DEF createEscrow
<1>a. RecordTypes
  BY DEF PayInv
<1> HIDE DEF e
<1>4. /\ escrows' \in Seq(Escrow) /\ received' \in Seq(Nat) /\ Len(received') = Len(escrows')
      /\ DOMAIN escrows' = DOMAIN escrows \cup {n} /\ n \notin DOMAIN escrows
      /\ escrows'[n] = e /\ received'[n] = 0
      /\ \A i \in DOMAIN escrows : escrows'[i] = escrows[i] /\ received'[i] = received[i]
      /\ \A a : Released(a)' = Released(a)
  BY <1>a, <1>2, <1>3, EscrowAppended
<1> HIDE DEF n
<1>5. RecordTypes'
  BY <1>1, <1>2, <1>4 DEF RecordTypes, PayInv, HasSend
<1>6. \A q \in Requests : q # r =>
        /\ \A a \in req[q].locked : accounts'[a] = accounts[a]
        /\ \A i \in req[q].rows : i \in DOMAIN escrows' /\ escrows'[i] = escrows[i]
  BY <1>1, <1>4, Grounds
<1>7. \A q \in Requests : q # r /\ req[q].op = "escrow" =>
        \A i \in DOMAIN escrows' : escrows'[i].send # req[q].send
  BY <1>1, <1>2, <1>4, Grounds DEF PayInv, LocksExclusive
<1>8. RequestTypes' /\ (\A q \in Requests : RequestSound(q)') /\ LocksExclusive'
  BY <1>1, <1>6, <1>7, RequestAnswered DEF Exists
<1>9. EscrowsSound'
  BY <1>1, <1>2, <1>4 DEF PayInv, EscrowsSound, HasSend
<1>10. BooksBalance'
  <2>1. \A a \in Deposits : Spent(a)' = Spent(a) /\ Released(a)' = Released(a)
    BY <1>1, <1>4, Untouched
  <2> QED BY <1>1, <2>1 DEF PayInv, BooksBalance, Exists
<1> QED BY <1>1, <1>5, <1>8, <1>9, <1>10, Untouched DEF PayInv

-----------------------------------------------------------------------------
LEMMA ClaimLocksKeeps ==
  ASSUME PayInv, NEW r \in Requests, ClaimLocks(r)
  PROVE  PayInv'
<1> DEFINE H == HeldFor(req[r].to)
<1>1. /\ req[r].op = "claim" /\ EscrowsFree(H)
      /\ UNCHANGED <<accounts, kyc, escrowVars, sends, funded>>
  BY DEF ClaimLocks
<1>2. CASE H = {}
  <2>1. Answer(r)
    BY <1>2 DEF ClaimLocks, Answer
  <2> QED BY <1>1, <2>1, OnlyAnswers
<1>3. CASE H # {}
  <2> DEFINE v == [req[r] EXCEPT !.op = "credit", !.rows = H]
  <2>1. /\ req[r] \in RequestRecord /\ HasWho(r) /\ req[r].locked = {} /\ req[r].send = 0
    BY <1>1, Grounds DEF PayInv, RequestSound, HasAccount, HasSend
  <2>2. H \in SUBSET Nat
    BY DEF HeldFor, PayInv, RecordTypes
  <2>3. /\ v \in RequestRecord /\ v.op = "credit" /\ v.rows = H /\ v.locked = {} /\ v.send = 0
        /\ v.to = req[r].to
    BY <2>1, <2>2 DEF RequestRecord, Ops
  <2>4. req' = [req EXCEPT ![r] = v]
    BY <1>3 DEF ClaimLocks, PayInv, RequestTypes
  <2> HIDE DEF v
  <2>5. req'[r] = v
    BY <2>4 DEF PayInv, RequestTypes
  <2>6. RequestSound(r)'
    <3>1. HasWho(r)'
      BY <1>1, <2>1, <2>3, <2>5 DEF HasWho, Owns, Exists
    <3>2. HasAccount(r)' /\ HasSend(r)'
      BY <2>3, <2>5 DEF HasAccount, HasSend
    <3>3. HasEscrows(r)'
      BY <1>1, <2>3, <2>5 DEF HasEscrows, HeldFor, escrowVars
    <3> QED BY <3>1, <3>2, <3>3 DEF RequestSound
  <2>7. \A q \in Requests : q # r =>
          v.locked \cap req[q].locked = {} /\ v.rows \cap req[q].rows = {}
    BY <1>1, <2>3 DEF EscrowsFree
  <2>8. v.op # "escrow"
    BY <2>3
  <2> QED BY <1>1, <2>3, <2>4, <2>6, <2>7, <2>8, OnlyMoves
<1> QED BY <1>2, <1>3

LEMMA ClaimLocksAccountKeeps ==
  ASSUME PayInv, NEW r \in Requests, ClaimLocksAccount(r)
  PROVE  PayInv'
<1> DEFINE C == Credited(req[r])
           b == IF C = {} THEN 0 ELSE accounts[req[r].to].balance
           v == [req[r] EXCEPT !.op = "release", !.locked = C, !.read = b]
<1>1. /\ req[r].op = "credit" /\ (\A a \in C : AccountFree(a))
      /\ UNCHANGED <<accounts, kyc, escrowVars, sends, funded>>
  BY DEF ClaimLocksAccount
<1>2. /\ req[r] \in RequestRecord /\ HasWho(r) /\ HasEscrows(r) /\ req[r].send = 0
      /\ Owns(req[r].to)
  BY <1>1, Grounds DEF PayInv, RequestSound, HasWho, HasSend
<1>3. /\ C \subseteq Deposits /\ C \subseteq {req[r].to}
      /\ \A a \in C : Exists(a)
      /\ Custodial(req[r].rows) # {} /\ req[r].to \in Deposits => req[r].to \in C
  BY <1>2 DEF Credited, Owns
<1>4. b \in Nat /\ \A a \in C : b = accounts[a].balance
  <2>1. \A a \in C : accounts[a].balance \in Nat
    BY <1>3 DEF PayInv, AccountTypes, Exists, Account
  <2>2. C # {} => b = accounts[req[r].to].balance /\ req[r].to \in C
    BY <1>3
  <2>3. C = {} => b = 0
    OBVIOUS
  <2> HIDE DEF b, C
  <2> QED BY <1>3, <2>1, <2>2, <2>3
<1> HIDE DEF b, C
<1>5. /\ v \in RequestRecord /\ v.op = "release" /\ v.locked = C /\ v.read = b /\ v.send = 0
      /\ v.rows = req[r].rows /\ v.to = req[r].to
  BY <1>2, <1>3, <1>4 DEF RequestRecord, Ops
<1>6. req' = [req EXCEPT ![r] = v]
  BY DEF ClaimLocksAccount, PayInv, RequestTypes, b, C
<1> HIDE DEF v
<1>7. req'[r] = v
  BY <1>6 DEF PayInv, RequestTypes
<1>8. RequestSound(r)'
  <2>1. HasWho(r)'
    BY <1>1, <1>2, <1>5, <1>7 DEF HasWho, Owns, Exists
  <2>2. HasAccount(r)'
    BY <1>1, <1>3, <1>4, <1>5, <1>7 DEF HasAccount, Exists, Custodial, escrowVars
  <2>3. HasEscrows(r)' /\ HasSend(r)'
    BY <1>1, <1>2, <1>5, <1>7 DEF HasEscrows, HeldFor, HasSend, escrowVars
  <2> QED BY <2>1, <2>2, <2>3 DEF RequestSound
<1>9. \A q \in Requests : q # r =>
        v.locked \cap req[q].locked = {} /\ v.rows \cap req[q].rows = {}
  BY <1>1, <1>5 DEF AccountFree, PayInv, LocksExclusive
<1>10. v.op # "escrow"
  BY <1>5
<1> QED BY <1>1, <1>5, <1>6, <1>8, <1>9, <1>10, OnlyMoves

(* The claim credits the account with what the records say it received,    *)
(* and nobody else has the escrows or the account.                         *)
LEMMA ClaimCommitsKeeps ==
  ASSUME PayInv, NEW r \in Requests, ClaimCommits(r)
  PROVE  PayInv'
<1> DEFINE rows == req[r].rows
           to == req[r].to
           L == req[r].locked
           gain == AmountOf(Custodial(rows))
<1>1. /\ req[r].op = "release" /\ Answer(r) /\ UNCHANGED <<kyc, sends, funded>>
      /\ HasWho(r) /\ HasAccount(r) /\ HasEscrows(r) /\ req[r] \in RequestRecord
  BY Grounds DEF ClaimCommits, PayInv, RequestSound
<1>2. /\ to \in Addresses /\ Owns(to) /\ rows \in SUBSET HeldFor(to)
      /\ L \subseteq {to} /\ L \subseteq Deposits
      /\ \A a \in L : Exists(a) /\ req[r].read = accounts[a].balance
      /\ Custodial(rows) # {} /\ to \in Deposits => to \in L
  BY <1>1 DEF HasWho, HasAccount, HasEscrows, RequestRecord
<1>3. /\ accounts' = [a \in Deposits |-> IF a \in L
            THEN [accounts[a] EXCEPT !.balance = req[r].read + gain] ELSE accounts[a]]
      /\ escrows' = [i \in DOMAIN escrows |-> IF i \in rows
                   THEN [escrows[i] EXCEPT !.status = "CLAIMED"] ELSE escrows[i]]
      /\ received' = [i \in DOMAIN escrows |-> received[i] + IF i \in rows THEN 1 ELSE 0]
  BY DEF ClaimCommits
<1>a. RecordTypes /\ EscrowsSound
  BY DEF PayInv
<1> HIDE DEF rows, to, L
<1>4. /\ escrows' \in Seq(Escrow) /\ received' \in Seq(Nat) /\ Len(received') = Len(escrows')
      /\ DOMAIN escrows' = DOMAIN escrows
      /\ \A i \in DOMAIN escrows :
           /\ escrows'[i].send = escrows[i].send
           /\ i \notin rows => escrows'[i] = escrows[i] /\ received'[i] = received[i]
           /\ i \in rows => escrows'[i].status = "CLAIMED" /\ received'[i] = 1
      /\ gain \in Nat
      /\ \A a : Released(a)' = Released(a) + IF a = to THEN gain ELSE 0
  BY <1>a, <1>2, <1>3, EscrowsReleased
<1>5. Custodial(rows) = {} => gain = 0
  BY SumEmpty DEF AmountOf
<1> HIDE DEF gain
<1>6. ASSUME NEW a \in Deposits
      PROVE  /\ accounts'[a] \in {NoAccount} \cup Account
             /\ Exists(a)' <=> Exists(a)
             /\ a \notin L => accounts'[a] = accounts[a]
             /\ a \in L => accounts'[a].balance = accounts[a].balance + gain
                           /\ accounts[a].balance \in Nat
  <2>1. CASE a \in L
    <3>1. accounts[a] \in Account /\ accounts[a].balance \in Nat
      BY <1>2, <2>1 DEF PayInv, AccountTypes, Exists, Account
    <3>2. accounts'[a] = [accounts[a] EXCEPT !.balance = accounts[a].balance + gain]
      BY <1>2, <1>3, <2>1
    <3>3. accounts'[a] \in Account /\ accounts'[a].balance = accounts[a].balance + gain
      <4>1. accounts[a].balance + gain \in Nat
        BY <1>4, <3>1
      <4> QED BY <3>1, <3>2, <4>1 DEF Account
    <3>4. \A x \in Account : x # NoAccount
      <4>1. \A x \in Account : x.status \in {"ACTIVE", "SUSPENDED"}
        BY DEF Account
      <4>2. NoAccount.status = "none"
        BY DEF NoAccount
      <4> QED BY <4>1, <4>2
    <3> QED BY <2>1, <3>1, <3>3, <3>4 DEF Exists
  <2>2. CASE a \notin L
    <3>1. accounts'[a] = accounts[a]
      BY <1>3, <2>2
    <3> QED BY <2>2, <3>1 DEF PayInv, AccountTypes, Exists
  <2> QED BY <2>1, <2>2
<1>7. AccountTypes'
  <2>1. accounts' \in [Deposits -> {NoAccount} \cup Account]
    BY <1>3, <1>6
  <2> QED BY <1>1, <2>1 DEF PayInv, AccountTypes
<1>8. RecordTypes'
  BY <1>1, <1>4, <1>a DEF RecordTypes
<1>9. ASSUME NEW q \in Requests, q # r
      PROVE  /\ \A a \in req[q].locked : accounts'[a] = accounts[a]
             /\ \A i \in req[q].rows : i \in DOMAIN escrows' /\ escrows'[i] = escrows[i]
  <2>1. req[q].locked \cap L = {} /\ req[q].rows \cap rows = {}
    BY <1>9 DEF PayInv, LocksExclusive, L, rows
  <2>2. req[q].locked \subseteq Deposits /\ \A i \in req[q].rows : i \in DOMAIN escrows
    BY Grounds DEF RequestRecord
  <2> QED BY <1>4, <1>6, <2>1, <2>2
<1>10. \A q \in Requests : q # r /\ req[q].op = "escrow" =>
         \A i \in DOMAIN escrows' : escrows'[i].send # req[q].send
  BY <1>4, Grounds
<1>11. RequestTypes' /\ (\A q \in Requests : RequestSound(q)') /\ LocksExclusive'
  BY <1>1, <1>6, <1>9, <1>10, RequestAnswered
<1>12. EscrowsSound'
  BY <1>4, <1>a DEF EscrowsSound
<1>13. KycOwned'
  BY <1>1, <1>6 DEF PayInv, KycOwned, Owns
<1>14. BooksBalance'
  <2>1. ASSUME NEW a \in Deposits
        PROVE  /\ Exists(a)' => accounts'[a].balance = funded'[a] - Spent(a)' + Released(a)'
               /\ ~Exists(a)' => funded'[a] = 0 /\ Spent(a)' = 0 /\ Released(a)' = 0
    <3>1. Spent(a)' = Spent(a) /\ funded'[a] = funded[a]
      BY <1>1, Untouched
    <3>2. Spent(a) \in Int /\ Released(a) \in Int /\ funded[a] \in Int
      BY RecordSums, FundsAreNat DEF PayInv, AccountTypes
    <3>3. CASE a \in L
      <4>1. a = to /\ Exists(a)
        BY <1>2, <3>3
      <4>2. Released(a)' = Released(a) + gain
        BY <1>4, <4>1
      <4>3. accounts[a].balance = funded[a] - Spent(a) + Released(a)
        BY <4>1 DEF PayInv, BooksBalance
      <4>4. accounts'[a].balance = accounts[a].balance + gain
        BY <1>6, <3>3
      <4> DEFINE x == accounts[a].balance
                 y == accounts'[a].balance
                 f == funded[a]
      <4>5. x = f - Spent(a) + Released(a) /\ y = x + gain /\ f \in Int /\ gain \in Int
        BY <1>4, <3>2, <4>3, <4>4
      <4> HIDE DEF x, y, f
      <4>6. y = f - Spent(a) + (Released(a) + gain)
        BY <3>2, <4>5
      <4> QED BY <1>6, <3>1, <4>1, <4>2, <4>6 DEF y, f
    <3>4. CASE a \notin L
      <4>1. Released(a)' = Released(a)
        <5>1. CASE a = to
          <6>1. gain = 0
            BY <1>2, <1>5, <3>4, <5>1
          <6> QED BY <1>4, <3>2, <5>1, <6>1
        <5>2. CASE a # to
          BY <1>4, <3>2, <5>2
        <5> QED BY <5>1, <5>2
      <4> QED BY <1>6, <3>1, <3>4, <4>1 DEF PayInv, BooksBalance
    <3> QED BY <3>3, <3>4
  <2> QED BY <2>1 DEF BooksBalance
<1> QED BY <1>7, <1>8, <1>11, <1>12, <1>13, <1>14 DEF PayInv

-----------------------------------------------------------------------------
LEMMA PayStep == PayInv /\ [Next]_vars => PayInv'
<1> SUFFICES ASSUME PayInv, [Next]_vars PROVE PayInv'
  OBVIOUS
<1>1. ASSUME NEW r \in Requests, RequestStep(r) \/ RequestFails(r)
      PROVE  PayInv'
  <2>1. CASE RegisterConflicts(r) \/ KycConflicts(r) \/ DebitRejected(r) \/ RequestFails(r)
    BY <2>1, OnlyAnswers DEF RegisterConflicts, KycConflicts, DebitRejected, RequestFails
  <2> QED BY <1>1, <2>1, Registers, KycSteps, DebitLocksKeeps, DebitCommitsKeeps, SelfSendKeeps,
             CreateEscrowKeeps, ClaimLocksKeeps, ClaimLocksAccountKeeps, ClaimCommitsKeeps
          DEF RequestStep
<1>2. CASE UNCHANGED vars
  <2>1. ASSUME NEW q \in Requests PROVE RequestSound(q)'
    BY <1>2, Waits, Grounds DEF vars, escrowVars, Exists
  <2> QED BY <1>2, <2>1, Untouched DEF PayInv, vars, escrowVars
<1> QED BY <1>1, <1>2, RequestsStart, KycSteps, AccountSteps DEF Next

LEMMA PayInvariant == Spec => []PayInv
BY InitInv, PayStep, PTL DEF Spec

(* All variables keep their types; above all, no balance is ever negative, *)
(* though a send computes the new balance from the one it read.            *)
THEOREM PayTypeCorrect == Spec => []PayTypeOK
<1>1. PayInv => PayTypeOK
  <2> SUFFICES ASSUME PayInv PROVE PayTypeOK
    OBVIOUS
  <2>1. AccountTypes /\ RecordTypes
    BY DEF PayInv
  <2>2. escrows \in Seq([for : Addresses, sender : Addresses, amount : Amounts,
                         status : {"HELD", "CLAIMED"}, mode : {"custodial", "self"},
                         send : DOMAIN sends])
    <3> DEFINE E == [for : Addresses, sender : Addresses, amount : Amounts,
                     status : {"HELD", "CLAIMED"}, mode : {"custodial", "self"},
                     send : DOMAIN sends]
    <3>1. \A i \in DOMAIN escrows : escrows[i] \in Escrow /\ escrows[i].send \in DOMAIN sends
      BY <2>1 DEF RecordTypes
    <3>2. \A e \in Escrow : e.send \in DOMAIN sends => e \in E
      BY DEF Escrow, Modes
    <3> HIDE DEF E
    <3>3. /\ DOMAIN escrows = 1..Len(escrows) /\ Len(escrows) \in Nat
          /\ escrows = [i \in 1..Len(escrows) |-> escrows[i]]
      BY <2>1, LenProperties DEF RecordTypes
    <3>4. \A i \in 1..Len(escrows) : escrows[i] \in E
      BY <3>1, <3>2, <3>3
    <3>5. [i \in 1..Len(escrows) |-> escrows[i]] \in Seq(E)
      BY <3>3, <3>4, IsASeq
    <3> QED BY <3>3, <3>5 DEF E
  <2>3. received \in [DOMAIN escrows -> Nat]
    BY <2>1 DEF RecordTypes
  <2>4. ASSUME NEW r \in Requests
        PROVE  /\ req[r].op \in Ops
               /\ req[r].rows \subseteq DOMAIN escrows /\ req[r].locked \subseteq Deposits
               /\ req[r].send \in {0} \cup DOMAIN sends /\ req[r].read \in Nat
    <3>1. req[r] \in RequestRecord /\ \A i \in req[r].rows : i \in DOMAIN escrows
      BY Grounds
    <3>2. req[r].send \in {0} \cup DOMAIN sends
      BY DEF PayInv, RequestSound, HasSend
    <3> QED BY <3>1, <3>2 DEF RequestRecord
  <2>5. DOMAIN req = Requests
    BY DEF PayInv, RequestTypes
  <2> QED BY <2>1, <2>2, <2>3, <2>4, <2>5
          DEF PayTypeOK, AccountTypes, RecordTypes, Account, Send, Modes, Ops
<1> QED BY PayInvariant, <1>1, PTL

(* Every balance is what was deposited, less the recorded sends, plus the  *)
(* recorded releases, for any number of overlapping sends and claims: the  *)
(* row locks keep what a transaction has read true until it commits.       *)
THEOREM BalancesReconcile == Spec => []AccountsReconcile
<1>1. PayInv => AccountsReconcile
  BY DEF PayInv, BooksBalance, AccountsReconcile
<1> QED BY PayInvariant, <1>1, PTL

(* An escrow is released once, a send is held in one escrow at most, and   *)
(* the summary shows the receiver what it has not received.                *)
THEOREM EscrowsClaimedOnce == Spec => []ClaimedOnce
<1>1. PayInv => ClaimedOnce
  <2> SUFFICES ASSUME PayInv PROVE ClaimedOnce
    OBVIOUS
  <2>1. EscrowsSound /\ \A i \in DOMAIN escrows : escrows[i].status \in {"HELD", "CLAIMED"}
    <3>1. \A i \in DOMAIN escrows : escrows[i] \in Escrow
      BY DEF PayInv, RecordTypes
    <3> QED BY <3>1 DEF PayInv, Escrow
  <2>2. ASSUME NEW a \in Addresses
        PROVE  HeldFor(a) = {i \in DOMAIN escrows : escrows[i].for = a /\ received[i] = 0}
    BY <2>1 DEF HeldFor, EscrowsSound
  <2> QED BY <2>1, <2>2 DEF ClaimedOnce, EscrowsSound, getEscrowSummary
<1> QED BY PayInvariant, <1>1, PTL

(* A suspended account spends nothing: a send that checked the status has  *)
(* the row locked until its debit is committed.                            *)
THEOREM SuspensionStopsSpending == Spec => SuspendedCannotSpend
<1> DEFINE Step == \A a \in Deposits : accounts[a].status = "SUSPENDED"
                     => accounts'[a].balance >= accounts[a].balance
<1>1. ASSUME PayInv PROVE \A a \in Deposits : accounts[a].balance \in Nat
  <2>1. \A a \in Deposits : accounts[a] \in {NoAccount} \cup Account
    BY <1>1 DEF PayInv, AccountTypes
  <2>2. NoAccount.balance \in Nat /\ \A x \in Account : x.balance \in Nat
    BY DEF Account, NoAccount
  <2> QED BY <2>1, <2>2
<1>2. ASSUME PayInv, UNCHANGED accounts
      PROVE  Step
  BY <1>1, <1>2
<1>3. ASSUME PayInv, NEW r \in Requests, DebitCommits(r)
      PROVE  Step
  <2>1. accounts[req[r].from].status # "SUSPENDED"
    BY <1>3 DEF DebitCommits, PayInv, RequestSound, HasAccount
  <2>2. \A a \in Deposits : a # req[r].from => accounts'[a] = accounts[a]
    BY <1>3 DEF DebitCommits, PayInv, AccountTypes
  <2> QED BY <1>1, <1>3, <2>1, <2>2
<1>4. ASSUME PayInv, NEW r \in Requests, ClaimCommits(r)
      PROVE  Step
  <2> DEFINE gain == AmountOf(Custodial(req[r].rows))
  <2>1. /\ HasAccount(r) /\ req[r].to \in Addresses /\ req[r].rows \in SUBSET HeldFor(req[r].to)
        /\ req[r].op = "release" /\ RecordTypes /\ EscrowsSound
    BY <1>4 DEF ClaimCommits, PayInv, RequestSound, HasWho, HasEscrows
  <2>2. gain \in Nat
    BY <1>4, <2>1, EscrowsReleased DEF ClaimCommits
  <2>3. ASSUME NEW a \in Deposits
        PROVE  accounts'[a].balance >= accounts[a].balance
    <3>1. CASE a \in req[r].locked
      <4>1. Exists(a) /\ req[r].read = accounts[a].balance
        BY <2>1, <3>1 DEF HasAccount
      <4>2. accounts[a] \in Account
        BY <1>4, <4>1 DEF PayInv, AccountTypes, Exists
      <4>3. accounts'[a] = [accounts[a] EXCEPT !.balance = accounts[a].balance + gain]
        BY <1>4, <3>1, <4>1 DEF ClaimCommits
      <4> HIDE DEF gain
      <4>4. accounts'[a].balance = accounts[a].balance + gain
        BY <4>2, <4>3 DEF Account
      <4> QED BY <1>1, <1>4, <2>2, <4>4
    <3>2. CASE a \notin req[r].locked
      <4>1. accounts'[a] = accounts[a]
        BY <1>4, <3>2 DEF ClaimCommits
      <4> QED BY <1>1, <1>4, <4>1
    <3> QED BY <3>1, <3>2
  <2> QED BY <2>3
<1>5. ASSUME PayInv, NEW r \in Requests, RegisterCreates(r)
      PROVE  Step
  <2>1. PICK a \in Deposits : ~Exists(a) /\ \A b \in Deposits : b # a => accounts'[b] = accounts[b]
    BY <1>5 DEF RegisterCreates, PayInv, AccountTypes
  <2>2. accounts[a].status # "SUSPENDED"
    <3>1. accounts[a] = NoAccount /\ NoAccount.status = "none"
      BY <2>1 DEF Exists, NoAccount
    <3> QED BY <3>1
  <2> QED BY <1>1, <1>5, <2>1, <2>2
<1>6. ASSUME PayInv, NEW a \in Deposits, Suspend(a) \/ \E n \in Funds : Deposit(a, n)
      PROVE  Step
  <2>1. accounts[a] \in Account
    BY <1>6 DEF Suspend, Deposit, PayInv, AccountTypes, Exists
  <2>2. \A b \in Deposits : b # a => accounts'[b] = accounts[b]
    BY <1>6 DEF Suspend, Deposit, PayInv, AccountTypes
  <2>3. accounts'[a].balance >= accounts[a].balance
    <3>1. CASE Suspend(a)
      <4>1. accounts'[a] = [accounts[a] EXCEPT !.status = "SUSPENDED"]
        BY <1>6, <3>1 DEF Suspend, PayInv, AccountTypes
      <4>2. accounts'[a].balance = accounts[a].balance
        BY <2>1, <4>1 DEF Account
      <4> QED BY <1>1, <1>6, <4>2
    <3>2. ASSUME NEW n \in Funds, Deposit(a, n)
          PROVE  accounts'[a].balance >= accounts[a].balance
      <4>1. accounts'[a] = [accounts[a] EXCEPT !.balance = accounts[a].balance + n]
        BY <1>6, <3>2 DEF Deposit, PayInv, AccountTypes
      <4>2. accounts'[a].balance = accounts[a].balance + n /\ n \in Nat
        BY <2>1, <4>1, FundsAreNat DEF Account
      <4> QED BY <1>1, <1>6, <4>2
    <3> QED BY <1>6, <3>1, <3>2
  <2> QED BY <1>1, <1>6, <2>2, <2>3
<1> HIDE DEF Step
<1>7. ASSUME PayInv, Next
      PROVE  Step
  <2>1. \/ UNCHANGED accounts
        \/ \E r \in Requests : DebitCommits(r) \/ ClaimCommits(r) \/ RegisterCreates(r)
        \/ \E a \in Deposits : Suspend(a) \/ \E n \in Funds : Deposit(a, n)
    BY <1>7 DEF Next, RequestStep, RequestFails, RegisterConflicts, KycWrites, KycConflicts,
                DebitLocks, DebitRejected, SelfSendRecords, createEscrow, ClaimLocks,
                ClaimLocksAccount, RegisterChecks, PostKyc, ClaimChecksKyc, SendChecksKyc, Verify
  <2> QED BY <1>2, <1>3, <1>4, <1>5, <1>6, <1>7, <2>1
<1>8. PayInv /\ [Next]_vars => [Step]_vars
  BY <1>7
<1> QED BY PayInvariant, <1>8, PTL DEF Spec, SuspendedCannotSpend, Step
=============================================================================
