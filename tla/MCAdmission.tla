---------------------------- MODULE MCAdmission ----------------------------
(* An instance of Admission for TLC: b1 deposits and creates two UTXOs, b2  *)
(* spends them with signatures that expire one after the other; each may    *)
(* be submitted twice at once, and again after it was dropped.              *)
EXTENDS Admission, TLC

CONSTANTS b1, b2, u1, u2, r1, r2

TwoBundles == {b1, b2}
TwoUtxos == {u1, u2}
TwoRequests == {r1, r2}

Create(u, n) == [type |-> "create", utxo |-> u, amount |-> n]
Spend(u, e) == [type |-> "spend", utxo |-> u, exp |-> e]
Deposit(n) == [type |-> "deposit", amount |-> n]
Withdraw(n) == [type |-> "withdraw", amount |-> n]

MCOperations ==
  b1 :> <<Deposit(3), Create(u1, 1), Create(u2, 1)>>
  @@ b2 :> <<Spend(u1, 2), Spend(u2, 3), Withdraw(1)>>

Symmetry == Permutations(TwoRequests)
=============================================================================
