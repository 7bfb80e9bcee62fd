------------------------------- MODULE MCPay -------------------------------
(* An instance of Pay for TLC: one custodial account and one self-custodial *)
(* wallet, and two requests that overlap.                                   *)
EXTENDS Pay

CONSTANTS d1, w1, u1, r1, r2

OneDeposit == {d1}
OneWallet == {w1}
OneName == {u1}
TwoRequests == {r1, r2}
=============================================================================
