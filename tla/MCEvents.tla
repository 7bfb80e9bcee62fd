------------------------------ MODULE MCEvents ------------------------------
(* An instance of Events for TLC: two machines, the providers of two        *)
(* operators, and a socket that one of the operators opens again and again. *)
EXTENDS Events, TLC

CONSTANTS m1, m2, s1, p1, p2

TwoMachines == {m1, m2}
OneSocket == {s1}
TwoPps == {p1, p2}
MCOwnerOf == p1 :> "A" @@ p2 :> "B"
MCOperatorOf == s1 :> "A"
=============================================================================
