------------------------------- MODULE MCAuth -------------------------------
(* One wallet answers one SEP-10 challenge and two nonces on each surface, *)
(* with two requests at a time and room for one pending nonce.             *)
EXTENDS Auth

CONSTANTS c1, p1, h1, n1, n2, r1, r2

OneClient == {c1}
OnePp == {p1}
OneHash == {h1}
TwoNonces == {n1, n2}
TwoRequests == {r1, r2}
=============================================================================
