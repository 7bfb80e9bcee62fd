---------------------------- MODULE MCLifecycle ----------------------------
(* Small instances of the lifecycle for TLC: one channel and two bundles. *)
EXTENDS BundleLifecycle, TLC

CONSTANTS b1, b2, c1

MCChannels == {c1}
MCChannelOf == [b \in Bundles |-> c1]

(* Both bundles have the same weight; b2 has the higher priority. *)
EqualWeight == [b \in Bundles |-> 1]
MCPriority == [b \in Bundles |-> IF b = b2 THEN 2 ELSE 1]

(* Two bundles that fit one slot: nothing tells them apart. *)
EqualPriority == [b \in Bundles |-> 1]

(* b2 is heavier than a slot of capacity 1. *)
HeavyWeight == [b \in Bundles |-> IF b = b2 THEN 2 ELSE 1]

Symmetry == Permutations(Txs) \cup Permutations(VerifierCycles) \cup Permutations(Requests)

(* Sound only where the bundles have the same weight and priority. *)
BatchSymmetry == Symmetry \cup Permutations(Bundles)

=============================================================================
