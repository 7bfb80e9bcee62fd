----------------------------- MODULE MCMempool -----------------------------
(* Small instances of the queue for TLC: two channels, a slot that holds two
   light bundles or one heavy one, and one bundle heavier than any slot. *)
EXTENDS Mempool, TLC

CONSTANTS b1, b2, b3, b4, b5, c1, c2

MCBundles == {b1, b2, b3, b4, b5}
MCChannels == {c1, c2}
MCChannelOf == [b \in MCBundles |-> IF b = b5 THEN c2 ELSE c1]
MCWeight == (b1 :> 1) @@ (b2 :> 1) @@ (b3 :> 2) @@ (b4 :> 3) @@ (b5 :> 1)
MCPriority == (b1 :> 1) @@ (b2 :> 2) @@ (b3 :> 2) @@ (b4 :> 3) @@ (b5 :> 1)

=============================================================================
