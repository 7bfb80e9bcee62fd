----------------------------- MODULE MCWatcher -----------------------------
(* An instance of EventWatcher for TLC. *)
EXTENDS EventWatcher

CONSTANTS c1, c2

MCContracts == {c1, c2}

(* One kind of event is enough: the watcher treats all known kinds alike.  *)
MCEvents == [type : {"provider_added"}, contract : MCContracts]
            \cup {[type |-> "other", contract |-> c1]}
=============================================================================
