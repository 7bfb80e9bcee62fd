-------------------------- MODULE BundleSettlement --------------------------
(***************************************************************************)
(* What the provider promises about a bundle, without queue, transactions, *)
(* timers or crashes: the status a client reads, and whether the bundle's  *)
(* operations took effect on chain.  BundleLifecycle implements it.        *)
(*                                                                         *)
(*  - operations take effect at most once;                                 *)
(*  - COMPLETED is only reported for operations that took effect;          *)
(*  - a bundle that reached a terminal status becomes active again only    *)
(*    through a resubmission that found it EXPIRED or FAILED.              *)
(*                                                                         *)
(* A terminal status may be replaced by another one: the code writes       *)
(* COMPLETED, FAILED and EXPIRED without looking at the status they        *)
(* replace, so of two overlapping verifier cycles one may write FAILED     *)
(* over the COMPLETED of the other.                                        *)
(***************************************************************************)
CONSTANT Bundles

VARIABLES
    status,     \* operations_bundles.status, "none" before the row exists
    applied,    \* the bundles whose operations took effect on chain
    reopening   \* the bundles a resubmission found reusable

Active == {"PENDING", "PROCESSING"}
Reusable == {"EXPIRED", "FAILED"}
Terminal == Reusable \cup {"COMPLETED"}
Status == {"none"} \cup Active \cup Terminal

Init ==
    /\ status = [b \in Bundles |-> "none"]
    /\ applied = {}
    /\ reopening = {}

Accept(b) ==
    /\ status[b] = "none"
    /\ status' = [status EXCEPT ![b] = "PENDING"]
    /\ UNCHANGED <<applied, reopening>>

Advance(b) ==
    /\ status[b] \in Active
    /\ \E s \in Active : status' = [status EXCEPT ![b] = s]
    /\ UNCHANGED <<applied, reopening>>

TakeEffect(S) ==
    /\ S \cap applied = {}
    /\ applied' = applied \cup S
    /\ UNCHANGED <<status, reopening>>

Complete(b) ==
    /\ status[b] # "none"
    /\ b \in applied
    /\ status' = [status EXCEPT ![b] = "COMPLETED"]
    /\ UNCHANGED <<applied, reopening>>

(* S is closed with status s. *)
Close(S, s) ==
    /\ \A b \in S : status[b] # "none"
    /\ status' = [b \in Bundles |-> IF b \in S THEN s ELSE status[b]]
    /\ UNCHANGED <<applied, reopening>>

FindReusable(b) ==
    /\ status[b] \in Reusable
    /\ reopening' = reopening \cup {b}
    /\ UNCHANGED <<status, applied>>

Reopen(b) ==
    /\ b \in reopening
    /\ status' = [status EXCEPT ![b] = "PENDING"]
    /\ reopening' \in {reopening, reopening \ {b}}
    /\ UNCHANGED applied

(* Resubmissions are given up: rejected by a later check, or lost with the
   process. *)
GiveUp ==
    /\ reopening' \in SUBSET reopening
    /\ UNCHANGED <<status, applied>>

Next ==
    \/ \E b \in Bundles :
          \/ Accept(b)
          \/ Advance(b)
          \/ Complete(b)
          \/ FindReusable(b)
          \/ Reopen(b)
    \/ \E S \in SUBSET Bundles :
          \/ TakeEffect(S)
          \/ \E s \in Reusable : Close(S, s)
    \/ GiveUp

Spec == Init /\ [][Next]_<<status, applied, reopening>>

=============================================================================
