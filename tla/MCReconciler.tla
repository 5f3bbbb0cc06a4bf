---------------------------- MODULE MCReconciler ----------------------------
(* A small instance of Reconciler for TLC. *)
EXTENDS Reconciler, TLC

\* All tenants ask for the same name, one after the other.
OneName == [t \in Tenants |-> CHOOSE s \in Subdomains : TRUE]

RecSymmetry ==
    Permutations(Tenants) \cup Permutations(Requests) \cup Permutations(VMIDs) \cup Permutations(IPs)
=============================================================================
