---------------------------- MODULE MCLifecycle ----------------------------
(* Small instances of Lifecycle for TLC. *)
EXTENDS Lifecycle, TLC

\* Every tenant under a name of its own.
OwnSubdomain == [t \in Tenants |-> t]

\* The ids are interchangeable.
Symmetry == Permutations(Tenants) \cup Permutations(Requests) \cup Permutations(VMIDs)
=============================================================================
