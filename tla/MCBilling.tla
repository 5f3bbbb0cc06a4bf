----------------------------- MODULE MCBilling -----------------------------
(***************************************************************************)
(* Two small instances of Billing in one run: two users with a customer    *)
(* and one delivery at a time, and one user with two customers and         *)
(* deliveries side by side.                                                *)
(***************************************************************************)
EXTENDS Billing, TLC

VARIABLE instance  \* chosen at the start

\* Users who own or owned a tenant, are creating one or have subscribed.
Present == {u \in Users : \/ u \in counting \cup creating
                          \/ \E r \in Rows : row[r].owner = u
                          \/ \E c \in Customers : sub[c].user = u}

WithinInstance ==
    \/ /\ instance = "users"
       /\ Cardinality({c \in Customers : sub[c].status # "none"}) <= 1
       /\ Cardinality({d \in Deliveries : handler[d].pc # "idle"}) <= 1
       /\ Len(log) <= 2
    \/ /\ instance = "customers"
       /\ Cardinality(Present) <= 1
       /\ \A c \in Customers : sub[c].price # "studio"
       /\ \A r \in Rows : r > 2 => row[r].state = "absent"

MCInit == Init /\ instance \in {"users", "customers"}
MCNext == Next /\ UNCHANGED instance /\ WithinInstance'
MCSpec == MCInit /\ [][MCNext]_<<vars, instance>>

\* Customers, deliveries and users are interchangeable.
Symmetry == Permutations(Customers) \cup Permutations(Deliveries) \cup Permutations(Users)
=============================================================================
