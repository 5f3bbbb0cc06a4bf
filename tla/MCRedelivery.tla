---------------------------- MODULE MCRedelivery ----------------------------
(***************************************************************************)
(* Billing with a Stripe that makes the first delivery of each event in    *)
(* order and one at a time: only redeliveries come after later events.     *)
(***************************************************************************)
EXTENDS Billing

VARIABLE tried  \* events that were delivered at least once

Handled == {handler[d].event : d \in {b \in Deliveries : handler[b].pc # "idle"}}

MCInit == Init /\ tried = {}
MCNext == /\ Next
          /\ tried' = tried \cup Handled'
          /\ \A e \in Handled' \ tried : 1 .. e - 1 \subseteq tried
MCSpec == MCInit /\ [][MCNext]_<<vars, tried>>
=============================================================================
