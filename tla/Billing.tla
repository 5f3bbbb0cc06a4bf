------------------------------ MODULE Billing ------------------------------
(***************************************************************************)
(* Tiers and subscriptions: the billing columns of the tenants table, the  *)
(* webhook handlers that write them, and the tenant limit that reads them. *)
(*                                                                         *)
(* Stripe is external and modelled from how the handlers use it.  Every    *)
(* checkout passes an e-mail address and no customer, so it makes a new    *)
(* customer with one subscription; each change of a subscription emits an  *)
(* event with a snapshot of it.  Events are delivered in any order, side   *)
(* by side, and each until Stripe has seen it answered with 200.           *)
(***************************************************************************)
EXTENDS Naturals, Sequences, FiniteSets

CONSTANTS
    Users,
    Customers,   \* Stripe customers, each made by one checkout
    Deliveries,  \* webhook requests that can be in flight at the same time
    PaidTiers,   \* tiers on sale, see MaxTenants
    MaxRows,     \* bound: tenant rows, numbered in the order of created_at
    MaxEvents,   \* bound: events Stripe emits
    None

ASSUME PaidTiersAssumption == PaidTiers \subseteq {"starter", "pro", "studio"}
ASSUME BoundAssumption     == MaxRows \in Nat /\ MaxEvents \in Nat
ASSUME NoneAssumption      == None \notin Users \cup Customers

VARIABLES
    row,       \* billing columns of each tenant row
    counting,  \* users with a create that has counted their tenants ...
    counted,   \* ... and the count it read
    creating,  \* users with a create between its limit check and its insert
    sub,       \* Stripe: the subscription of each customer
    log,       \* Stripe: the events emitted so far
    pending,   \* Stripe: the events not answered with 200 yet
    handler,   \* the webhook request of each delivery
    \* History, read by no action:
    paid,      \* tiers each user has ever had a live subscription for
    due,       \* tier the last resolved state of a subscription stands for
    shuffled   \* customers an event of whom overtook an earlier one, or whose
               \* checkout was handled and is to be delivered again

createVars == <<counting, counted, creating>>

vars == <<row, counting, counted, creating, sub, log, pending, handler, paid, due, shuffled>>

Rows   == 1 .. MaxRows
Tiers  == {"free"} \cup PaidTiers
Prices == PaidTiers \cup {"other"}   \* "other": a price the service does not know

\* One status stands for "active" and "trialing", which every step treats alike,
\* and "unpaid" for "incomplete_expired"; "past_due" is any other.
Terminal == {"canceled", "unpaid"}
Live     == {"active"}
Statuses == Terminal \cup Live \cup {"past_due"}

MaxTenants(tier) == IF tier = "studio" THEN 3 ELSE IF tier = "pro" THEN 2 ELSE 1

\* Mutant: an unknown price ID passes as a tier.
GetTierFromPriceID_Raw(price) == price

\* The tier of a price; an unknown one is free.
GetTierFromPriceID(price) == IF price \in PaidTiers THEN price ELSE "free"

\* The events the handlers act on; the others are acknowledged and ignored.
Events == [type : {"checkout", "updated", "deleted"}, customer : Customers,
           user : Users, price : Prices, status : Statuses]

RowType == [state : {"absent", "live", "deleted"}, owner : Users \cup {None},
            customer : Customers \cup {None}, subscription : Customers \cup {None},
            tier : Tiers]

NoRow == [state |-> "absent", owner |-> None, customer |-> None,
          subscription |-> None, tier |-> "free"]
NoSub == [user |-> None, price |-> "other", status |-> "none"]
Idle  == [pc |-> "idle", event |-> 0, row |-> 0]

Init ==
    /\ row = [r \in Rows |-> NoRow]
    /\ counting = {}
    /\ counted = [u \in Users |-> 0]
    /\ creating = {}
    /\ sub = [c \in Customers |-> NoSub]
    /\ log = <<>>
    /\ pending = {}
    /\ handler = [d \in Deliveries |-> Idle]
    /\ paid = [u \in Users |-> {}]
    /\ due = [c \in Customers |-> "free"]
    /\ shuffled = {}

-----------------------------------------------------------------------------
(* Tenants come and go. *)

RowsOf(u) == {r \in Rows : row[r].state = "live" /\ row[r].owner = u}

\* Mutant: the count may reach one more than the limit.
UnderLimit_OffByOne(u) ==
    \E r \in RowsOf(u) \cup {0} :
        counted[u] <= MaxTenants(IF r = 0 THEN "free" ELSE row[r].tier)

\* The limit is that of the highest tier among the user's tenants.
UnderLimit(u) ==
    \E r \in RowsOf(u) \cup {0} :
        counted[u] < MaxTenants(IF r = 0 THEN "free" ELSE row[r].tier)

\* The count, the list of tiers and the insert are apart.  A user makes one
\* create at a time.
CountTenants(u) ==
    /\ u \notin counting \cup creating
    /\ counting' = counting \cup {u}
    /\ counted' = [counted EXCEPT ![u] = Cardinality(RowsOf(u))]
    /\ UNCHANGED <<creating, row, sub, log, pending, handler, paid, due, shuffled>>

\* The tiers are read and the create goes on or is refused; a query that fails
\* ends it as a failed insert does.
CheckLimit(u) ==
    /\ u \in counting
    /\ counting' = counting \ {u}
    /\ counted' = [counted EXCEPT ![u] = 0]
    /\ creating' = IF UnderLimit(u) THEN creating \cup {u} ELSE creating
    /\ UNCHANGED <<row, sub, log, pending, handler, paid, due, shuffled>>

\* The insert, or its failure.
InsertTenant(u) ==
    /\ u \in creating
    /\ creating' = creating \ {u}
    /\ UNCHANGED <<counting, counted>>
    /\ \/ UNCHANGED row
       \/ \E r \in Rows :
            /\ row[r].state = "absent"
            /\ \A q \in 1 .. r - 1 : row[q].state # "absent"
            /\ row' = [row EXCEPT ![r] = [NoRow EXCEPT !.state = "live", !.owner = u]]
    /\ UNCHANGED <<sub, log, pending, handler, paid, due, shuffled>>

DeleteTenant(r) ==
    /\ row[r].state = "live"
    /\ row' = [row EXCEPT ![r].state = "deleted"]
    /\ UNCHANGED <<createVars, sub, log, pending, handler, paid, due, shuffled>>

-----------------------------------------------------------------------------
(* Stripe (external). *)

Emit(type, c, s) ==
    /\ Len(log) < MaxEvents
    /\ log' = Append(log, [type |-> type, customer |-> c, user |-> s.user,
                           price |-> s.price, status |-> s.status])
    /\ pending' = pending \cup {Len(log) + 1}
    /\ sub' = [sub EXCEPT ![c] = s]

\* History of what the new state of a subscription stands for.
Record(c, s) ==
    /\ paid' = IF s.status \in Live
               THEN [paid EXCEPT ![s.user] = @ \cup {GetTierFromPriceID(s.price)}]
               ELSE paid
    /\ due' = IF s.status \in Live THEN [due EXCEPT ![c] = GetTierFromPriceID(s.price)]
              ELSE IF s.status \in Terminal THEN [due EXCEPT ![c] = "free"]
              ELSE due

\* A checkout session is completed for a tier that is on sale.
Checkout(u, c, tier) ==
    LET s == [user |-> u, price |-> tier, status |-> "active"] IN
    /\ sub[c].status = "none"
    /\ Emit("checkout", c, s)
    /\ Record(c, s)
    /\ UNCHANGED <<row, createVars, handler, shuffled>>

\* The plan is changed in the portal, a payment fails, is given up or recovers.
ChangeSubscription(c, price, status) ==
    LET s == [sub[c] EXCEPT !.price = price, !.status = status] IN
    /\ sub[c].status \notin {"none", "canceled"}
    /\ status # "canceled" /\ s # sub[c]
    /\ Emit("updated", c, s)
    /\ Record(c, s)
    /\ UNCHANGED <<row, createVars, handler, shuffled>>

CancelSubscription(c) ==
    LET s == [sub[c] EXCEPT !.status = "canceled"] IN
    /\ sub[c].status \notin {"none", "canceled"}
    /\ Emit("deleted", c, s)
    /\ Record(c, s)
    /\ UNCHANGED <<row, createVars, handler, shuffled>>

InFlight(e) == \E d \in Deliveries : handler[d].pc # "idle" /\ handler[d].event = e

Deliver(d, e) ==
    /\ handler[d].pc = "idle"
    /\ e \in pending
    /\ ~InFlight(e)
    /\ handler' = [handler EXCEPT ![d] = [pc |-> "lookup", event |-> e, row |-> 0]]
    /\ shuffled' = IF \E f \in pending : f < e /\ log[f].customer = log[e].customer
                   THEN shuffled \cup {log[e].customer} ELSE shuffled
    /\ UNCHANGED <<row, createVars, sub, log, pending, paid, due>>

-----------------------------------------------------------------------------
(* The webhook handlers: one query for the tenant, then one update. *)

Event(d) == log[handler[d].event]

\* Answer 200.  Stripe may still not see it.
Acknowledge(d) ==
    /\ handler' = [handler EXCEPT ![d] = Idle]
    /\ \/ pending' = pending \ {handler[d].event} /\ UNCHANGED shuffled
       \/ /\ UNCHANGED pending
          /\ shuffled' = IF Event(d).type = "checkout"
                         THEN shuffled \cup {Event(d).customer} ELSE shuffled

\* A store error is answered with 500, which asks for redelivery.
FailDelivery(d) ==
    /\ handler[d].pc # "idle"
    /\ handler' = [handler EXCEPT ![d] = Idle]
    /\ UNCHANGED <<row, createVars, sub, log, pending, paid, due, shuffled>>

\* Mutant: a status that is neither live nor terminal counts as live.
Unresolved_AsLive(e) == FALSE

\* An update that settles nothing is left alone.
Unresolved(e) == e.type = "updated" /\ e.status \notin Terminal \cup Live

\* Mutant: the newest tenant of the user is meant, whoever the customer is.
Candidates_ByOwner(e) == {r \in RowsOf(e.user) : \A q \in RowsOf(e.user) : q <= r}

\* GetByOwnerID, newest first, for a checkout; any row with the customer else.
Candidates(e) ==
    IF e.type = "checkout"
    THEN {r \in RowsOf(e.user) : \A q \in RowsOf(e.user) : q <= r}
    ELSE {r \in Rows : row[r].state = "live" /\ row[r].customer = e.customer}

FindTenant(d) ==
    LET e == Event(d) IN
    /\ handler[d].pc = "lookup"
    /\ \/ /\ Unresolved(e) \/ Candidates(e) = {}
          /\ Acknowledge(d)
       \/ /\ ~Unresolved(e)
          /\ \E r \in Candidates(e) :
                handler' = [handler EXCEPT ![d] = [@ EXCEPT !.pc = "update", !.row = r]]
          /\ UNCHANGED <<pending, shuffled>>
    /\ UNCHANGED <<row, createVars, sub, log, paid, due>>

\* A subscription that has ended for good.
Ended(e) == e.type = "deleted" \/ (e.type = "updated" /\ e.status \in Terminal)

\* What an event writes into the tier column: a checkout the tier of its
\* metadata, an update the tier of its price.
TierOf(e) ==
    IF Ended(e) THEN "free"
    ELSE IF e.type = "checkout" THEN e.price ELSE GetTierFromPriceID(e.price)

\* A customer stands for its subscription; the empty reference is None.
SubscriptionRef(e) == IF Ended(e) THEN None ELSE e.customer

UpdateBilling(d) ==
    LET e == Event(d) IN
    /\ handler[d].pc = "update"
    /\ row' = [row EXCEPT ![handler[d].row] =
                 [state |-> @.state, owner |-> @.owner, customer |-> e.customer,
                  subscription |-> SubscriptionRef(e), tier |-> TierOf(e)]]
    /\ Acknowledge(d)
    /\ UNCHANGED <<createVars, sub, log, paid, due>>

-----------------------------------------------------------------------------
Next ==
    \/ \E u \in Users : CountTenants(u) \/ CheckLimit(u) \/ InsertTenant(u)
    \/ \E r \in Rows : DeleteTenant(r)
    \/ \E u \in Users, c \in Customers, tier \in PaidTiers : Checkout(u, c, tier)
    \/ \E c \in Customers, p \in Prices, s \in Statuses : ChangeSubscription(c, p, s)
    \/ \E c \in Customers : CancelSubscription(c)
    \/ \E d \in Deliveries : \/ \E e \in pending : Deliver(d, e)
                             \/ FindTenant(d)
                             \/ UpdateBilling(d)
                             \/ FailDelivery(d)

Spec == Init /\ [][Next]_vars

-----------------------------------------------------------------------------
(* The variables have their types. *)
TypeOK ==
    /\ row \in [Rows -> RowType]
    /\ counting \subseteq Users
    /\ counted \in [Users -> Nat]
    /\ creating \subseteq Users
    /\ sub \in [Customers -> [user : Users \cup {None}, price : Prices,
                              status : Statuses \cup {"none"}]]
    /\ log \in Seq(Events)
    /\ pending \subseteq 1 .. Len(log)
    /\ handler \in [Deliveries -> [pc : {"idle", "lookup", "update"}, event : Nat, row : Nat]]
    /\ paid \in [Users -> SUBSET Tiers]
    /\ due \in [Customers -> Tiers]
    /\ shuffled \subseteq Customers

(* No "upgrade we are not yet paid for": whatever the order, the number and *)
(* the interleaving of deliveries, a tenant is only ever on a tier its own  *)
(* owner has had a live subscription for.                                   *)
PaidForTier ==
    \A r \in Rows : row[r].tier # "free" => row[r].tier \in paid[row[r].owner]

\* Every event of a customer has been answered and none is being handled.
Settled(c) ==
    /\ \A e \in pending : log[e].customer # c
    /\ \A d \in Deliveries : handler[d].pc # "idle" => Event(d).customer # c

\* The tenant of a customer has the tier its subscription stands for.
OnDueTier(c) ==
    \A r \in Rows : (row[r].state = "live" /\ row[r].customer = c) => row[r].tier = due[c]

(* "Handlers are idempotent: every write is an absolute update, so a replay *)
(* converges on the same tenant state": once all events of a customer are   *)
(* dealt with, its tenant has the tier the subscription stands for, and a   *)
(* free one keeps no paid tier.  The code does not keep it: an event that   *)
(* arrives after a later one writes the older tier over the newer.          *)
TierSettled == \A c \in Customers : Settled(c) => OnDueTier(c)

(* How far it does converge: deliveries may fail, subscription events may   *)
(* be handled again although they were answered, and the events of several  *)
(* customers and the creates and deletes of tenants may interleave.  What   *)
(* breaks it is an event that overtakes an earlier one of its customer, and *)
(* a checkout that is handled again, which may find another tenant.         *)
ReplaysConverge == \A c \in Customers \ shuffled : Settled(c) => OnDueTier(c)

(* The tenant limit: a user who makes one create at a time never owns more  *)
(* tenants than the best tier they ever paid for allows, although webhooks  *)
(* and deletes run between the count, the tiers and the insert.             *)
WithinTierLimit ==
    \A u \in Users : \E tier \in paid[u] \cup {"free"} :
        Cardinality(RowsOf(u)) <= MaxTenants(tier)
=============================================================================
