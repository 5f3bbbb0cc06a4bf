--------------------------- MODULE BillingProofs ---------------------------
(***************************************************************************)
(* PaidForTier and WithinTierLimit for every number of users, customers,   *)
(* rows, events and deliveries, whatever the order of deliveries, and      *)
(* ReplaysConverge.                                                        *)
(*                                                                         *)
(* PaidForTier alone is not inductive: an update applies an event that was *)
(* emitted earlier, to a row that was looked up earlier.  Entitled says    *)
(* what stays true of events, rows and handlers meanwhile.                 *)
(***************************************************************************)
EXTENDS Billing, FiniteSetTheorems, TLAPS

\* A subscription that exists belongs to a user.
SubsOwned == \A c \in Customers : sub[c].status # "none" => sub[c].user \in Users

\* An event carries the user of its customer, and a live one was paid for.
EventsPaid ==
    \A i \in 1 .. Len(log) :
        /\ sub[log[i].customer].status # "none"
        /\ sub[log[i].customer].user = log[i].user
        /\ log[i].status \in Live => GetTierFromPriceID(log[i].price) \in paid[log[i].user]
        /\ log[i].type = "checkout" => log[i].price \in PaidTiers /\ log[i].status \in Live

\* A row has an owner, who is the user of its customer.
RowsOwned ==
    \A r \in Rows :
        /\ row[r].state # "absent" => row[r].owner \in Users
        /\ row[r].state = "absent" => row[r].tier = "free" /\ row[r].customer = None
        /\ row[r].customer # None =>
              /\ sub[row[r].customer].status # "none"
              /\ sub[row[r].customer].user = row[r].owner

\* A handler about to update has a row of the user its event is about.
HandlersMatch ==
    \A d \in Deliveries :
        /\ handler[d].pc # "idle" => handler[d].event \in 1 .. Len(log)
        /\ handler[d].pc = "update" =>
              /\ handler[d].row \in Rows
              /\ row[handler[d].row].state # "absent"
              /\ row[handler[d].row].owner = Event(d).user
              /\ ~Unresolved(Event(d))

Entitled == TypeOK /\ SubsOwned /\ EventsPaid /\ RowsOwned /\ HandlersMatch /\ PaidForTier

USE PaidTiersAssumption, BoundAssumption, NoneAssumption

\* The tier of a price is a tier.
LEMMA TierType == \A p \in Prices : GetTierFromPriceID(p) \in Tiers
BY DEF Prices, Tiers, GetTierFromPriceID

\* An event of the log has the type of an event.
LEMMA LogType ==
    ASSUME log \in Seq(Events), NEW i \in 1 .. Len(log)
    PROVE  /\ log[i] \in Events
           /\ log[i].customer \in Customers /\ log[i].user \in Users
<1>1. log[i] \in Events
  OBVIOUS
<1> QED BY <1>1 DEF Events

\* There are finitely many rows, so any number of them is a natural number.
LEMMA RowsFinite ==
    ASSUME NEW S, S \subseteq Rows
    PROVE  IsFiniteSet(S) /\ Cardinality(S) \in Nat
<1>1. IsFiniteSet(1 .. MaxRows)
  BY FS_Interval, BoundAssumption
<1>2. S \subseteq 1 .. MaxRows
  BY DEF Rows
<1> QED BY <1>1, <1>2, FS_Subset, FS_CardinalityType

\* So a user has a natural number of tenants, before and after a step.
LEMMA RowsOfFinite ==
    /\ \A u : IsFiniteSet(RowsOf(u)) /\ Cardinality(RowsOf(u)) \in Nat
    /\ \A u : Cardinality(RowsOf(u)') \in Nat
<1>1. \A u : RowsOf(u) \subseteq Rows /\ RowsOf(u)' \subseteq Rows
  BY DEF RowsOf
<1> QED BY <1>1, RowsFinite

\* In the initial state there is no event, and no row has a customer.
LEMMA InitEntitled == Init => Entitled
BY DEF Init, Entitled, TypeOK, SubsOwned, EventsPaid, RowsOwned, HandlersMatch, PaidForTier,
       NoRow, NoSub, Idle, RowType, Tiers, Prices, Statuses, Terminal, Live

\* What one step of Stripe does, common to its three actions: customer c gets
\* the subscription s and an event of it is emitted.
LEMMA EmitStep ==
    ASSUME Entitled,
           NEW type \in {"checkout", "updated", "deleted"}, NEW c \in Customers,
           NEW s \in [user : Users, price : Prices, status : Statuses],
           sub[c].status # "none" => sub[c].user = s.user,
           type = "checkout" => s.price \in PaidTiers /\ s.status \in Live,
           Emit(type, c, s), Record(c, s), UNCHANGED <<row, createVars, handler, shuffled>>
    PROVE  Entitled'
<1> DEFINE e == [type |-> type, customer |-> c, user |-> s.user,
                 price |-> s.price, status |-> s.status]
<1>1. /\ log' = Append(log, e) /\ pending' = pending \cup {Len(log) + 1}
      /\ sub' = [sub EXCEPT ![c] = s]
  BY DEF Emit
<1>2. /\ paid' \in [Users -> SUBSET Tiers]
      /\ \A u \in Users : paid[u] \subseteq paid'[u]
      /\ s.status \in Live => GetTierFromPriceID(s.price) \in paid'[s.user]
  BY TierType DEF Record, Entitled, TypeOK
<1>3. due' \in [Customers -> Tiers]
  BY TierType DEF Record, Entitled, TypeOK, Tiers
<1>4. /\ log' \in Seq(Events)
      /\ Len(log') = Len(log) + 1 /\ Len(log) \in Nat
      /\ \A i \in 1 .. Len(log) : log'[i] = log[i]
      /\ log'[Len(log) + 1] = e
  <2>1. e \in Events
    BY DEF Events
  <2> HIDE DEF e
  <2> QED BY <2>1, <1>1 DEF Entitled, TypeOK
<1>5. TypeOK'
  <2>1. pending' \subseteq 1 .. Len(log')
    <3>1. pending \subseteq 1 .. Len(log)
      BY DEF Entitled, TypeOK
    <3>2. Len(log') = Len(log) + 1 /\ Len(log) \in Nat /\ pending' = pending \cup {Len(log) + 1}
      BY <1>1, <1>4
    <3>3. ASSUME NEW x \in pending' PROVE x \in 1 .. Len(log')
      <4>1. CASE x \in pending
        <5>1. x \in 1 .. Len(log)
          BY <3>1, <4>1
        <5> QED BY <5>1, <3>2
      <4>2. CASE x = Len(log) + 1
        BY <4>2, <3>2
      <4> QED BY <3>2, <3>3, <4>1, <4>2
    <3> QED BY <3>3
  <2>2. sub' \in [Customers -> [user : Users \cup {None}, price : Prices,
                                status : Statuses \cup {"none"}]]
    BY <1>1 DEF Entitled, TypeOK
  <2> QED BY <2>1, <2>2, <1>2, <1>3, <1>4 DEF createVars, Entitled, TypeOK
<1>6. SubsOwned'
  BY <1>1 DEF Entitled, TypeOK, SubsOwned
<1>7. \A b \in Customers : sub[b].status # "none" =>
          sub'[b].status # "none" /\ sub'[b].user = sub[b].user
  BY <1>1 DEF Entitled, TypeOK, Statuses, Terminal, Live
<1>8. EventsPaid'
  <2> SUFFICES ASSUME NEW i \in 1 .. Len(log')
               PROVE  /\ sub'[log'[i].customer].status # "none"
                      /\ sub'[log'[i].customer].user = log'[i].user
                      /\ log'[i].status \in Live =>
                            GetTierFromPriceID(log'[i].price) \in paid'[log'[i].user]
                      /\ log'[i].type = "checkout" =>
                            log'[i].price \in PaidTiers /\ log'[i].status \in Live
    BY DEF EventsPaid
  <2>1. CASE i \in 1 .. Len(log)
    <3>1. log'[i] = log[i] /\ log[i].customer \in Customers /\ log[i].user \in Users
      BY <2>1, <1>4, LogType DEF Entitled, TypeOK
    <3> QED BY <2>1, <3>1, <1>2, <1>7 DEF Entitled, EventsPaid
  <2>2. CASE i = Len(log) + 1
    <3>1. log'[i] = e
      BY <2>2, <1>4
    <3> HIDE DEF e
    <3>2. e.customer = c /\ e.user = s.user /\ e.price = s.price
          /\ e.status = s.status /\ e.type = type
      BY DEF e
    <3>3. sub'[c] = s
      BY <1>1 DEF Entitled, TypeOK
    <3>4. s.status # "none"
      BY DEF Statuses, Terminal, Live
    <3> QED BY <3>1, <3>2, <3>3, <3>4, <1>2
  <2> QED BY <2>1, <2>2, <1>4
<1>9. RowsOwned'
  BY <1>7 DEF Entitled, TypeOK, RowType, RowsOwned
<1>10. HandlersMatch'
  BY <1>4 DEF Entitled, TypeOK, HandlersMatch, Event, Unresolved
<1>11. PaidForTier'
  BY <1>2 DEF Entitled, TypeOK, PaidForTier, RowsOwned
<1> QED BY <1>5, <1>6, <1>8, <1>9, <1>10, <1>11 DEF Entitled

\* An answer frees the delivery, takes no other event off and shuffles only the
\* customer of its own.
LEMMA AcknowledgeStep ==
    ASSUME Entitled, NEW d \in Deliveries, handler[d].pc # "idle", Acknowledge(d)
    PROVE  /\ handler' = [handler EXCEPT ![d] = Idle] /\ pending' \subseteq pending
           /\ shuffled' \subseteq Customers
<1>1. handler[d].event \in 1 .. Len(log)
  BY DEF Entitled, HandlersMatch
<1>2. Event(d).customer \in Customers
  BY <1>1, LogType DEF Event, Entitled, TypeOK
<1> QED BY <1>2 DEF Acknowledge, Entitled, TypeOK

\* The update writes an owner's own customer and a tier that was paid for.
LEMMA UpdateStep ==
    ASSUME Entitled, NEW d \in Deliveries, UpdateBilling(d)
    PROVE  Entitled'
<1> DEFINE e == Event(d)
           r == handler[d].row
<1>1. /\ handler[d].event \in 1 .. Len(log) /\ r \in Rows
      /\ row[r].state # "absent" /\ row[r].owner = e.user /\ ~Unresolved(e)
  BY DEF Entitled, HandlersMatch, UpdateBilling
<1>2. /\ e \in Events
      /\ sub[e.customer].status # "none" /\ sub[e.customer].user = e.user
      /\ e.status \in Live => GetTierFromPriceID(e.price) \in paid[e.user]
      /\ e.type = "checkout" => e.price \in PaidTiers /\ e.status \in Live
  BY <1>1, LogType DEF Entitled, TypeOK, EventsPaid, Event
<1>3. TierOf(e) \in Tiers /\ (TierOf(e) # "free" => TierOf(e) \in paid[e.user])
  BY <1>1, <1>2, TierType DEF Events, TierOf, Ended, Unresolved, GetTierFromPriceID, Tiers, Prices
<1> DEFINE new == [state |-> row[r].state, owner |-> row[r].owner, customer |-> e.customer,
                   subscription |-> SubscriptionRef(e), tier |-> TierOf(e)]
<1>4. row' = [row EXCEPT ![r] = new]
  BY DEF UpdateBilling
<1>5. /\ new \in RowType
      /\ new.state = row[r].state /\ new.owner = row[r].owner
      /\ new.customer = e.customer /\ new.tier = TierOf(e)
  <2>1. row[r] \in RowType
    BY <1>1 DEF Entitled, TypeOK
  <2>2. SubscriptionRef(e) \in Customers \cup {None}
    BY <1>2 DEF SubscriptionRef, Events
  <2> HIDE DEF e, r
  <2> QED BY <2>1, <2>2, <1>2, <1>3 DEF RowType, Events
<1> HIDE DEF new, e
<1>6. UNCHANGED <<createVars, sub, log, paid, due>> /\ pending' \subseteq pending
      /\ handler' = [handler EXCEPT ![d] = Idle] /\ shuffled' \subseteq Customers
  BY AcknowledgeStep DEF UpdateBilling
<1>7. row \in [Rows -> RowType]
  BY DEF Entitled, TypeOK
<1>8. TypeOK'
  BY <1>1, <1>4, <1>5, <1>6 DEF createVars, Entitled, TypeOK, Idle
<1>9. SubsOwned' /\ EventsPaid'
  BY <1>6 DEF Entitled, SubsOwned, EventsPaid
<1>10. RowsOwned'
  BY <1>1, <1>2, <1>4, <1>5, <1>6, <1>7 DEF Entitled, RowsOwned
<1>11. HandlersMatch'
  BY <1>1, <1>4, <1>5, <1>6, <1>7 DEF Entitled, TypeOK, HandlersMatch, Event, Idle
<1>12. PaidForTier'
  BY <1>1, <1>3, <1>4, <1>5, <1>6, <1>7 DEF Entitled, PaidForTier
<1> QED BY <1>8, <1>9, <1>10, <1>11, <1>12 DEF Entitled

\* Every step keeps Entitled: three of Stripe's, the update, and the rest,
\* which change neither customers nor tiers nor what was paid.
LEMMA StepEntitled == Entitled /\ [Next]_vars => Entitled'
<1> SUFFICES ASSUME Entitled, [Next]_vars PROVE Entitled'
  OBVIOUS
<1>1. CASE UNCHANGED vars
  BY <1>1 DEF vars, createVars, Entitled, TypeOK, SubsOwned, EventsPaid, RowsOwned, HandlersMatch,
              PaidForTier, Event, Unresolved
<1>2a. ASSUME NEW u \in Users, CountTenants(u) PROVE Entitled'
  BY <1>2a, RowsOfFinite DEF CountTenants, Entitled, TypeOK, SubsOwned, EventsPaid, RowsOwned,
              HandlersMatch, PaidForTier, Event, Unresolved
<1>2. ASSUME NEW u \in Users, CheckLimit(u) PROVE Entitled'
  BY <1>2 DEF CheckLimit, Entitled, TypeOK, SubsOwned, EventsPaid, RowsOwned, HandlersMatch,
              PaidForTier, Event, Unresolved
<1>3. ASSUME NEW u \in Users, InsertTenant(u) PROVE Entitled'
  <2>1. CASE UNCHANGED row
    BY <1>3, <2>1 DEF InsertTenant, Entitled, TypeOK, SubsOwned, EventsPaid, RowsOwned,
                      HandlersMatch, PaidForTier, Event, Unresolved
  <2>2. ASSUME NEW r \in Rows, row[r].state = "absent",
               row' = [row EXCEPT ![r] = [NoRow EXCEPT !.state = "live", !.owner = u]]
        PROVE  Entitled'
    <3> DEFINE new == [NoRow EXCEPT !.state = "live", !.owner = u]
    <3>1. /\ new \in RowType /\ new.state = "live" /\ new.owner = u
          /\ new.tier = "free" /\ new.customer = None
      BY DEF NoRow, RowType, Tiers
    <3> HIDE DEF new
    <3>2. row' = [row EXCEPT ![r] = new] /\ row \in [Rows -> RowType]
      BY <2>2 DEF new, Entitled, TypeOK
    <3>3. creating' \subseteq Users /\ UNCHANGED <<counting, counted, sub, log, pending, handler, paid, due, shuffled>>
      BY <1>3 DEF InsertTenant, Entitled, TypeOK
    <3>4. TypeOK' /\ SubsOwned' /\ EventsPaid'
      BY <3>1, <3>2, <3>3 DEF Entitled, TypeOK, SubsOwned, EventsPaid
    <3>5. RowsOwned' /\ PaidForTier'
      BY <3>1, <3>2, <3>3 DEF Entitled, RowsOwned, PaidForTier
    <3>6. HandlersMatch'
      BY <2>2, <3>2, <3>3 DEF Entitled, HandlersMatch, Event, Unresolved
    <3> QED BY <3>4, <3>5, <3>6 DEF Entitled
  <2> QED BY <1>3, <2>1, <2>2 DEF InsertTenant
<1>4. ASSUME NEW r \in Rows, DeleteTenant(r) PROVE Entitled'
  <2> DEFINE new == [row[r] EXCEPT !.state = "deleted"]
  <2>1. /\ new \in RowType /\ new.state = "deleted" /\ new.owner = row[r].owner
        /\ new.tier = row[r].tier /\ new.customer = row[r].customer
        /\ row[r].state = "live"
    <3>1. row[r] \in RowType /\ row[r].state = "live"
      BY <1>4 DEF DeleteTenant, Entitled, TypeOK
    <3> QED BY <3>1 DEF RowType
  <2> HIDE DEF new
  <2>2. row' = [row EXCEPT ![r] = new] /\ row \in [Rows -> RowType]
        /\ UNCHANGED <<createVars, sub, log, pending, handler, paid, due, shuffled>>
    BY <1>4 DEF new, DeleteTenant, Entitled, TypeOK
  <2>3. TypeOK' /\ SubsOwned' /\ EventsPaid'
    BY <2>1, <2>2 DEF createVars, Entitled, TypeOK, SubsOwned, EventsPaid
  <2>4. RowsOwned' /\ PaidForTier'
    BY <2>1, <2>2 DEF Entitled, RowsOwned, PaidForTier
  <2>5. HandlersMatch'
    BY <2>1, <2>2 DEF Entitled, HandlersMatch, Event, Unresolved
  <2> QED BY <2>3, <2>4, <2>5 DEF Entitled
<1>5. ASSUME NEW u \in Users, NEW c \in Customers, NEW tier \in PaidTiers, Checkout(u, c, tier)
      PROVE  Entitled'
  <2> DEFINE s == [user |-> u, price |-> tier, status |-> "active"]
  <2>1. /\ s \in [user : Users, price : Prices, status : Statuses]
        /\ s.price \in PaidTiers /\ s.status \in Live
    BY DEF Prices, Statuses, Live
  <2>2. /\ sub[c].status = "none" /\ Emit("checkout", c, s) /\ Record(c, s)
        /\ UNCHANGED <<row, createVars, handler, shuffled>>
    BY <1>5 DEF Checkout
  <2> HIDE DEF s
  <2> QED BY <2>1, <2>2, EmitStep
<1>6. ASSUME NEW c \in Customers, NEW p \in Prices, NEW st \in Statuses,
             ChangeSubscription(c, p, st)
      PROVE  Entitled'
  <2> DEFINE s == [sub[c] EXCEPT !.price = p, !.status = st]
  <2>1. s \in [user : Users, price : Prices, status : Statuses] /\ sub[c].user = s.user
    <3>1. /\ sub[c] \in [user : Users \cup {None}, price : Prices, status : Statuses \cup {"none"}]
          /\ sub[c].user \in Users
      BY <1>6 DEF ChangeSubscription, Entitled, TypeOK, SubsOwned
    <3> QED BY <3>1
  <2>2. /\ Emit("updated", c, s) /\ Record(c, s) /\ UNCHANGED <<row, createVars, handler, shuffled>>
    BY <1>6 DEF ChangeSubscription
  <2> HIDE DEF s
  <2> QED BY <2>1, <2>2, EmitStep
<1>7. ASSUME NEW c \in Customers, CancelSubscription(c) PROVE Entitled'
  <2> DEFINE s == [sub[c] EXCEPT !.status = "canceled"]
  <2>1. s \in [user : Users, price : Prices, status : Statuses] /\ sub[c].user = s.user
    <3>1. /\ sub[c] \in [user : Users \cup {None}, price : Prices, status : Statuses \cup {"none"}]
          /\ sub[c].user \in Users
      BY <1>7 DEF CancelSubscription, Entitled, TypeOK, SubsOwned
    <3> QED BY <3>1 DEF Statuses, Terminal
  <2>2. /\ Emit("deleted", c, s) /\ Record(c, s) /\ UNCHANGED <<row, createVars, handler, shuffled>>
    BY <1>7 DEF CancelSubscription
  <2> HIDE DEF s
  <2> QED BY <2>1, <2>2, EmitStep
<1>8. ASSUME NEW d \in Deliveries, NEW e \in pending, Deliver(d, e) PROVE Entitled'
  BY <1>8, LogType DEF createVars, Deliver, Entitled, TypeOK, SubsOwned, EventsPaid, RowsOwned, HandlersMatch,
              PaidForTier, Event, Unresolved
<1>9. ASSUME NEW d \in Deliveries, FindTenant(d) PROVE Entitled'
  <2>1. UNCHANGED <<row, createVars, sub, log, paid, due>>
    BY <1>9 DEF FindTenant
  <2>2. CASE Acknowledge(d)
    <3>1. /\ handler' = [handler EXCEPT ![d] = Idle] /\ pending' \subseteq pending
          /\ shuffled' \subseteq Customers
      BY <1>9, <2>2, AcknowledgeStep DEF FindTenant
    <3> QED BY <2>1, <3>1 DEF createVars, Entitled, TypeOK, SubsOwned, EventsPaid, RowsOwned,
                              HandlersMatch, PaidForTier, Event, Unresolved, Idle
  <2>3. ASSUME ~Unresolved(Event(d)), NEW r \in Candidates(Event(d)),
               handler' = [handler EXCEPT ![d] = [@ EXCEPT !.pc = "update", !.row = r]],
               UNCHANGED <<pending, shuffled>>
        PROVE  Entitled'
    <3>1. handler[d].event \in 1 .. Len(log) /\ handler[d].event \in Nat
      BY <1>9 DEF FindTenant, Entitled, TypeOK, HandlersMatch
    <3>2. /\ Event(d).customer \in Customers
          /\ sub[Event(d).customer].user = Event(d).user
      BY <3>1, LogType DEF Event, Entitled, TypeOK, EventsPaid
    <3>3. r \in Rows /\ row[r].state = "live" /\ row[r].owner = Event(d).user
      BY <2>3, <3>2 DEF Candidates, RowsOf, Entitled, RowsOwned
    <3> DEFINE new == [handler[d] EXCEPT !.pc = "update", !.row = r]
               HType == [pc : {"idle", "lookup", "update"}, event : Nat, row : Nat]
    <3>4. handler \in [Deliveries -> HType] /\ handler[d] \in HType
      BY DEF Entitled, TypeOK
    <3>5. r \in Nat
      BY <3>3 DEF Rows
    <3>6. /\ new \in HType
          /\ new.pc = "update" /\ new.row = r /\ new.event = handler[d].event
      <4>1. handler[d] \in HType
        BY <3>4
      <4> QED BY <4>1, <3>5
    <3>7. handler' = [handler EXCEPT ![d] = new]
      BY <2>3
    <3> HIDE DEF new
    <3>8. handler' \in [Deliveries -> HType]
      BY <3>4, <3>6, <3>7
    <3>9. TypeOK' /\ SubsOwned' /\ EventsPaid' /\ RowsOwned' /\ PaidForTier'
      BY <2>1, <2>3, <3>8 DEF createVars, Entitled, TypeOK, SubsOwned, EventsPaid, RowsOwned, PaidForTier
    <3>10. HandlersMatch'
      BY <2>1, <2>3, <3>1, <3>3, <3>4, <3>6, <3>7
         DEF Entitled, HandlersMatch, Event, Unresolved
    <3> QED BY <3>9, <3>10 DEF Entitled
  <2> QED BY <1>9, <2>2, <2>3 DEF FindTenant
<1>10. ASSUME NEW d \in Deliveries, UpdateBilling(d) PROVE Entitled'
  BY <1>10, UpdateStep
<1>11. ASSUME NEW d \in Deliveries, FailDelivery(d) PROVE Entitled'
  BY <1>11 DEF createVars, FailDelivery, Entitled, TypeOK, SubsOwned, EventsPaid, RowsOwned,
               HandlersMatch, PaidForTier, Event, Unresolved, Idle
<1> QED BY <1>1, <1>2a, <1>2, <1>3, <1>4, <1>5, <1>6, <1>7, <1>8, <1>9, <1>10, <1>11 DEF Next

(* Every column, event and request keeps its type. *)
THEOREM BillingTyped == Spec => []TypeOK
<1>1. Entitled => TypeOK
  BY DEF Entitled
<1> QED BY <1>1, InitEntitled, StepEntitled, PTL DEF Spec

(* The webhook handlers never put a tenant on a tier its owner has not paid *)
(* for, for any number and order of events and deliveries.                  *)
THEOREM PaidForTierCorrect == Spec => []PaidForTier
<1>1. Entitled => PaidForTier
  BY DEF Entitled
<1> QED BY <1>1, InitEntitled, StepEntitled, PTL DEF Spec

-----------------------------------------------------------------------------
\* A create that has passed the check counts as a tenant already, and a count
\* that was read is not too low.
Claimed(u) == Cardinality(RowsOf(u)) + (IF u \in creating THEN 1 ELSE 0)

Limited ==
    \A u \in Users :
        /\ \E tier \in paid[u] \cup {"free"} : Claimed(u) <= MaxTenants(tier)
        /\ u \in counting => u \notin creating /\ Cardinality(RowsOf(u)) <= counted[u]

\* The limits are numbers.
LEMMA MaxTenantsType == \A tier : MaxTenants(tier) \in Nat
BY DEF MaxTenants

\* A step that leaves the rows' states and owners, the creates and what was
\* paid alone, or adds to what was paid, keeps within the limits.
LEMMA SameRows ==
    ASSUME Limited, Entitled, UNCHANGED createVars,
           \A u \in Users : paid[u] \subseteq paid'[u],
           \A r \in Rows : row'[r].state = row[r].state /\ row'[r].owner = row[r].owner
    PROVE  Limited'
<1>1. \A u : RowsOf(u)' = RowsOf(u)
  BY DEF RowsOf
<1> QED BY <1>1 DEF Limited, Claimed, createVars

\* The count is exact when it is read.
LEMMA CountStep ==
    ASSUME Limited, Entitled, NEW u \in Users, CountTenants(u)
    PROVE  Limited'
<1>1. /\ u \notin creating /\ counting' = counting \cup {u} /\ UNCHANGED <<creating, paid, row>>
      /\ counted' = [counted EXCEPT ![u] = Cardinality(RowsOf(u))]
      /\ counted \in [Users -> Nat]
  BY DEF CountTenants, Entitled, TypeOK
<1>2. \A v : RowsOf(v)' = RowsOf(v)
  BY <1>1 DEF RowsOf
<1>3. \A v \in Users : Claimed(v)' = Claimed(v)
  BY <1>1, <1>2 DEF Claimed
<1> QED BY <1>1, <1>2, <1>3, RowsOfFinite DEF Limited

\* The limit check claims a tenant on the strength of a tier that was paid for.
LEMMA CheckStep ==
    ASSUME Limited, Entitled, NEW u \in Users, CheckLimit(u)
    PROVE  Limited'
<1>1. /\ u \in counting /\ counting' = counting \ {u} /\ paid' = paid /\ row' = row
      /\ counted' = [counted EXCEPT ![u] = 0] /\ counted \in [Users -> Nat]
      /\ u \notin creating /\ Cardinality(RowsOf(u)) <= counted[u]
  BY DEF CheckLimit, Entitled, TypeOK, Limited
<1>2. \A v : RowsOf(v)' = RowsOf(v)
  BY <1>1 DEF RowsOf
<1>3. CASE UnderLimit(u)
  <2>1. creating' = creating \cup {u}
    BY <1>3 DEF CheckLimit
  <2>2. PICK r \in RowsOf(u) \cup {0} :
          counted[u] < MaxTenants(IF r = 0 THEN "free" ELSE row[r].tier)
    BY <1>3 DEF UnderLimit
  <2>3. PICK tier \in paid[u] \cup {"free"} : counted[u] < MaxTenants(tier)
    <3>1. CASE r = 0
      BY <2>2, <3>1
    <3>2. CASE r # 0
      <4>1. r \in Rows /\ row[r].owner = u
        BY <2>2, <3>2 DEF RowsOf
      <4>2. row[r].tier \in paid[u] \cup {"free"}
        BY <4>1 DEF Entitled, PaidForTier
      <4> QED BY <2>2, <3>2, <4>2
    <3> QED BY <3>1, <3>2
  <2>4. Claimed(u)' <= MaxTenants(tier)
    <3>1. Claimed(u)' = Cardinality(RowsOf(u)) + 1
      BY <2>1, <1>2 DEF Claimed
    <3>2. counted[u] \in Nat
      BY <1>1
    <3> QED BY <3>1, <3>2, <1>1, <2>3, RowsOfFinite, MaxTenantsType
  <2>5. \A v \in Users : v # u => Claimed(v)' = Claimed(v)
    BY <2>1, <1>2 DEF Claimed
  <2> QED BY <1>1, <1>2, <2>1, <2>3, <2>4, <2>5 DEF Limited
<1>4. CASE ~UnderLimit(u)
  <2>1. creating' = creating
    BY <1>4 DEF CheckLimit
  <2>2. \A v \in Users : Claimed(v)' = Claimed(v)
    BY <2>1, <1>2 DEF Claimed
  <2> QED BY <1>1, <1>2, <2>1, <2>2 DEF Limited
<1> QED BY <1>3, <1>4

\* The insert turns a claim into a tenant, or gives it up.
LEMMA InsertStep ==
    ASSUME Limited, Entitled, NEW u \in Users, InsertTenant(u)
    PROVE  Limited'
<1>1. /\ u \in creating /\ creating' = creating \ {u} /\ UNCHANGED <<paid, counting, counted>>
      /\ u \notin counting
  BY DEF InsertTenant, Limited
<1>2. Claimed(u) = Cardinality(RowsOf(u)) + 1
  BY <1>1 DEF Claimed
<1>3. /\ \A v \in Users : v # u => RowsOf(v)' = RowsOf(v)
      /\ Cardinality(RowsOf(u))' <= Cardinality(RowsOf(u)) + 1
  <2>1. CASE UNCHANGED row
    <3>1. \A v : RowsOf(v)' = RowsOf(v)
      BY <2>1 DEF RowsOf
    <3> QED BY <3>1, RowsOfFinite
  <2>2. ASSUME NEW r \in Rows, row[r].state = "absent",
               row' = [row EXCEPT ![r] = [NoRow EXCEPT !.state = "live", !.owner = u]]
        PROVE  <1>3!1 /\ <1>3!2
    <3> DEFINE new == [NoRow EXCEPT !.state = "live", !.owner = u]
    <3>1. new.state = "live" /\ new.owner = u
      BY DEF NoRow
    <3> HIDE DEF new
    <3>2. row' = [row EXCEPT ![r] = new] /\ DOMAIN row = Rows
      BY <2>2 DEF new, Entitled, TypeOK
    <3>3. \A v \in Users : v # u => RowsOf(v)' = RowsOf(v)
      BY <2>2, <3>1, <3>2 DEF RowsOf
    <3>4. RowsOf(u)' = RowsOf(u) \cup {r}
      BY <2>2, <3>1, <3>2 DEF RowsOf
    <3>5. Cardinality(RowsOf(u) \cup {r}) <= Cardinality(RowsOf(u)) + 1
      <4>1. IsFiniteSet(RowsOf(u)) /\ Cardinality(RowsOf(u)) \in Nat
        BY RowsOfFinite
      <4>2. Cardinality(RowsOf(u) \cup {r}) =
              IF r \in RowsOf(u) THEN Cardinality(RowsOf(u)) ELSE Cardinality(RowsOf(u)) + 1
        BY <4>1, FS_AddElement
      <4> QED BY <4>1, <4>2
    <3> QED BY <3>3, <3>4, <3>5
  <2> QED BY <2>1, <2>2 DEF InsertTenant
<1>4. Claimed(u)' <= Claimed(u)
  <2>1. Claimed(u)' = Cardinality(RowsOf(u))'
    <3>1. Claimed(u)' = Cardinality(RowsOf(u)') + 0
      BY <1>1 DEF Claimed
    <3>2. Cardinality(RowsOf(u)') \in Nat
      BY RowsOfFinite
    <3> QED BY <3>1, <3>2
  <2> QED BY <2>1, <1>2, <1>3
<1>5. \A v \in Users : v # u => Claimed(v)' = Claimed(v)
  BY <1>1, <1>3 DEF Claimed
<1>6. Claimed(u) \in Nat /\ Claimed(u)' \in Nat
  BY RowsOfFinite DEF Claimed
<1>7. \A v \in Users : v \in counting => RowsOf(v)' = RowsOf(v)
  BY <1>1, <1>3
<1> QED BY <1>1, <1>4, <1>5, <1>6, <1>7, MaxTenantsType DEF Limited

\* A delete only takes a tenant away.
LEMMA DeleteStep ==
    ASSUME Limited, Entitled, NEW r \in Rows, DeleteTenant(r)
    PROVE  Limited'
<1>1. UNCHANGED <<counting, counted, creating, paid>> /\ counted \in [Users -> Nat]
  BY DEF DeleteTenant, createVars, Entitled, TypeOK
<1> DEFINE new == [row[r] EXCEPT !.state = "deleted"]
<1>2. new.state = "deleted"
  <2>1. row[r] \in RowType
    BY DEF Entitled, TypeOK
  <2> QED BY <2>1 DEF RowType
<1>3. row' = [row EXCEPT ![r] = new] /\ DOMAIN row = Rows
  BY DEF DeleteTenant, Entitled, TypeOK
<1> HIDE DEF new
<1>4. \A u : RowsOf(u)' \subseteq RowsOf(u)
  BY <1>2, <1>3 DEF RowsOf
<1>5. \A u : Cardinality(RowsOf(u)') <= Cardinality(RowsOf(u))
  BY <1>4, RowsOfFinite, FS_Subset
<1>6. \A u \in Users : Claimed(u) \in Nat /\ Claimed(u)' \in Nat /\ Claimed(u)' <= Claimed(u)
  BY <1>1, <1>5, RowsOfFinite DEF Claimed
<1>7. \A u \in Users : u \in counting => Cardinality(RowsOf(u)') <= counted'[u]
  BY <1>1, <1>5, RowsOfFinite DEF Limited
<1> QED BY <1>1, <1>6, <1>7, MaxTenantsType DEF Limited

\* Every step keeps within the limits.
LEMMA StepLimited == Limited /\ Entitled /\ [Next]_vars => Limited'
<1> SUFFICES ASSUME Limited, Entitled, [Next]_vars PROVE Limited'
  OBVIOUS
<1>1. CASE UNCHANGED vars
  BY <1>1, SameRows DEF vars, createVars
<1>2a. ASSUME NEW u \in Users, CountTenants(u) PROVE Limited'
  BY <1>2a, CountStep
<1>2. ASSUME NEW u \in Users, CheckLimit(u) PROVE Limited'
  BY <1>2, CheckStep
<1>3. ASSUME NEW u \in Users, InsertTenant(u) PROVE Limited'
  BY <1>3, InsertStep
<1>4. ASSUME NEW r \in Rows, DeleteTenant(r) PROVE Limited'
  BY <1>4, DeleteStep
<1>5. ASSUME NEW c \in Customers, NEW s, Record(c, s), UNCHANGED <<row, createVars>>
      PROVE  Limited'
  <2>1. \A u \in Users : paid[u] \subseteq paid'[u]
    BY <1>5 DEF Record, Entitled, TypeOK
  <2> QED BY <1>5, <2>1, SameRows
<1>6. ASSUME NEW u \in Users, NEW c \in Customers, NEW tier \in PaidTiers, Checkout(u, c, tier)
      PROVE  Limited'
  BY <1>5, <1>6 DEF Checkout
<1>7. ASSUME NEW c \in Customers, NEW p \in Prices, NEW st \in Statuses,
             ChangeSubscription(c, p, st)
      PROVE  Limited'
  BY <1>5, <1>7 DEF ChangeSubscription
<1>8. ASSUME NEW c \in Customers, CancelSubscription(c) PROVE Limited'
  BY <1>5, <1>8 DEF CancelSubscription
<1>9. ASSUME NEW d \in Deliveries, NEW e \in pending, Deliver(d, e) PROVE Limited'
  BY <1>9, SameRows DEF Deliver
<1>10. ASSUME NEW d \in Deliveries, FindTenant(d) PROVE Limited'
  BY <1>10, SameRows DEF FindTenant
<1>11. ASSUME NEW d \in Deliveries, UpdateBilling(d) PROVE Limited'
  <2>1. UNCHANGED createVars /\ UNCHANGED paid
    BY <1>11 DEF UpdateBilling
  <2>2. \A r \in Rows : row'[r].state = row[r].state /\ row'[r].owner = row[r].owner
    BY <1>11 DEF UpdateBilling, Entitled, TypeOK
  <2> QED BY <2>1, <2>2, SameRows
<1>12. ASSUME NEW d \in Deliveries, FailDelivery(d) PROVE Limited'
  BY <1>12, SameRows DEF FailDelivery
<1> QED BY <1>1, <1>2a, <1>2, <1>3, <1>4, <1>6, <1>7, <1>8, <1>9, <1>10, <1>11, <1>12 DEF Next

(* A user who makes one create at a time never owns more tenants than the   *)
(* best tier they paid for allows, whatever the webhooks do meanwhile.      *)
THEOREM TierLimitCorrect == Spec => []WithinTierLimit
<1>1. Init => Limited
  <2> SUFFICES ASSUME Init, NEW u \in Users PROVE Claimed(u) <= MaxTenants("free")
    BY DEF Limited, Init
  <2>1. RowsOf(u) = {} /\ u \notin creating
    BY DEF Init, RowsOf, NoRow
  <2>2. Cardinality(RowsOf(u)) = 0
    BY <2>1, FS_EmptySet
  <2> QED BY <2>1, <2>2 DEF Claimed, MaxTenants
<1>2. Limited => WithinTierLimit
  <2> SUFFICES ASSUME Limited, NEW u \in Users
               PROVE  \E tier \in paid[u] \cup {"free"} : Cardinality(RowsOf(u)) <= MaxTenants(tier)
    BY DEF WithinTierLimit
  <2>1. PICK tier \in paid[u] \cup {"free"} : Claimed(u) <= MaxTenants(tier)
    BY DEF Limited
  <2>2. Cardinality(RowsOf(u)) <= MaxTenants(tier)
    BY <2>1, RowsOfFinite, MaxTenantsType DEF Claimed
  <2> QED BY <2>2
<1> QED BY <1>1, <1>2, InitEntitled, StepEntitled, StepLimited, PTL DEF Spec
-----------------------------------------------------------------------------
(* Convergence.  While no event of a customer overtakes an earlier one and  *)
(* its checkout is handled once, the tier its tenant ends with is the one   *)
(* its subscription stands for, however many deliveries fail or are made    *)
(* again on the way.                                                        *)

\* Pending events of a customer that will change its tenant's tier.
Coming(c) == {e \in pending : log[e].customer = c /\ ~Unresolved(log[e])}

\* An event that is being handled is handled by one delivery and, unless its
\* customer is shuffled, the oldest of its customer that is not answered.
InTurn ==
    /\ \A d \in Deliveries : handler[d].pc # "idle" =>
          /\ handler[d].event \in pending
          /\ Event(d).customer \notin shuffled =>
                \A f \in pending : log[f].customer = Event(d).customer => handler[d].event <= f
    /\ \A d, b \in Deliveries :
          (/\ handler[d].pc # "idle" /\ handler[b].pc # "idle"
           /\ handler[d].event = handler[b].event) => d = b

\* A customer begins with its checkout.
CheckoutFirst ==
    \A i, j \in 1 .. Len(log) :
        (log[i].type = "checkout" /\ log[j].customer = log[i].customer) => i <= j

\* A customer has one row, which is the one that is about to be updated, and
\* none before its checkout is dealt with.
OneRow ==
    /\ \A r, q \in Rows :
          (row[r].customer = row[q].customer /\ row[r].customer \notin shuffled \cup {None}) => r = q
    /\ \A d \in Deliveries : (handler[d].pc = "update" /\ Event(d).customer \notin shuffled) =>
          \A q \in Rows : row[q].customer = Event(d).customer => q = handler[d].row
    /\ \A e \in pending : (log[e].type = "checkout" /\ log[e].customer \notin shuffled) =>
          \A q \in Rows : row[q].customer # log[e].customer

\* What is due is what the last event to come will write, and what is written
\* already when none is to come.
Converging ==
    /\ \A c \in Customers \ shuffled : \A e \in Coming(c) :
          (\A f \in Coming(c) : f <= e) => TierOf(log[e]) = due[c]
    /\ \A r \in Rows : \A c \in Customers \ shuffled :
          (row[r].state = "live" /\ row[r].customer = c /\ Coming(c) = {})
              => row[r].tier = due[c]

Convergent == InTurn /\ CheckoutFirst /\ OneRow /\ Converging


\* A handler's event is in the log and has the types of an event.
LEMMA EventTyped ==
    ASSUME Entitled, NEW d \in Deliveries, handler[d].pc # "idle"
    PROVE  /\ handler[d].event \in 1 .. Len(log) /\ handler[d].event \in Nat
           /\ Event(d).customer \in Customers /\ Event(d).user \in Users
<1>1. handler[d].event \in 1 .. Len(log)
  BY DEF Entitled, HandlersMatch
<1> QED BY <1>1, LogType DEF Event, Entitled, TypeOK

\* A step that leaves events, handlers and what is due alone, gives no row a
\* customer and no live row another tier keeps Convergent.
LEMMA SameEvents ==
    ASSUME Convergent, Entitled, UNCHANGED <<log, pending, handler, due, shuffled>>,
           \A r \in Rows :
              /\ row'[r].customer \in {None, row[r].customer}
              /\ (row'[r].state = "live" /\ row'[r].customer # None) =>
                    row[r].state = "live" /\ row'[r].tier = row[r].tier
    PROVE  Convergent'
<1>1. \A c : Coming(c)' = Coming(c)
  BY DEF Coming, Unresolved
<1>2. InTurn' /\ CheckoutFirst'
  BY DEF Convergent, InTurn, CheckoutFirst, Event
<1>3. OneRow'
  <2>1. \A r, q \in Rows :
          (row'[r].customer = row'[q].customer /\ row'[r].customer \notin shuffled' \cup {None}) => r = q
    BY DEF Convergent, OneRow
  <2>2. ASSUME NEW d \in Deliveries, handler'[d].pc = "update", NEW q \in Rows,
               Event(d)'.customer \notin shuffled', row'[q].customer = Event(d)'.customer
        PROVE  q = handler'[d].row
    <3>1. handler[d].pc = "update" /\ Event(d)' = Event(d) /\ Event(d).customer \in Customers
      BY <2>2, EventTyped DEF Event
    <3>2. row[q].customer = Event(d).customer /\ Event(d).customer \notin shuffled
      BY <2>2, <3>1, NoneAssumption
    <3> QED BY <2>2, <3>1, <3>2 DEF Convergent, OneRow
  <2>3. ASSUME NEW e \in pending', log'[e].type = "checkout", NEW q \in Rows,
               log'[e].customer \notin shuffled'
        PROVE  row'[q].customer # log'[e].customer
    <3>1. e \in 1 .. Len(log) /\ log[e].customer \in Customers
      BY LogType DEF Entitled, TypeOK
    <3> QED BY <2>3, <3>1 DEF Convergent, OneRow
  <2> QED BY <2>1, <2>2, <2>3 DEF OneRow
<1>4. Converging'
  <2>1. ASSUME NEW c \in Customers \ shuffled, NEW e \in Coming(c)', \A f \in Coming(c)' : f <= e
        PROVE  TierOf(log'[e]) = due'[c]
    BY <1>1, <2>1 DEF Convergent, Converging
  <2>2. ASSUME NEW r \in Rows, NEW c \in Customers \ shuffled,
               row'[r].state = "live", row'[r].customer = c, Coming(c)' = {}
        PROVE  row'[r].tier = due'[c]
    BY <1>1, <2>2 DEF Convergent, Converging
  <2> QED BY <2>1, <2>2 DEF Converging, TierOf, Ended
<1> QED BY <1>2, <1>3, <1>4 DEF Convergent

\* A new event is the last of its customer, and what is due is what it writes.
LEMMA EmitConverges ==
    ASSUME Convergent, Entitled,
           NEW type \in {"checkout", "updated", "deleted"}, NEW c \in Customers,
           NEW s \in [user : Users, price : Prices, status : Statuses],
           type = "checkout" =>
              sub[c].status = "none" /\ s.price \in PaidTiers /\ s.status \in Live,
           type = "deleted" => s.status = "canceled",
           Emit(type, c, s), Record(c, s), UNCHANGED <<row, createVars, handler, shuffled>>
    PROVE  Convergent'
<1> DEFINE e == [type |-> type, customer |-> c, user |-> s.user,
                 price |-> s.price, status |-> s.status]
           n == Len(log) + 1
<1>1. /\ n \in Nat /\ n \notin 1 .. Len(log) /\ \A i \in 1 .. Len(log) : i \in Nat /\ i < n
      /\ pending' = pending \cup {n} /\ pending \subseteq 1 .. Len(log)
      /\ \A i \in 1 .. Len(log) : log'[i] = log[i]
      /\ log'[n] = e /\ 1 .. Len(log') = (1 .. Len(log)) \cup {n}
  <2>1. e \in Events
    BY DEF Events
  <2> HIDE DEF e
  <2>2. log' = Append(log, e) /\ log \in Seq(Events)
    BY DEF e, Emit, Entitled, TypeOK
  <2>3. Len(log) \in Nat /\ Len(log') = Len(log) + 1
    BY <2>1, <2>2
  <2>4. 1 .. Len(log') = (1 .. Len(log)) \cup {n}
    BY <2>3
  <2> QED BY <2>1, <2>2, <2>3, <2>4 DEF Emit, Entitled, TypeOK
<1>2. e.type = type /\ e.customer = c /\ e.price = s.price /\ e.status = s.status
  OBVIOUS
<1> HIDE DEF e, n
<1>3. \A i \in 1 .. Len(log) : log[i].customer \in Customers
  BY LogType DEF Entitled, TypeOK
<1>4. type = "checkout" =>
        /\ \A i \in 1 .. Len(log) : log[i].customer # c
        /\ \A q \in Rows : row[q].customer # c
  <2>1. c # None
    BY NoneAssumption
  <2> QED BY <2>1 DEF Entitled, EventsPaid, RowsOwned
<1>5. \A d \in Deliveries : handler[d].pc # "idle" =>
        /\ handler[d].event \in 1 .. Len(log) /\ Event(d)' = Event(d)
  BY <1>1, EventTyped DEF Event
<1>6. /\ \A b \in Customers : b # c => Coming(b)' = Coming(b) /\ due'[b] = due[b]
      /\ Unresolved(e) => Coming(c)' = Coming(c) /\ due'[c] = due[c]
      /\ ~Unresolved(e) => Coming(c)' = Coming(c) \cup {n} /\ due'[c] = TierOf(e)
  <2>1. ASSUME NEW b \in Customers, NEW i
        PROVE  i \in Coming(b)' <=> (i \in Coming(b) \/ (i = n /\ b = c /\ ~Unresolved(e)))
    <3>1. CASE i \in 1 .. Len(log)
      BY <3>1, <1>1 DEF Coming, Unresolved
    <3>2. CASE i = n
      BY <3>2, <1>1, <1>2 DEF Coming, Unresolved
    <3>3. CASE i \notin (1 .. Len(log)) \cup {n}
      BY <3>3, <1>1 DEF Coming
    <3> QED BY <3>1, <3>2, <3>3
  <2>2. \A b \in Customers : b # c => due'[b] = due[b]
    BY DEF Record, Entitled, TypeOK
  <2>3. Unresolved(e) => due'[c] = due[c]
    BY <1>2 DEF Unresolved, Record
  <2>4. ~Unresolved(e) => due'[c] = TierOf(e)
    <3>1. due \in [Customers -> Tiers]
      BY DEF Entitled, TypeOK
    <3>2. CASE type = "checkout"
      BY <1>2, <3>1, <3>2 DEF Record, TierOf, Ended, GetTierFromPriceID
    <3>3. CASE type = "deleted"
      BY <1>2, <3>1, <3>3 DEF Record, TierOf, Ended, Terminal, Live
    <3>4. CASE type = "updated"
      BY <1>2, <3>1, <3>4 DEF Record, TierOf, Ended, Unresolved, Terminal, Live
    <3> QED BY <3>2, <3>3, <3>4
  <2> QED BY <2>1, <2>2, <2>3, <2>4
<1>7. InTurn'
  <2>1. ASSUME NEW d \in Deliveries, handler'[d].pc # "idle"
        PROVE  /\ handler'[d].event \in pending'
               /\ Event(d)'.customer \notin shuffled' =>
                     \A f \in pending' : log'[f].customer = Event(d)'.customer => handler'[d].event <= f
    <3>1. /\ handler'[d] = handler[d] /\ handler[d].event \in 1 .. Len(log) /\ Event(d)' = Event(d)
          /\ handler[d].event \in pending
          /\ Event(d).customer \notin shuffled =>
                \A f \in pending : log[f].customer = Event(d).customer => handler[d].event <= f
      BY <2>1, <1>5 DEF Convergent, InTurn
    <3>2. handler[d].event <= n
      BY <3>1, <1>1
    <3> QED BY <3>1, <3>2, <1>1
  <2> QED BY <2>1 DEF Convergent, InTurn
<1>8. CheckoutFirst'
  <2> SUFFICES ASSUME NEW i \in 1 .. Len(log'), NEW j \in 1 .. Len(log'),
                      log'[i].type = "checkout", log'[j].customer = log'[i].customer
               PROVE  i <= j
    BY DEF CheckoutFirst
  <2>1. CASE i \in 1 .. Len(log) /\ j \in 1 .. Len(log)
    BY <2>1, <1>1 DEF Convergent, CheckoutFirst
  <2>2. CASE j = n
    BY <2>2, <1>1
  <2>3. CASE i = n /\ j \in 1 .. Len(log)
    BY <2>3, <1>1, <1>2, <1>4
  <2> QED BY <2>1, <2>2, <2>3, <1>1
<1>9. OneRow'
  <2>1. ASSUME NEW d \in Deliveries, handler'[d].pc = "update", NEW q \in Rows,
               Event(d)'.customer \notin shuffled', row'[q].customer = Event(d)'.customer
        PROVE  q = handler'[d].row
    BY <2>1, <1>5 DEF Convergent, OneRow
  <2>2. ASSUME NEW x \in pending', log'[x].type = "checkout", NEW q \in Rows,
               log'[x].customer \notin shuffled'
        PROVE  row'[q].customer # log'[x].customer
    <3>1. CASE x \in pending
      BY <2>2, <3>1, <1>1 DEF Convergent, OneRow
    <3>2. CASE x = n
      BY <2>2, <3>2, <1>1, <1>2, <1>4
    <3> QED BY <3>1, <3>2, <1>1
  <2> QED BY <2>1, <2>2 DEF Convergent, OneRow
<1>10. \A b \in Customers : \A x \in Coming(b) : x \in 1 .. Len(log) /\ log'[x] = log[x]
  BY <1>1 DEF Coming
<1>11. Converging'
  <2>1. ASSUME NEW b \in Customers \ shuffled, NEW x \in Coming(b)', \A f \in Coming(b)' : f <= x
        PROVE  TierOf(log'[x]) = due'[b]
    <3>1. CASE b # c \/ Unresolved(e)
      <4>1. Coming(b)' = Coming(b) /\ due'[b] = due[b]
        BY <3>1, <1>6
      <4> QED BY <4>1, <2>1, <1>10 DEF Convergent, Converging
    <3>2. CASE b = c /\ ~Unresolved(e)
      <4>1. n \in Coming(b)' /\ due'[b] = TierOf(e) /\ Coming(b)' = Coming(c) \cup {n}
        BY <3>2, <1>6
      <4>2. x = n
        BY <4>1, <2>1, <1>1, <1>10
      <4> QED BY <4>1, <4>2, <1>1
    <3> QED BY <3>1, <3>2
  <2>2. ASSUME NEW r \in Rows, NEW b \in Customers \ shuffled,
               row'[r].state = "live", row'[r].customer = b, Coming(b)' = {}
        PROVE  row'[r].tier = due'[b]
    <3>1. Coming(b) = {} /\ due'[b] = due[b]
      BY <2>2, <1>6
    <3> QED BY <2>2, <3>1 DEF Convergent, Converging
  <2> QED BY <2>1, <2>2 DEF Converging, TierOf, Ended
<1> QED BY <1>7, <1>8, <1>9, <1>11 DEF Convergent

\* A delivery that begins is in turn, or its customer is shuffled.
LEMMA DeliverConverges ==
    ASSUME Convergent, Entitled, NEW d \in Deliveries, NEW e \in pending, Deliver(d, e)
    PROVE  Convergent'
<1>1. /\ UNCHANGED <<row, log, pending, due>> /\ ~InFlight(e) /\ handler[d].pc = "idle"
      /\ handler' = [handler EXCEPT ![d] = [pc |-> "lookup", event |-> e, row |-> 0]]
      /\ DOMAIN handler = Deliveries
      /\ shuffled \subseteq shuffled'
  BY DEF Deliver, Entitled, TypeOK
<1>2. /\ handler'[d].pc = "lookup" /\ handler'[d].event = e
      /\ \A b \in Deliveries : b # d => handler'[b] = handler[b]
  BY <1>1
<1>3. \A b \in Deliveries : handler[b].pc # "idle" => handler[b].event # e
  BY <1>1 DEF InFlight
<1>4. log[e].customer \notin shuffled' =>
        \A f \in pending : log[f].customer = log[e].customer => e <= f
  <2> SUFFICES ASSUME log[e].customer \notin shuffled', NEW f \in pending,
                      log[f].customer = log[e].customer
               PROVE  e <= f
    OBVIOUS
  <2>1. ~(f < e)
    BY DEF Deliver
  <2>2. e \in Nat /\ f \in Nat
    BY DEF Entitled, TypeOK
  <2> QED BY <2>1, <2>2
<1>5. InTurn'
  <2>1. ASSUME NEW b \in Deliveries, handler'[b].pc # "idle"
        PROVE  /\ handler'[b].event \in pending'
               /\ Event(b)'.customer \notin shuffled' =>
                     \A f \in pending' : log'[f].customer = Event(b)'.customer => handler'[b].event <= f
    BY <1>1, <1>2, <1>4, <2>1 DEF Convergent, InTurn, Event
  <2>2. ASSUME NEW a \in Deliveries, NEW b \in Deliveries, handler'[a].pc # "idle",
               handler'[b].pc # "idle", handler'[a].event = handler'[b].event
        PROVE  a = b
    BY <1>2, <1>3, <2>2 DEF Convergent, InTurn
  <2> QED BY <2>1, <2>2 DEF InTurn
<1>6. CheckoutFirst' /\ OneRow'
  BY <1>1, <1>2 DEF Convergent, CheckoutFirst, OneRow, Event
<1>7. Converging'
  BY <1>1 DEF Convergent, Converging, Coming, TierOf, Ended, Unresolved
<1> QED BY <1>5, <1>6, <1>7 DEF Convergent

\* One that fails leaves its event to be delivered again.
LEMMA FailConverges ==
    ASSUME Convergent, Entitled, NEW d \in Deliveries, FailDelivery(d)
    PROVE  Convergent'
<1>1. /\ UNCHANGED <<row, log, pending, due, shuffled>> /\ handler'[d].pc = "idle"
      /\ \A b \in Deliveries : b # d => handler'[b] = handler[b]
  BY DEF FailDelivery, Idle, Entitled, TypeOK
<1>2. InTurn'
  BY <1>1 DEF Convergent, InTurn, Event
<1>3. CheckoutFirst' /\ OneRow'
  BY <1>1 DEF Convergent, CheckoutFirst, OneRow, Event
<1>4. Converging'
  BY <1>1 DEF Convergent, Converging, Coming, TierOf, Ended, Unresolved
<1> QED BY <1>2, <1>3, <1>4 DEF Convergent

\* What an answer with 200 does, common to an event that is skipped and one
\* that is applied: the event is taken off, or stays to be delivered again.
LEMMA Answered ==
    ASSUME Convergent, Entitled, NEW d \in Deliveries, handler[d].pc # "idle",
           Acknowledge(d), UNCHANGED <<log, due>>
    PROVE  /\ shuffled \subseteq shuffled' /\ pending' \subseteq pending
           /\ \A b \in Deliveries : handler'[b].pc # "idle" =>
                 /\ b # d /\ handler'[b] = handler[b] /\ Event(b)' = Event(b)
                 /\ Event(d).customer \notin shuffled => Event(b).customer # Event(d).customer
           /\ InTurn' /\ CheckoutFirst'
           /\ \A c \in Customers : Coming(c) \ {handler[d].event} \subseteq Coming(c)'
           /\ \A c \in Customers : c # Event(d).customer => Coming(c)' = Coming(c)
           /\ \A c \in Customers \ shuffled' : \A e \in Coming(c)' :
                 (\A f \in Coming(c)' : f <= e) => TierOf(log'[e]) = due'[c]
           /\ \A e \in pending' : (log'[e].type = "checkout" /\ log'[e].customer \notin shuffled') =>
                 log'[e].customer # Event(d).customer
<1> DEFINE x == handler[d].event
           c0 == Event(d).customer
<1>1. /\ handler' = [handler EXCEPT ![d] = Idle] /\ DOMAIN handler = Deliveries
      /\ shuffled \subseteq shuffled'
      /\ \/ pending' = pending \ {x}
         \/ pending' = pending /\ (Event(d).type = "checkout" => c0 \in shuffled')
  BY DEF Acknowledge, Entitled, TypeOK
<1>2. /\ x \in pending /\ x \in 1 .. Len(log) /\ x \in Nat /\ Event(d) = log[x]
      /\ c0 \notin shuffled => \A f \in pending : log[f].customer = c0 => x <= f
  BY EventTyped DEF Convergent, InTurn, Event
<1>3. \A i \in pending : i \in 1 .. Len(log) /\ i \in Nat
  BY DEF Entitled, TypeOK
<1>4. /\ handler'[d].pc = "idle"
      /\ \A b \in Deliveries : b # d => handler'[b] = handler[b] /\ Event(b)' = Event(b)
  BY <1>1 DEF Idle, Event
<1> HIDE DEF x, c0
<1>5. ASSUME NEW b \in Deliveries, handler'[b].pc # "idle"
      PROVE  /\ b # d /\ handler'[b] = handler[b] /\ Event(b)' = Event(b)
             /\ handler[b].event # x
             /\ c0 \notin shuffled => Event(b).customer # c0
  <2>1. b # d /\ handler'[b] = handler[b] /\ Event(b)' = Event(b) /\ handler[b].pc # "idle"
    BY <1>4, <1>5
  <2>2. handler[b].event # x
    BY <2>1 DEF x, Convergent, InTurn
  <2>3. /\ handler[b].event \in pending /\ Event(b) = log[handler[b].event]
        /\ Event(b).customer \notin shuffled =>
              \A f \in pending : log[f].customer = Event(b).customer => handler[b].event <= f
    BY <2>1 DEF Convergent, InTurn, Event
  <2>4. ASSUME c0 \notin shuffled, Event(b).customer = c0 PROVE FALSE
    <3>1. x <= handler[b].event /\ handler[b].event <= x
      BY <1>2, <2>3, <2>4 DEF c0
    <3>2. x \in Nat /\ handler[b].event \in Nat
      BY <2>3, <1>2, <1>3
    <3> QED BY <3>1, <3>2, <2>2
  <2> QED BY <2>1, <2>2, <2>4
<1>6. InTurn'
  <2>1. ASSUME NEW b \in Deliveries, handler'[b].pc # "idle"
        PROVE  /\ handler'[b].event \in pending'
               /\ Event(b)'.customer \notin shuffled' =>
                     \A f \in pending' : log'[f].customer = Event(b)'.customer => handler'[b].event <= f
    BY <1>1, <1>5, <2>1 DEF Convergent, InTurn
  <2>2. ASSUME NEW a \in Deliveries, NEW b \in Deliveries, handler'[a].pc # "idle",
               handler'[b].pc # "idle", handler'[a].event = handler'[b].event
        PROVE  a = b
    BY <1>5, <2>2 DEF Convergent, InTurn
  <2> QED BY <2>1, <2>2 DEF InTurn
<1>7. CheckoutFirst'
  BY DEF Convergent, CheckoutFirst
<1>8. \A c \in Customers : Coming(c)' = Coming(c) \ {x} \/ Coming(c)' = Coming(c)
  BY <1>1 DEF Coming, Unresolved
<1>9. \A c \in Customers : c # c0 => x \notin Coming(c)
  BY <1>2 DEF Coming, c0
<1>10. ASSUME NEW c \in Customers \ shuffled', NEW e \in Coming(c)', \A f \in Coming(c)' : f <= e
       PROVE  TierOf(log'[e]) = due'[c]
  <2>1. e \in Coming(c) /\ e \in pending /\ log[e].customer = c /\ c \in Customers \ shuffled
    BY <1>1, <1>8, <1>10 DEF Coming
  <2>2. x \in Coming(c) => x <= e
    BY <1>2, <1>9, <2>1
  <2>3. \A f \in Coming(c) : f <= e
    BY <1>8, <1>10, <2>2
  <2> QED BY <2>1, <2>3 DEF Convergent, Converging
<1>11. ASSUME NEW e \in pending', log'[e].type = "checkout", log'[e].customer \notin shuffled'
       PROVE  log'[e].customer # c0
  <2>1. e \in pending /\ e \in 1 .. Len(log) /\ e \in Nat /\ log[e].customer \notin shuffled
    BY <1>1, <1>3, <1>11
  <2>2. log[e].customer = c0 => e <= x /\ x <= e
    BY <1>2, <1>11, <2>1 DEF Convergent, CheckoutFirst, c0
  <2>3. e = x => Event(d).type = "checkout" /\ log[e].customer = c0
    BY <1>2, <1>11 DEF c0
  <2> QED BY <1>1, <1>2, <1>11, <2>1, <2>2, <2>3
<1>12. \A c \in Customers : c # c0 => Coming(c)' = Coming(c)
  BY <1>8, <1>9
<1>13. \A c \in Customers \ shuffled' : \A e \in Coming(c)' :
          (\A f \in Coming(c)' : f <= e) => TierOf(log'[e]) = due'[c]
  BY <1>10
<1> QED BY <1>1, <1>5, <1>6, <1>7, <1>8, <1>11, <1>12, <1>13 DEF x, c0

\* An event that is skipped writes nothing, and there is nothing to write to.
LEMMA SkipConverges ==
    ASSUME Convergent, Entitled, NEW d \in Deliveries, handler[d].pc # "idle",
           Unresolved(Event(d)) \/ Candidates(Event(d)) = {},
           Acknowledge(d), UNCHANGED <<row, log, due>>
    PROVE  Convergent'
<1>1. OneRow'
  <2>1. shuffled \subseteq shuffled' /\ pending' \subseteq pending /\ UNCHANGED <<row, log>>
    BY Answered
  <2>2. \A b \in Deliveries : handler'[b].pc = "update" => handler'[b] = handler[b] /\ Event(b)' = Event(b)
    BY Answered
  <2> QED BY <2>1, <2>2 DEF Convergent, OneRow
<1>2. ASSUME NEW r \in Rows, NEW c \in Customers \ shuffled,
             row[r].state = "live", row[r].customer = c, Coming(c)' = {}
      PROVE  Coming(c) = {}
  <2>1. CASE c # Event(d).customer
    BY <1>2, <2>1, Answered
  <2>2. CASE c = Event(d).customer /\ Unresolved(Event(d))
    <3>1. handler[d].event \notin Coming(c)
      BY <2>2 DEF Coming, Event
    <3> QED BY <1>2, <3>1, Answered
  <2>3. CASE c = Event(d).customer /\ Candidates(Event(d)) = {}
    <3>1. CASE Event(d).type = "checkout"
      BY <1>2, <2>3, <3>1 DEF Convergent, InTurn, OneRow, Event
    <3>2. CASE Event(d).type # "checkout"
      BY <1>2, <2>3, <3>2 DEF Candidates
    <3> QED BY <3>1, <3>2
  <2> QED BY <2>1, <2>2, <2>3
<1>3. Converging'
  <2>1. \A r \in Rows : \A c \in Customers \ shuffled :
          (row'[r].state = "live" /\ row'[r].customer = c /\ Coming(c)' = {})
              => row'[r].tier = due'[c]
    BY <1>2 DEF Convergent, Converging
  <2>3. shuffled \subseteq shuffled'
    BY Answered
  <2>2. \A c \in Customers \ shuffled' : \A e \in Coming(c)' :
          (\A f \in Coming(c)' : f <= e) => TierOf(log'[e]) = due'[c]
    BY Answered
  <2> QED BY <2>1, <2>2, <2>3 DEF Converging, TierOf, Ended
<1>4. InTurn' /\ CheckoutFirst'
  BY Answered
<1> QED BY <1>1, <1>3, <1>4 DEF Convergent

\* The tenant that is found is the one the customer has, if it has one.
LEMMA FindConverges ==
    ASSUME Convergent, Entitled, NEW d \in Deliveries, handler[d].pc # "idle",
           NEW r \in Candidates(Event(d)),
           handler' = [handler EXCEPT ![d] = [@ EXCEPT !.pc = "update", !.row = r]],
           UNCHANGED <<row, log, pending, due, shuffled>>
    PROVE  Convergent'
<1> DEFINE HType == [pc : {"idle", "lookup", "update"}, event : Nat, row : Nat]
<1>1. handler \in [Deliveries -> HType] /\ handler[d] \in HType
  BY DEF Entitled, TypeOK
<1>2. /\ handler'[d].pc = "update" /\ handler'[d].row = r
      /\ handler'[d].event = handler[d].event
  BY <1>1
<1>3. \A b \in Deliveries : b # d => handler'[b] = handler[b]
  BY <1>1
<1>4. \A b \in Deliveries :
        /\ handler'[b].event = handler[b].event /\ Event(b)' = Event(b)
        /\ handler'[b].pc # "idle" <=> handler[b].pc # "idle"
  BY <1>2, <1>3 DEF Event
<1>5. InTurn' /\ CheckoutFirst'
  BY <1>4 DEF Convergent, InTurn, CheckoutFirst
<1>6. ASSUME NEW q \in Rows, row[q].customer = Event(d).customer, Event(d).customer \notin shuffled
      PROVE  q = r
  <2>1. Event(d).customer \in Customers /\ Event(d).customer # None
    BY EventTyped, NoneAssumption
  <2>2. CASE Event(d).type = "checkout"
    BY <1>6, <2>2 DEF Convergent, InTurn, OneRow, Event
  <2>3. CASE Event(d).type # "checkout"
    <3>1. r \in Rows /\ row[r].customer = Event(d).customer
      BY <2>3 DEF Candidates
    <3> QED BY <1>6, <2>1, <3>1 DEF Convergent, OneRow
  <2> QED BY <2>2, <2>3
<1>7. OneRow'
  <2>1. ASSUME NEW b \in Deliveries, handler'[b].pc = "update", NEW q \in Rows,
               Event(b)'.customer \notin shuffled', row'[q].customer = Event(b)'.customer
        PROVE  q = handler'[b].row
    BY <2>1, <1>2, <1>3, <1>4, <1>6 DEF Convergent, OneRow
  <2> QED BY <2>1 DEF Convergent, OneRow
<1>8. Converging'
  BY DEF Convergent, Converging, Coming, TierOf, Ended, Unresolved
<1> QED BY <1>5, <1>7, <1>8 DEF Convergent

\* The update gives its customer's row what the event stands for; if none is to
\* come after it, that is what is due.
LEMMA UpdateConverges ==
    ASSUME Convergent, Entitled, NEW d \in Deliveries, UpdateBilling(d)
    PROVE  Convergent'
<1> DEFINE e == Event(d)
           h == handler[d].row
<1>1. /\ handler[d].pc = "update" /\ handler[d].pc # "idle" /\ UNCHANGED <<log, due>>
      /\ Acknowledge(d)
  BY DEF UpdateBilling
<1>2. /\ h \in Rows /\ ~Unresolved(e) /\ e.customer \in Customers /\ e.customer # None
      /\ handler[d].event \in Coming(e.customer)
  BY <1>1, EventTyped, NoneAssumption
     DEF Entitled, HandlersMatch, Convergent, InTurn, Coming, Event
<1>3. e.customer \notin shuffled => \A q \in Rows : row[q].customer = e.customer => q = h
  BY <1>1 DEF Convergent, OneRow
<1>4. /\ row'[h].state = row[h].state /\ row'[h].customer = e.customer /\ row'[h].tier = TierOf(e)
      /\ \A q \in Rows : q # h => row'[q] = row[q]
  <2>1. DOMAIN row = Rows
    BY DEF Entitled, TypeOK
  <2> QED BY <1>2, <2>1 DEF UpdateBilling
<1> HIDE DEF e, h
<1>5. \A b \in Deliveries : handler'[b].pc # "idle" =>
        /\ b # d /\ handler'[b] = handler[b] /\ Event(b)' = Event(b)
        /\ e.customer \notin shuffled => Event(b).customer # e.customer
  BY <1>1, Answered DEF e
<1>6. /\ pending' \subseteq pending /\ shuffled \subseteq shuffled'
      /\ \A x \in pending' : (log'[x].type = "checkout" /\ log'[x].customer \notin shuffled') =>
            log'[x].customer # e.customer
  BY <1>1, Answered DEF e
<1>7. OneRow'
  <2>1. \A r, q \in Rows :
          (row'[r].customer = row'[q].customer /\ row'[r].customer \notin shuffled' \cup {None}) => r = q
    BY <1>2, <1>3, <1>4, <1>6 DEF Convergent, OneRow
  <2>2. ASSUME NEW b \in Deliveries, handler'[b].pc = "update", NEW q \in Rows,
               Event(b)'.customer \notin shuffled', row'[q].customer = Event(b)'.customer
        PROVE  q = handler'[b].row
    BY <2>2, <1>4, <1>5, <1>6 DEF Convergent, OneRow
  <2>3. ASSUME NEW x \in pending', log'[x].type = "checkout", NEW q \in Rows,
               log'[x].customer \notin shuffled'
        PROVE  row'[q].customer # log'[x].customer
    BY <2>3, <1>1, <1>4, <1>6 DEF Convergent, OneRow
  <2> QED BY <2>1, <2>2, <2>3 DEF OneRow
<1>8. ASSUME NEW r \in Rows, NEW c \in Customers \ shuffled',
             row'[r].state = "live", row'[r].customer = c, Coming(c)' = {}
      PROVE  row'[r].tier = due'[c]
  <2>1. CASE c = e.customer
    <3>1. r = h
      BY <1>3, <1>4, <1>6, <1>8, <2>1
    <3>2. Coming(c) \subseteq {handler[d].event}
      BY <1>1, <1>8, Answered
    <3>3. handler[d].event \in Coming(c) /\ handler[d].event \in Nat
      BY <1>1, <1>2, <2>1, EventTyped
    <3>4. \A f \in Coming(c) : f <= handler[d].event
      BY <3>2, <3>3
    <3>5. TierOf(log[handler[d].event]) = due[c]
      BY <1>6, <3>3, <3>4 DEF Convergent, Converging
    <3> QED BY <1>1, <1>4, <3>1, <3>5 DEF e, Event
  <2>2. CASE c # e.customer
    <3>1. r # h /\ row'[r] = row[r]
      BY <1>4, <1>8, <2>2
    <3>2. Coming(c) = {}
      BY <1>1, <1>8, <2>2, Answered DEF e
    <3> QED BY <1>1, <1>6, <1>8, <3>1, <3>2 DEF Convergent, Converging
  <2> QED BY <2>1, <2>2
<1>9. Converging'
  <2>1. \A c \in Customers \ shuffled' : \A x \in Coming(c)' :
          (\A f \in Coming(c)' : f <= x) => TierOf(log'[x]) = due'[c]
    BY <1>1, Answered
  <2> QED BY <2>1, <1>8 DEF Converging, TierOf, Ended
<1>10. InTurn' /\ CheckoutFirst'
  BY <1>1, Answered
<1> QED BY <1>7, <1>9, <1>10 DEF Convergent

\* Every step keeps Convergent.
LEMMA StepConverges ==
    ASSUME Convergent, Entitled, [Next]_vars
    PROVE  Convergent'
<1>1. ASSUME UNCHANGED <<row, log, pending, handler, due, shuffled>> PROVE Convergent'
  BY <1>1, SameEvents
<1>2. CASE UNCHANGED vars
  BY <1>1, <1>2 DEF vars
<1>3. ASSUME NEW u \in Users, CountTenants(u) \/ CheckLimit(u) PROVE Convergent'
  BY <1>1, <1>3 DEF CountTenants, CheckLimit
<1>4. ASSUME NEW u \in Users, InsertTenant(u) PROVE Convergent'
  <2>1. CASE UNCHANGED row
    BY <1>1, <1>4, <2>1 DEF InsertTenant
  <2>2. ASSUME NEW r \in Rows,
               row' = [row EXCEPT ![r] = [NoRow EXCEPT !.state = "live", !.owner = u]]
        PROVE  Convergent'
    <3>1. row'[r].customer = None /\ \A q \in Rows : q # r => row'[q] = row[q]
      BY <2>2 DEF Entitled, TypeOK, NoRow
    <3>2. UNCHANGED <<log, pending, handler, due, shuffled>>
      BY <1>4 DEF InsertTenant
    <3> QED BY <3>1, <3>2, SameEvents
  <2> QED BY <1>4, <2>1, <2>2 DEF InsertTenant
<1>5. ASSUME NEW r \in Rows, DeleteTenant(r) PROVE Convergent'
  <2>1. row[r] \in RowType /\ row' = [row EXCEPT ![r] = [row[r] EXCEPT !.state = "deleted"]]
        /\ UNCHANGED <<log, pending, handler, due, shuffled>> /\ DOMAIN row = Rows
    BY <1>5 DEF DeleteTenant, Entitled, TypeOK
  <2>2. /\ row'[r].state = "deleted" /\ row'[r].customer = row[r].customer
        /\ \A q \in Rows : q # r => row'[q] = row[q]
    BY <2>1 DEF RowType
  <2> QED BY <2>1, <2>2, SameEvents
<1>6. ASSUME NEW u \in Users, NEW c \in Customers, NEW tier \in PaidTiers, Checkout(u, c, tier)
      PROVE  Convergent'
  <2> DEFINE s == [user |-> u, price |-> tier, status |-> "active"]
  <2>1. /\ s \in [user : Users, price : Prices, status : Statuses]
        /\ s.price \in PaidTiers /\ s.status \in Live
    BY DEF Prices, Statuses, Live
  <2>2. /\ sub[c].status = "none" /\ Emit("checkout", c, s) /\ Record(c, s)
        /\ UNCHANGED <<row, createVars, handler, shuffled>>
    BY <1>6 DEF Checkout
  <2> HIDE DEF s
  <2> QED BY <2>1, <2>2, EmitConverges
<1>7. ASSUME NEW c \in Customers, NEW p \in Prices, NEW st \in Statuses,
             ChangeSubscription(c, p, st)
      PROVE  Convergent'
  <2> DEFINE s == [sub[c] EXCEPT !.price = p, !.status = st]
  <2>1. s \in [user : Users, price : Prices, status : Statuses]
    <3>1. /\ sub[c] \in [user : Users \cup {None}, price : Prices, status : Statuses \cup {"none"}]
          /\ sub[c].user \in Users
      BY <1>7 DEF ChangeSubscription, Entitled, TypeOK, SubsOwned
    <3> QED BY <3>1
  <2>2. /\ Emit("updated", c, s) /\ Record(c, s) /\ UNCHANGED <<row, createVars, handler, shuffled>>
    BY <1>7 DEF ChangeSubscription
  <2> HIDE DEF s
  <2> QED BY <2>1, <2>2, EmitConverges
<1>8. ASSUME NEW c \in Customers, CancelSubscription(c) PROVE Convergent'
  <2> DEFINE s == [sub[c] EXCEPT !.status = "canceled"]
  <2>1. s \in [user : Users, price : Prices, status : Statuses] /\ s.status = "canceled"
    <3>1. /\ sub[c] \in [user : Users \cup {None}, price : Prices, status : Statuses \cup {"none"}]
          /\ sub[c].user \in Users
      BY <1>8 DEF CancelSubscription, Entitled, TypeOK, SubsOwned
    <3> QED BY <3>1 DEF Statuses, Terminal
  <2>2. /\ Emit("deleted", c, s) /\ Record(c, s) /\ UNCHANGED <<row, createVars, handler, shuffled>>
    BY <1>8 DEF CancelSubscription
  <2> HIDE DEF s
  <2> QED BY <2>1, <2>2, EmitConverges
<1>9. ASSUME NEW d \in Deliveries, NEW e \in pending, Deliver(d, e) PROVE Convergent'
  BY <1>9, DeliverConverges
<1>10. ASSUME NEW d \in Deliveries, FindTenant(d) PROVE Convergent'
  <2>1. handler[d].pc # "idle" /\ UNCHANGED <<row, log, due>>
    BY <1>10 DEF FindTenant
  <2>2. CASE (Unresolved(Event(d)) \/ Candidates(Event(d)) = {}) /\ Acknowledge(d)
    BY <2>1, <2>2, SkipConverges
  <2>3. ASSUME NEW r \in Candidates(Event(d)),
               handler' = [handler EXCEPT ![d] = [@ EXCEPT !.pc = "update", !.row = r]],
               UNCHANGED <<pending, shuffled>>
        PROVE  Convergent'
    BY <2>1, <2>3, FindConverges
  <2> QED BY <1>10, <2>2, <2>3 DEF FindTenant
<1>11. ASSUME NEW d \in Deliveries, UpdateBilling(d) PROVE Convergent'
  BY <1>11, UpdateConverges
<1>12. ASSUME NEW d \in Deliveries, FailDelivery(d) PROVE Convergent'
  BY <1>12, FailConverges
<1> QED BY <1>2, <1>3, <1>4, <1>5, <1>6, <1>7, <1>8, <1>9, <1>10, <1>11, <1>12 DEF Next

(* Redelivery converges as far as ReplaysConverge says: once every event of *)
(* a customer is dealt with, its tenant has the tier the subscription       *)
(* stands for, for any number of events, customers and deliveries, side by  *)
(* side, failing and repeated, if none overtook an earlier one and the      *)
(* checkout was handled once.                                               *)
THEOREM ReplaysConvergeCorrect == Spec => []ReplaysConverge
<1>1. Init => Convergent
  BY NoneAssumption DEF Init, Convergent, InTurn, CheckoutFirst, OneRow, Converging, Coming, NoRow, Idle
<1>2. Convergent => ReplaysConverge
  <2> SUFFICES ASSUME Convergent, NEW c \in Customers \ shuffled, Settled(c), NEW r \in Rows,
                      row[r].state = "live", row[r].customer = c
               PROVE  row[r].tier = due[c]
    BY DEF ReplaysConverge, OnDueTier
  <2>1. Coming(c) = {}
    BY DEF Settled, Coming
  <2> QED BY <2>1 DEF Convergent, Converging
<1>3. Convergent /\ Entitled /\ [Next]_vars => Convergent'
  BY StepConverges
<1> QED BY <1>1, <1>2, <1>3, InitEntitled, StepEntitled, PTL DEF Spec
=============================================================================
