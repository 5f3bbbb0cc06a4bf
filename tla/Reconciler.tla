----------------------------- MODULE Reconciler -----------------------------
(***************************************************************************)
(* caddy.Reconcile, the goroutine that the server starts with: it lists    *)
(* the active tenants that have an address and upserts the route of each,  *)
(* DELETE and then POST, while jobs and requests go on changing rows and   *)
(* routes.  This module adds it to Lifecycle, and says what becomes of the *)
(* routes, addresses and containers of tenants over restarts.              *)
(***************************************************************************)
EXTENDS Lifecycle

CONSTANT MaxStarts  \* bound on the starts of the process

ASSUME StartsAssumption == MaxStarts \in Nat \ {0}

VARIABLES
    rec,    \* the reconcile goroutine of this process
    \* History, read by no action:
    cut,    \* tenants that something was in flight for when the process died
    raced,  \* names that were still in the hands of a job or of the reconciler
            \* when the delete of their tenant began
    crossed \* tenants whose container two requests, or one about another
            \* tenant, were to start or stop

recVars == <<vars, rec, cut, raced, crossed>>

\* What the adapter passes on of a tenant row.
TenantRoute == [name : Subdomains, ip : IPs]
RouteOf(t) == [name |-> Subdomain[t], ip |-> lxcIp[t]]

\* cur is the element between its DELETE and its POST; a run that is at "next"
\* with nothing to do has ended.  ok and failed stand for the two counts of the
\* result: ok is the tenants, live at the time, whose route was upserted.
RecType == [start : 1..MaxStarts, pc : {"list", "next", "add"},
            todo : SUBSET TenantRoute, cur : SUBSET TenantRoute,
            failed : SUBSET TenantRoute, ok : SUBSET Tenants]

RecStart(n) == [start |-> n, pc |-> "list", todo |-> {}, cur |-> {}, failed |-> {}, ok |-> {}]

RecInit == Init /\ rec = RecStart(1) /\ cut = {} /\ raced = {} /\ crossed = {}

HoldersOf(e) == {t \in Live : RouteOf(t) = e}

-----------------------------------------------------------------------------
\* Mutant: the status is not part of the predicate.
ListActiveWithIP_AnyStatus == {RouteOf(t) : t \in {u \in Tenants : lxcIp[u] # None}}

ListActiveWithIP ==
    {RouteOf(t) : t \in {u \in Tenants : status[u] = "active" /\ lxcIp[u] # None}}

\* An error of the list ends the run: nothing is retried before the next start.
ReconcileList ==
    /\ rec.pc = "list"
    /\ \/ rec' = [rec EXCEPT !.pc = "next", !.todo = ListActiveWithIP]
       \/ "reconcile" \in Faults /\ rec' = [rec EXCEPT !.pc = "next"]
    /\ UNCHANGED route

\* Mutant: an element that failed is tried again.
UpsertRemove_Retries(e) ==
    /\ rec.pc = "next"
    /\ e \in rec.todo
    /\ \/ /\ RemoveRoute(e.name)
          /\ rec' = [rec EXCEPT !.pc = "add", !.todo = @ \ {e}, !.cur = {e}]
       \/ /\ "reconcile" \in Faults
          /\ rec' = [rec EXCEPT !.failed = @ \cup {e}]
          /\ UNCHANGED route

\* UpsertRoute, first half.  The list has no order.
UpsertRemove(e) ==
    /\ rec.pc = "next"
    /\ e \in rec.todo
    /\ \/ /\ RemoveRoute(e.name)
          /\ rec' = [rec EXCEPT !.pc = "add", !.todo = @ \ {e}, !.cur = {e}]
       \/ /\ "reconcile" \in Faults
          /\ rec' = [rec EXCEPT !.todo = @ \ {e}, !.failed = @ \cup {e}]
          /\ UNCHANGED route

\* Mutant: a route that is already there counts as upserted.
UpsertAdd_AnyRoute(e) ==
    /\ rec.pc = "add"
    /\ e \in rec.cur
    /\ \/ /\ AddRoute(e.name, e.ip)
          /\ rec' = [rec EXCEPT !.pc = "next", !.cur = {}, !.ok = @ \cup HoldersOf(e)]
       \/ /\ "reconcile" \in Faults \/ route[e.name] # None
          /\ rec' = [rec EXCEPT !.pc = "next", !.cur = {}, !.ok = @ \cup HoldersOf(e)]
          /\ UNCHANGED route

\* UpsertRoute, second half.
UpsertAdd(e) ==
    /\ rec.pc = "add"
    /\ e \in rec.cur
    /\ \/ /\ AddRoute(e.name, e.ip)
          /\ rec' = [rec EXCEPT !.pc = "next", !.cur = {}, !.ok = @ \cup HoldersOf(e)]
       \/ /\ "reconcile" \in Faults \/ route[e.name] # None
          /\ rec' = [rec EXCEPT !.pc = "next", !.cur = {}, !.failed = @ \cup {e}]
          /\ UNCHANGED route

Reconcile == ReconcileList \/ \E e \in TenantRoute : UpsertRemove(e) \/ UpsertAdd(e)

-----------------------------------------------------------------------------
\* The reconciler still holds the name and address of a tenant.
Pending(t) == RouteOf(t) \in rec.todo \cup rec.cur

\* A delete that claims its tenant while a job or the reconciler is still going
\* to use what it has read of it.
ObserveRace ==
    raced' = raced \cup {Subdomain[t] : t \in {u \in Tenants :
                 /\ status[u] # "deleting" /\ status'[u] = "deleting"
                 /\ ~At(u, "none") \/ Pending(u)}}

\* A request that has changed the row and not yet seen to the container.
Switching(r) == req[r].pc \in {"power", "rollback"}

\* Requests that switch one tenant at once, and one whose tenant was deleted
\* meanwhile and whose container's id another tenant's container has now.
Crossing ==
    {t \in Tenants : \E r \in Requests : Switching(r) /\
        \/ \E q \in Requests \ {r} : Switching(q) /\ req[r].tenant = t /\ req[q].tenant = t
        \/ req[r].tenant # t /\ \E v \in VMIDs : req[r].lxc = v /\ ctOwner[v] = t}

ObserveCrossing == crossed' = crossed \cup Crossing'

\* The process dies: the next one starts with a reconcile run of its own.
RecRestart ==
    /\ rec.start < MaxStarts
    /\ Crash
    /\ rec' = RecStart(rec.start + 1)
    /\ cut' = cut \cup {t \in Tenants : ~Quiet(t) \/ RouteOf(t) \in rec.cur \cup rec.failed}

RecNext ==
    /\ \/ Work /\ UNCHANGED <<rec, cut>>
       \/ RecRestart
       \/ Reconcile /\ UNCHANGED <<rowVars, totalRam, ramVars, ctVars, jobVars, req, cut>>
    /\ ObserveRace /\ ObserveCrossing

RecSpec == RecInit /\ [][RecNext]_recVars

-----------------------------------------------------------------------------
(* The variables this module adds have their types, and each element of the *)
(* list is tried once: one at a time, and never again after a failure.      *)
RecTypeOK ==
    /\ rec \in RecType
    /\ Cardinality(rec.cur) = (IF rec.pc = "add" THEN 1 ELSE 0)
    /\ rec.todo \cap (rec.cur \cup rec.failed) = {}
    /\ cut \subseteq Tenants /\ crossed \subseteq Tenants
    /\ raced \subseteq Subdomains

(* "Update DB first (CAS guard ensures atomicity), then stop container":    *)
(* once nothing is in flight for a tenant, an active one runs and a         *)
(* suspended one does not.  The code does not keep it: a resume that comes  *)
(* between the two steps of a suspend leaves an active tenant stopped.      *)
ContainerFollowsRow ==
    \A t \in Live : Quiet(t) =>
        ctState[lxcId[t]] = (IF status[t] = "active" THEN "running" ELSE "stopped")

(* Suspend and Resume change the row first and roll it back when the        *)
(* container call fails: however they interleave with each other, with      *)
(* deletes and with jobs that reuse container ids, once nothing is in       *)
(* flight for a tenant an active one runs and a suspended one does not,     *)
(* unless the process died half way or two of them were at one container.   *)
RowMatchesContainer ==
    \A t \in Live \ (cut \cup crossed) : Quiet(t) =>
        ctState[lxcId[t]] = (IF status[t] = "active" THEN "running" ELSE "stopped")

\* The route of a tenant may be missing or wrong.
Disturbed(t) ==
    t \in cut \/ Subdomain[t] \in raced \/ RouteOf(t) \in rec.cur \cup rec.failed

(* "Reconcile ensures all active tenants with IPs have Caddy routes         *)
(* configured": a tenant at rest with an address is reachable under its     *)
(* name, also after a crash or a race if the reconciler has upserted it.    *)
ActiveIsRouted ==
    \A t \in Live :
        (Quiet(t) /\ lxcIp[t] # None /\ (Disturbed(t) => t \in rec.ok))
            => route[Subdomain[t]] = lxcIp[t]

(* A name that no tenant has any more is not routed, except where a delete  *)
(* ran into the job or the reconciler of its own tenant: the reconciler     *)
(* brings no other route back.                                              *)
NoStrayRoutes ==
    \A s \in Subdomains \ raced :
        (\A t \in Tenants : Subdomain[t] = s => status[t] \in {"absent", "deleted"})
            => route[s] = None
=============================================================================
