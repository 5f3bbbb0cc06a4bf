-------------------------- MODULE ReconcilerProofs --------------------------
(***************************************************************************)
(* The route reconciler next to the jobs and requests of Lifecycle: its    *)
(* bookkeeping, and why routes come and go with their tenants.             *)
(***************************************************************************)
EXTENDS Reconciler, LifecycleProofs

USE StartsAssumption, SubdomainAssumption, NoneAssumption

\* Between its DELETE and its POST the reconciler holds one element; before the
\* list is read it holds nothing.
RecShape ==
    /\ rec.pc = "add" => \E e \in TenantRoute : rec.cur = {e}
    /\ rec.pc # "add" => rec.cur = {}
    /\ rec.pc = "list" => rec.todo = {} /\ rec.failed = {} /\ rec.ok = {}

\* The inductive invariant behind RecTypeOK.
RecTInv ==
    /\ TInv
    /\ rec \in RecType
    /\ RecShape
    /\ rec.todo \cap (rec.cur \cup rec.failed) = {}
    /\ cut \subseteq Tenants
    /\ raced \subseteq Subdomains

(* The reconciler reads the rows and writes routes only: what concerns     *)
(* neither survives its steps.                                             *)
LEMMA RouteOnly ==
    ASSUME UNCHANGED <<rowVars, totalRam, ramVars, ctVars, jobVars, req>>,
           TInv, route' \in [Subdomains -> IPs \cup {None}]
    PROVE  TInv' /\ (Owned => Owned') /\ (Containers => Containers')
<1> USE DEF rowVars, ramVars, ctVars, jobVars
<1>1. TInv'
  BY DEF TInv, TypeOK, ReqShape, SlotPCs, JobHasRow, SlotsAccounted, Slots
<1>2. ASSUME Owned PROVE Owned'
  BY <1>1, <1>2 DEF Owned, JobRows, RamRows, ReqRows, OneEach, Counted, Live
<1>3. ASSUME Containers PROVE Containers'
  BY <1>3 DEF Containers, Proxmox, JobContainers, RowContainers, ReqContainers
<1> QED
  BY <1>1, <1>2, <1>3

(* The fields of the reconciler have their types.                          *)
LEMMA RecFields ==
    ASSUME RecTInv
    PROVE  /\ rec.start \in 1..MaxStarts /\ rec.pc \in {"list", "next", "add"}
           /\ rec.todo \subseteq TenantRoute /\ rec.cur \subseteq TenantRoute
           /\ rec.failed \subseteq TenantRoute /\ rec.ok \subseteq Tenants
           /\ rec = [start |-> rec.start, pc |-> rec.pc, todo |-> rec.todo, cur |-> rec.cur,
                     failed |-> rec.failed, ok |-> rec.ok]
  BY DEF RecTInv, RecType

(* The list holds a name and an address each.                              *)
LEMMA ListTyped == TInv => ListActiveWithIP \subseteq TenantRoute
  BY DEF ListActiveWithIP, RouteOf, TenantRoute, TInv, TypeOK

(* What a step of the reconciler does to its own state and to the routes.  *)
LEMMA ListEffect ==
    ASSUME RecTInv, ReconcileList
    PROVE  /\ route' = route
           /\ rec.pc = "list" /\ rec'.pc = "next" /\ rec'.start = rec.start
           /\ rec'.cur = {} /\ rec'.failed = {} /\ rec'.ok = {}
           /\ rec'.todo \in {{}, ListActiveWithIP}
           /\ rec' \in RecType
<1>1. rec.cur = {} /\ rec.failed = {} /\ rec.ok = {} /\ rec.todo = {}
  BY DEF RecTInv, RecShape, ReconcileList
<1>2. CASE rec' = [rec EXCEPT !.pc = "next", !.todo = ListActiveWithIP]
  BY <1>1, <1>2, RecFields, ListTyped DEF ReconcileList, RecType, RecTInv
<1>3. CASE rec' = [rec EXCEPT !.pc = "next"]
  BY <1>1, <1>3, RecFields DEF ReconcileList, RecType, RecTInv
<1> QED
  BY <1>2, <1>3 DEF ReconcileList

LEMMA RemoveEffect ==
    ASSUME RecTInv, NEW e \in TenantRoute, UpsertRemove(e)
    PROVE  /\ rec.pc = "next" /\ e \in rec.todo /\ rec.cur = {}
           /\ rec'.start = rec.start /\ rec'.ok = rec.ok /\ rec'.todo = rec.todo \ {e}
           /\ \/ /\ rec'.pc = "add" /\ rec'.cur = {e} /\ rec'.failed = rec.failed
                 /\ RemoveRoute(e.name)
              \/ /\ rec'.pc = "next" /\ rec'.cur = {} /\ rec'.failed = rec.failed \cup {e}
                 /\ route' = route
           /\ rec' \in RecType
<1>1. rec.pc = "next" /\ rec.cur = {}
  BY DEF RecTInv, RecShape, UpsertRemove
<1>2. CASE RemoveRoute(e.name) /\ rec' = [rec EXCEPT !.pc = "add", !.todo = @ \ {e}, !.cur = {e}]
  BY <1>1, <1>2, RecFields DEF UpsertRemove, RecType, RecTInv
<1>3. CASE route' = route /\ rec' = [rec EXCEPT !.todo = @ \ {e}, !.failed = @ \cup {e}]
  BY <1>1, <1>3, RecFields DEF UpsertRemove, RecType, RecTInv
<1> QED
  BY <1>2, <1>3 DEF UpsertRemove

LEMMA AddEffect ==
    ASSUME RecTInv, NEW e \in TenantRoute, UpsertAdd(e)
    PROVE  /\ rec.pc = "add" /\ rec.cur = {e}
           /\ rec'.start = rec.start /\ rec'.pc = "next" /\ rec'.cur = {} /\ rec'.todo = rec.todo
           /\ \/ /\ rec'.failed = rec.failed /\ rec'.ok = rec.ok \cup HoldersOf(e)
                 /\ AddRoute(e.name, e.ip)
              \/ /\ rec'.failed = rec.failed \cup {e} /\ rec'.ok = rec.ok
                 /\ route' = route
           /\ rec' \in RecType
<1>1. rec.pc = "add" /\ rec.cur = {e}
  BY DEF RecTInv, RecShape, UpsertAdd
<1>2. CASE AddRoute(e.name, e.ip) /\ rec' = [rec EXCEPT !.pc = "next", !.cur = {}, !.ok = @ \cup HoldersOf(e)]
  <2>1. HoldersOf(e) \subseteq Tenants
    BY DEF HoldersOf, Live
  <2> QED
    BY <1>1, <1>2, <2>1, RecFields DEF UpsertAdd, RecType, RecTInv
<1>3. CASE route' = route /\ rec' = [rec EXCEPT !.pc = "next", !.cur = {}, !.failed = @ \cup {e}]
  BY <1>1, <1>3, RecFields DEF UpsertAdd, RecType, RecTInv
<1> QED
  BY <1>2, <1>3 DEF UpsertAdd

(* The names a step adds to raced are names.                               *)
LEMMA RacedTyped ==
    ASSUME raced \subseteq Subdomains, ObserveRace
    PROVE  raced' \subseteq Subdomains /\ raced \subseteq raced'
  BY DEF ObserveRace

(* A new run of the reconciler has nothing in hand.                        *)
LEMMA RestartEffect ==
    ASSUME RecTInv, RecRestart
    PROVE  /\ rec' \in RecType /\ rec'.pc = "list"
           /\ rec'.todo = {} /\ rec'.cur = {} /\ rec'.failed = {} /\ rec'.ok = {}
<1>1. rec.start + 1 \in 1..MaxStarts
  BY RecFields DEF RecRestart
<1> QED
  BY <1>1 DEF RecRestart, RecStart, RecType

(* The reconciler's bookkeeping is inductive.                              *)
LEMMA NextRecTInv == RecTInv /\ [RecNext]_recVars => RecTInv'
<1> SUFFICES ASSUME RecTInv, [RecNext]_recVars PROVE RecTInv'
  OBVIOUS
<1>0. TInv
  BY DEF RecTInv
<1>1. CASE Work /\ UNCHANGED <<rec, cut>> /\ ObserveRace
  <2>1. TInv'
    BY <1>0, <1>1, NextTInv DEF Next
  <2> QED
    BY <1>1, <2>1, RacedTyped DEF RecTInv, RecShape
<1>2. CASE RecRestart /\ ObserveRace
  <2>1. TInv'
    BY <1>0, <1>2, NextTInv DEF Next, RecRestart
  <2>2. cut' \subseteq Tenants
    BY <1>2 DEF RecRestart, RecTInv
  <2> QED
    BY <1>2, <2>1, <2>2, RacedTyped, RestartEffect DEF RecTInv, RecShape
<1>3. CASE Reconcile /\ UNCHANGED <<rowVars, totalRam, ramVars, ctVars, jobVars, req, cut>> /\ ObserveRace
  <2>1. /\ route' \in [Subdomains -> IPs \cup {None}]
        /\ rec' \in RecType /\ RecShape'
        /\ rec'.todo \cap (rec'.cur \cup rec'.failed) = {}
    <3>0. route \in [Subdomains -> IPs \cup {None}]
      BY <1>0 DEF TInv, TypeOK
    <3>1. CASE ReconcileList
      BY <3>0, <3>1, ListEffect DEF RecShape
    <3>2. ASSUME NEW e \in TenantRoute, UpsertRemove(e)
          PROVE  /\ route' \in [Subdomains -> IPs \cup {None}]
                 /\ rec' \in RecType /\ RecShape'
                 /\ rec'.todo \cap (rec'.cur \cup rec'.failed) = {}
      BY <3>0, <3>2, RemoveEffect DEF RecShape, RecTInv, RemoveRoute
    <3>3. ASSUME NEW e \in TenantRoute, UpsertAdd(e)
          PROVE  /\ route' \in [Subdomains -> IPs \cup {None}]
                 /\ rec' \in RecType /\ RecShape'
                 /\ rec'.todo \cap (rec'.cur \cup rec'.failed) = {}
      BY <3>0, <3>3, AddEffect DEF RecShape, RecTInv, AddRoute, TenantRoute
    <3> QED
      BY <1>3, <3>1, <3>2, <3>3 DEF Reconcile
  <2>2. TInv'
    BY <1>0, <1>3, <2>1, RouteOnly
  <2> QED
    BY <1>3, <2>1, <2>2, RacedTyped DEF RecTInv
<1>4. CASE UNCHANGED recVars
  <2>1. TInv'
    BY <1>0, <1>4, NextTInv DEF recVars
  <2> QED
    BY <1>4, <2>1 DEF recVars, RecTInv, RecShape
<1> QED
  BY <1>1, <1>2, <1>3, <1>4 DEF RecNext

(* Nothing is in hand when the first process starts.                       *)
LEMMA InitRecTInv == RecInit => RecTInv
<1> SUFFICES ASSUME RecInit PROVE RecTInv
  OBVIOUS
<1>1. TInv
  BY InitTInv DEF RecInit
<1>2. 1 \in 1..MaxStarts
  OBVIOUS
<1> QED
  BY <1>1, <1>2 DEF RecInit, RecStart, RecTInv, RecType, RecShape

LEMMA RecTInvCorrect == RecSpec => []RecTInv
  BY InitRecTInv, NextRecTInv, PTL DEF RecSpec

(* Reconcile tries each element of its list once, one at a time and never  *)
(* again after a failure, for any number of tenants, faults and restarts.  *)
THEOREM ReconcilerTyped == RecSpec => []RecTypeOK
<1>1. RecTInv /\ crossed \subseteq Tenants => RecTypeOK
  <2> SUFFICES ASSUME RecTInv, crossed \subseteq Tenants PROVE RecTypeOK
    OBVIOUS
  <2>1. Cardinality(rec.cur) = (IF rec.pc = "add" THEN 1 ELSE 0)
    BY FS_EmptySet, FS_Singleton DEF RecTInv, RecShape
  <2> QED
    BY <2>1 DEF RecTInv, RecTypeOK
<1>2. RecInit => crossed \subseteq Tenants
  BY DEF RecInit
<1>3. crossed \subseteq Tenants /\ [RecNext]_recVars => (crossed \subseteq Tenants)'
  BY DEF RecNext, recVars, ObserveCrossing, Crossing
<1> QED
  BY <1>1, <1>2, <1>3, RecTInvCorrect, PTL DEF RecSpec

-----------------------------------------------------------------------------
\* A row in one of these statuses does not hold its name.
Gone == {"absent", "deleted"}

\* No context is over.
InTime == (\A t \in Tenants : ~job[t].expired) /\ (\A r \in Requests : ~req[r].cancelled)

\* The unique index on the names at work.
UniqueName == \A t, u \in Tenants :
    (Subdomain[t] = Subdomain[u] /\ status[t] \notin Gone /\ status[u] \notin Gone) => t = u

\* A row gets its address from its job, once.
JobAddresses == \A t \in Tenants :
    /\ status[t] = "absent" => lxcIp[t] = None
    /\ job[t].pc \in {"queued", "lookup", "clone", "network", "configure"} => lxcIp[t] = None
    /\ (job[t].pc \in {"start", "activate", "addRoute"} /\ lxcIp[t] # None) => job[t].ip = lxcIp[t]

\* A job adds the route of a tenant that is live, unless a delete overtook it.
JobLive == \A t \in Tenants :
    (job[t].pc = "addRoute" /\ Subdomain[t] \notin raced) => t \in Live

\* A route leads to the tenant of that name, whose delete has yet to remove it.
RouteOwner(s, t) ==
    /\ Subdomain[t] = s
    /\ status[t] \in {"active", "suspended", "deleting", "error"}
    /\ lxcId[t] # None
    /\ \A r \in Requests : ~(req[r].pc = "setDeleted" /\ req[r].tenant = t)
    /\ (t \in Live /\ lxcIp[t] # None) => route[s] = lxcIp[t]

RoutesOwned == \A s \in Subdomains \ raced :
    route[s] # None => \E t \in Tenants : RouteOwner(s, t)

\* What the reconciler still has to do is about live tenants, one entry each.
Listed == \A e \in rec.todo \cup rec.cur :
    /\ e.name \notin raced => \E t \in Live : RouteOf(t) = e
    /\ \A d \in rec.todo \cup rec.cur : d.name = e.name => d = e

\* What it has done stays done.
Upserted == \A t \in rec.ok :
    /\ status[t] \notin {"absent", "provisioning"}
    /\ t \in Live =>
          /\ lxcIp[t] # None /\ route[Subdomain[t]] = lxcIp[t]
          /\ \A e \in rec.todo \cup rec.cur : e.name # Subdomain[t]

\* A live tenant is routed or its job is about to add the route.
Reached == \A t \in Live :
    (~Disturbed(t) /\ lxcIp[t] # None) => (route[Subdomain[t]] = lxcIp[t] \/ job[t].pc = "addRoute")

Routes == /\ InTime /\ UniqueName /\ JobAddresses /\ JobLive
          /\ RoutesOwned /\ Listed /\ Upserted /\ Reached

-----------------------------------------------------------------------------
(***************************************************************************)
(* What one step of a job or a request can do to the rows and the routes,  *)
(* told without naming the handler that does it.                           *)
(***************************************************************************)

\* Job points before the address is written.
Early == {"queued", "lookup", "clone", "network", "configure"}

StatusEdge(t) ==
    \/ status'[t] = status[t]
    \/ status[t] = "absent" /\ status'[t] = "provisioning" /\ SubdomainFree(t)
    \/ status[t] = "provisioning" /\ status'[t] = "active" /\ job'[t].pc = "addRoute"
    \/ status[t] \in {"provisioning", "deleting"} /\ status'[t] = "error"
    \/ status[t] \in {"active", "suspended"} /\ status'[t] \in {"active", "suspended"}
    \/ status[t] \in Deletable /\ status'[t] = "deleting"
    \/ /\ status[t] = "deleting" /\ status'[t] = "deleted"
       /\ \E r \in Requests : req[r].pc = "setDeleted" /\ req[r].tenant = t

RowEdge(t) ==
    /\ lxcId'[t] = lxcId[t] \/ (status[t] = "provisioning" /\ lxcId'[t] # None)
    /\ \/ lxcIp'[t] = lxcIp[t]
       \/ job[t].pc = "configure" /\ job'[t].pc = "start" /\ job'[t].ip = lxcIp'[t]

RouteEdge(s) ==
    \/ route'[s] = route[s]
    \/ /\ route'[s] = None
       /\ \E r \in Requests : req[r].pc = "removeRoute" /\ Subdomain[req[r].tenant] = s
    \/ \E t \in Tenants :
          /\ job[t].pc = "addRoute" /\ Subdomain[t] = s /\ job[t].ip # None
          /\ route[s] = None /\ route'[s] = job[t].ip

JobEdge(t) ==
    /\ ~job'[t].expired
    /\ job'[t].pc \in Early => job[t].pc \in Early \/ status[t] = "absent"
    /\ job'[t].pc \in {"start", "activate", "addRoute"} =>
          /\ job'[t].ip = job[t].ip
          /\ job[t].pc \in {"network", "configure", "start", "activate", "addRoute"}
    /\ job'[t].pc = "addRoute" => job[t].pc = "addRoute" \/ status'[t] = "active"
    /\ (job[t].pc = "addRoute" /\ job'[t].pc # "addRoute") =>
          \/ job[t].ip = None
          \/ route'[Subdomain[t]] = job[t].ip
          \/ route[Subdomain[t]] # None /\ route'[Subdomain[t]] = route[Subdomain[t]]

ReqEdge(r) ==
    /\ ~req'[r].cancelled
    /\ req'[r].pc = "setDeleted" =>
          \/ req'[r] = req[r]
          \/ /\ req[r].pc = "release" /\ req[r].lxc = None
             /\ req'[r].tenant = req[r].tenant
          \/ /\ req[r].pc = "removeRoute" /\ req'[r].tenant = req[r].tenant
             /\ route'[Subdomain[req[r].tenant]] = None

Edges ==
    /\ \A t \in Tenants : StatusEdge(t) /\ RowEdge(t) /\ JobEdge(t)
    /\ \A t, u \in Tenants : (status'[t] # status[t] /\ status'[u] # status[u]) => t = u
    /\ \A s \in Subdomains : RouteEdge(s)
    /\ \A r \in Requests : ReqEdge(r)

(* A job step changes the row, the route and the goroutine of its tenant   *)
(* only, along these edges.                                                *)
LEMMA JobEdges ==
    ASSUME "panic" \notin Faults, "caddy" \notin Faults, "ctx" \notin Faults,
           Owned, InTime, NEW t \in Tenants, JobStep(t) \/ Expire(t) \/ Panic(t)
    PROVE  Edges
<1> USE DEF rowVars, At, Alive, MayFail
<1>0. /\ TInv /\ req' = req /\ ~job[t].expired
      /\ \A r \in Requests : ReqEdge(r)
      /\ status \in [Tenants -> Statuses] /\ lxcId \in [Tenants -> VMIDs \cup {None}]
      /\ lxcIp \in [Tenants -> IPs \cup {None}] /\ route \in [Subdomains -> IPs \cup {None}]
      /\ Subdomain[t] \in Subdomains
  <2>1. req' = req
    BY DEF JobStep, AcquireSlot, LookupAndGetNextID, Clone, AllocateIP, ConfigureNetwork,
           MountAndStart, Activate, DeployAndAddRoute, CheckHealth, Cleanup, JobSetError,
           JobReleaseRAM, Expire, Panic
  <2>2. \A r \in Requests : ReqEdge(r)
    BY <2>1 DEF ReqEdge, InTime
  <2> QED
    BY <2>1, <2>2 DEF Owned, InTime, TInv, TypeOK
\* Enough to look at the tenant itself.
<1>a. ASSUME \A u \in Tenants : u # t => /\ job'[u] = job[u] /\ status'[u] = status[u]
                                         /\ lxcId'[u] = lxcId[u] /\ lxcIp'[u] = lxcIp[u],
             StatusEdge(t), RowEdge(t), JobEdge(t),
             \A s \in Subdomains : RouteEdge(s)
      PROVE  Edges
  <2>1. \A u \in Tenants : u # t => StatusEdge(u) /\ RowEdge(u) /\ JobEdge(u)
    BY <1>a DEF StatusEdge, RowEdge, JobEdge, InTime
  <2> QED
    BY <1>0, <1>a, <2>1 DEF Edges
\* A step that changes no row and no route.
<1>b. ASSUME \A u \in Tenants : u # t => job'[u] = job[u],
             UNCHANGED <<status, lxcId, lxcIp, route>>, JobEdge(t)
      PROVE  Edges
  BY <1>a, <1>b DEF StatusEdge, RowEdge, RouteEdge
<1>1. CASE AcquireSlot(t)
  BY <1>0, <1>1, <1>b, AcquireFacts DEF AcquireSlot, JobEdge, Early
<1>2. CASE LookupAndGetNextID(t)
  BY <1>0, <1>2, <1>b, LookupFacts DEF LookupAndGetNextID, JobEdge, Early
<1>3. CASE Clone(t)
  BY <1>0, <1>3, <1>b, GotoFacts DEF Clone, JobPCs, JobEdge, Early
<1>4. CASE AllocateIP(t)
  BY <1>0, <1>4, <1>b, AllocateFacts DEF AllocateIP, JobEdge, Early
<1>5. CASE ConfigureNetwork(t)
  <2>1. /\ \A u \in Tenants : u # t => job'[u] = job[u]
        /\ JobEdge(t) /\ UNCHANGED <<status, lxcId, route>>
        /\ job[t].pc = "configure"
    BY <1>0, <1>5, GotoFacts DEF ConfigureNetwork, SetLXCIP, JobPCs, JobEdge, Early
  <2>2. CASE lxcIp' = lxcIp
    BY <1>b, <2>1, <2>2
  <2>3. CASE SetLXCIP(t, job[t].ip) /\ Goto(t, "start")
    <3>1. /\ \A u \in Tenants : u # t => lxcIp'[u] = lxcIp[u]
          /\ RowEdge(t)
      BY <1>0, <2>1, <2>3, GotoFacts DEF SetLXCIP, RowEdge, JobPCs
    <3> QED
      BY <1>a, <2>1, <3>1 DEF StatusEdge, RouteEdge
  <2> QED
    BY <1>5, <2>2, <2>3 DEF ConfigureNetwork
<1>6. CASE MountAndStart(t)
  BY <1>0, <1>6, <1>b, GotoFacts DEF MountAndStart, JobPCs, JobEdge, Early
<1>7. CASE Activate(t)
  <2>1. CASE SetActive(t, job[t].vmid) /\ Goto(t, "addRoute")
    <3>1. /\ status[t] = "provisioning" /\ status'[t] = "active"
          /\ \A u \in Tenants : u # t => status'[u] = status[u] /\ lxcId'[u] = lxcId[u]
          /\ lxcId'[t] = job[t].vmid /\ lxcIp' = lxcIp /\ route' = route
      BY <1>0, <1>7, <2>1 DEF Activate, SetActive, CAS
    <3>2. /\ job'[t].pc = "addRoute" /\ job'[t].ip = job[t].ip /\ ~job'[t].expired
          /\ \A u \in Tenants : u # t => job'[u] = job[u]
      BY <1>0, <2>1, GotoFacts DEF JobPCs
    <3>3. job[t].pc = "activate" /\ job[t].vmid # None
      BY <1>7 DEF Activate, Owned, JobRows
    <3>4. StatusEdge(t) /\ RowEdge(t) /\ JobEdge(t)
      BY <3>1, <3>2, <3>3 DEF StatusEdge, RowEdge, JobEdge, Early
    <3> QED
      BY <1>a, <3>1, <3>2, <3>4 DEF RouteEdge
  <2>2. CASE UNCHANGED rowVars /\ Goto(t, "cleanup")
    BY <1>0, <1>7, <2>2, <1>b, GotoFacts DEF Activate, JobPCs, JobEdge, Early
  <2> QED
    BY <1>0, <1>7, <2>1, <2>2 DEF Activate
<1>8. CASE DeployAndAddRoute(t)
  <2>1. /\ job[t].pc = "addRoute" /\ job'[t].pc = "health" /\ ~job'[t].expired
        /\ \A u \in Tenants : u # t => job'[u] = job[u]
        /\ UNCHANGED <<status, lxcId, lxcIp>>
    BY <1>0, <1>8, GotoFacts DEF DeployAndAddRoute, JobPCs
  <2>2. CASE job[t].ip # None /\ AddRoute(Subdomain[t], job[t].ip)
    <3>1. /\ route[Subdomain[t]] = None /\ route'[Subdomain[t]] = job[t].ip
          /\ \A s \in Subdomains : s # Subdomain[t] => route'[s] = route[s]
      BY <1>0, <2>2 DEF AddRoute
    <3>2. JobEdge(t)
      BY <2>1, <3>1 DEF JobEdge, Early
    <3>3. \A s \in Subdomains : RouteEdge(s)
      BY <2>1, <2>2, <3>1 DEF RouteEdge
    <3> QED
      BY <1>a, <2>1, <3>2, <3>3 DEF StatusEdge, RowEdge
  <2>3. CASE (job[t].ip = None \/ route[Subdomain[t]] # None) /\ route' = route
    BY <1>b, <2>1, <2>3 DEF JobEdge, Early
  <2> QED
    BY <1>0, <1>8, <2>2, <2>3 DEF DeployAndAddRoute
<1>9. CASE CheckHealth(t)
  BY <1>0, <1>9, <1>b, JobReturnFacts DEF CheckHealth, NoJob, JobEdge, Early
<1>10. CASE Cleanup(t)
  BY <1>0, <1>10, <1>b, GotoFacts DEF Cleanup, JobPCs, JobEdge, Early
<1>11. CASE JobSetError(t)
  <2>1. /\ \A u \in Tenants : u # t => job'[u] = job[u]
        /\ JobEdge(t) /\ UNCHANGED <<lxcId, lxcIp, route>>
    BY <1>0, <1>11, GotoFacts DEF JobSetError, SetError, JobPCs, JobEdge, Early
  <2>2. CASE status' = status
    BY <1>b, <2>1, <2>2
  <2>3. CASE SetError(t)
    <3>1. /\ \A u \in Tenants : u # t => status'[u] = status[u]
          /\ StatusEdge(t)
      BY <1>0, <2>3 DEF SetError, CAS, StatusEdge
    <3> QED
      BY <1>a, <2>1, <3>1 DEF RowEdge, RouteEdge
  <2> QED
    BY <1>11, <2>2, <2>3 DEF JobSetError
<1>12. CASE JobReleaseRAM(t)
  BY <1>0, <1>12, <1>b, JobReturnFacts DEF JobReleaseRAM, NoJob, JobEdge, Early
<1> QED
  BY <1>1, <1>2, <1>3, <1>4, <1>5, <1>6, <1>7, <1>8, <1>9, <1>10, <1>11, <1>12
     DEF JobStep, Expire, Panic

(* A request step takes its tenant along one edge, starts its job, or      *)
(* removes its route.                                                      *)
LEMMA RequestEdges ==
    ASSUME "caddy" \notin Faults, "ctx" \notin Faults,
           Owned, InTime, NEW r \in Requests, Arrive(r) \/ RequestStep(r) \/ Cancel(r)
    PROVE  Edges
<1> USE DEF rowVars, jobVars, ReqAt, ReqAlive, ReqMayFail
<1>0. /\ TInv /\ ~req[r].cancelled /\ \A t \in Tenants : ~job[t].expired
      /\ status \in [Tenants -> Statuses] /\ route \in [Subdomains -> IPs \cup {None}]
      /\ req[r].pc # "idle" => req[r].tenant \in Tenants
  BY ReqFields DEF Owned, InTime, TInv, TypeOK
\* A step that changes no row, no job and no route.
<1>a. ASSUME UNCHANGED <<status, lxcId, lxcIp, job, route>>,
             \A q \in Requests : q # r => req'[q] = req[q], ReqEdge(r)
      PROVE  Edges
  <2>1. \A q \in Requests : ReqEdge(q)
    BY <1>a DEF ReqEdge, InTime
  <2> QED
    BY <1>0, <1>a, <2>1 DEF Edges, StatusEdge, RowEdge, JobEdge, RouteEdge, Early
\* A step that changes the status of one row.
<1>b. ASSUME NEW t \in Tenants, NEW new, status' = [status EXCEPT ![t] = new],
             UNCHANGED <<lxcId, lxcIp, job, route>>, StatusEdge(t),
             \A q \in Requests : q # r => req'[q] = req[q], ReqEdge(r)
      PROVE  Edges
  <2>1. \A q \in Requests : ReqEdge(q)
    BY <1>b DEF ReqEdge, InTime
  <2>2. \A u \in Tenants : u # t => status'[u] = status[u]
    BY <1>0, <1>b
  <2>3. \A u \in Tenants : StatusEdge(u) /\ RowEdge(u) /\ JobEdge(u)
    BY <1>0, <1>b, <2>2 DEF StatusEdge, RowEdge, JobEdge, Early
  <2> QED
    BY <1>b, <2>1, <2>2, <2>3 DEF Edges, RouteEdge
\* A step that responds, or moves to a point other than the last of a delete.
<1>c. ASSUME Respond(r) PROVE ReqEdge(r) /\ \A q \in Requests : q # r => req'[q] = req[q]
  BY <1>0, <1>c, RespondFacts DEF Idle, ReqEdge
<1>d. ASSUME NEW pc \in ReqPCs, pc # "setDeleted", ReqGoto(r, pc)
      PROVE  ReqEdge(r) /\ \A q \in Requests : q # r => req'[q] = req[q]
  BY <1>0, <1>d, ReqGotoFacts DEF ReqEdge
<1> DEFINE t == req[r].tenant
<1>1. CASE Arrive(r)
  <2> PICK u \in Tenants : CreateReserve(r, u) \/ DeleteBegin(r, u) \/ SuspendBegin(r, u) \/ ResumeBegin(r, u)
    BY <1>1 DEF Arrive
  <2>1. CASE CreateReserve(r, u)
    BY <2>1, <1>0, <1>a, EnterFacts DEF CreateReserve, ReqPCs, ReqEdge
  <2>2. CASE DeleteBegin(r, u)
    BY <2>2, <1>0, <1>a, EnterFacts DEF DeleteBegin, ReqPCs, ReqEdge
  <2>3. CASE SuspendBegin(r, u)
    BY <2>3, <1>0, <1>a, EnterFacts DEF SuspendBegin, ReqPCs, ReqEdge
  <2>4. CASE ResumeBegin(r, u)
    BY <2>4, <1>0, <1>a, EnterFacts DEF ResumeBegin, ReqPCs, ReqEdge
  <2> QED
    BY <2>1, <2>2, <2>3, <2>4
<1>2. CASE CreateInsert(r)
  <2>0. t \in Tenants /\ UNCHANGED route
    BY <1>0, <1>2 DEF CreateInsert
  <2>1. CASE InsertRow(t) /\ Provision(t) /\ Respond(r)
    <3>1. /\ status[t] = "absent" /\ status'[t] = "provisioning" /\ SubdomainFree(t)
          /\ \A u \in Tenants : u # t => status'[u] = status[u]
          /\ UNCHANGED <<lxcId, lxcIp>>
      BY <1>0, <2>0, <2>1 DEF InsertRow
    <3>2. /\ job'[t].pc = "queued" /\ ~job'[t].expired
          /\ \A u \in Tenants : u # t => job'[u] = job[u]
      BY <1>0, <2>0, <2>1, ProvisionFacts, GotoFacts DEF JobPCs
    <3> HIDE DEF t
    <3>3. job[t].pc = "none"
      BY <1>0, <2>0, <3>1 DEF TInv, JobHasRow
    <3>4. \A u \in Tenants : StatusEdge(u) /\ RowEdge(u) /\ JobEdge(u)
      BY <1>0, <3>1, <3>2, <3>3 DEF StatusEdge, RowEdge, JobEdge, Early
    <3>5. \A q \in Requests : ReqEdge(q)
      BY <1>c, <2>1 DEF ReqEdge, InTime
    <3> QED
      BY <2>0, <3>1, <3>4, <3>5 DEF Edges, RouteEdge
  <2>2. CASE ReqGoto(r, "unreserve") /\ UNCHANGED <<jobVars, rowVars>>
    BY <1>a, <1>d, <2>0, <2>2 DEF ReqPCs
  <2> QED
    BY <1>2, <2>1, <2>2 DEF CreateInsert
<1>3. CASE CreateUnreserve(r)
  BY <1>3, <1>a, <1>c DEF CreateUnreserve
<1>4. CASE DeleteSetDeleting(r)
  <2>0. t \in Tenants /\ UNCHANGED <<job, route>>
    BY <1>0, <1>4 DEF DeleteSetDeleting
  <2>1. CASE SetDeleting(t) /\ ReqGoto(r, IF req[r].lxc # None THEN "stop" ELSE "release")
    <3>1. StatusEdge(t)
      BY <1>0, <2>0, <2>1 DEF SetDeleting, CAS, StatusEdge
    <3>2. ReqEdge(r) /\ \A q \in Requests : q # r => req'[q] = req[q]
      BY <2>1, <1>d DEF ReqPCs
    <3>3. status' = [status EXCEPT ![t] = "deleting"] /\ UNCHANGED <<lxcId, lxcIp>>
      BY <2>1 DEF SetDeleting, CAS
    <3> QED
      BY <1>b, <2>0, <3>1, <3>2, <3>3
  <2>2. CASE Respond(r) /\ UNCHANGED rowVars
    BY <1>a, <1>c, <2>0, <2>2
  <2> QED
    BY <1>4, <2>1, <2>2 DEF DeleteSetDeleting
<1>5. CASE DeleteStop(r)
  BY <1>5, <1>a, <1>d DEF DeleteStop, ReqPCs
<1>6. CASE DeleteDestroy(r)
  BY <1>6, <1>a, <1>d DEF DeleteDestroy, ReqPCs
<1>7. CASE DeleteSetError(r)
  <2>0. t \in Tenants /\ UNCHANGED <<job, route>> /\ Respond(r)
    BY <1>0, <1>7 DEF DeleteSetError
  <2>1. CASE SetError(t)
    <3>1. StatusEdge(t)
      BY <1>0, <2>0, <2>1 DEF SetError, CAS, StatusEdge
    <3>2. status' = [status EXCEPT ![t] = "error"] /\ UNCHANGED <<lxcId, lxcIp>>
      BY <2>1 DEF SetError, CAS
    <3> QED
      BY <1>b, <1>c, <2>0, <3>1, <3>2
  <2>2. CASE UNCHANGED rowVars
    BY <1>a, <1>c, <2>0, <2>2
  <2> QED
    BY <1>7, <2>1, <2>2 DEF DeleteSetError
<1>8. CASE DeleteReleaseRAM(r)
  <2>1. ReqEdge(r) /\ \A q \in Requests : q # r => req'[q] = req[q]
    BY <1>0, <1>8, ReqGotoFacts DEF DeleteReleaseRAM, ReqPCs, ReqEdge
  <2> QED
    BY <1>8, <1>a, <2>1 DEF DeleteReleaseRAM
<1>9. CASE DeleteRemoveRoute(r)
  <2>1. /\ UNCHANGED <<status, lxcId, lxcIp, job>> /\ RemoveRoute(Subdomain[t])
        /\ req[r].pc = "removeRoute" /\ t \in Tenants /\ ReqGoto(r, "setDeleted")
    BY <1>0, <1>9 DEF DeleteRemoveRoute
  <2>2. /\ route'[Subdomain[t]] = None
        /\ \A s \in Subdomains : s # Subdomain[t] => route'[s] = route[s]
    BY <1>0, <2>1 DEF RemoveRoute
  <2>3. \A s \in Subdomains : RouteEdge(s)
    BY <2>1, <2>2 DEF RouteEdge
  <2>4. ReqEdge(r) /\ \A q \in Requests : q # r => req'[q] = req[q]
    BY <1>0, <2>1, <2>2, ReqGotoFacts DEF ReqPCs, ReqEdge
  <2>5. \A q \in Requests : ReqEdge(q)
    BY <2>4 DEF ReqEdge, InTime
  <2>6. \A u \in Tenants : StatusEdge(u) /\ RowEdge(u) /\ JobEdge(u)
    BY <1>0, <2>1 DEF StatusEdge, RowEdge, JobEdge
  <2> QED
    BY <2>1, <2>3, <2>5, <2>6 DEF Edges
<1>10. CASE DeleteSetDeleted(r)
  <2>0. /\ t \in Tenants /\ UNCHANGED <<job, route>> /\ Respond(r)
        /\ req[r].pc = "setDeleted"
    BY <1>0, <1>10 DEF DeleteSetDeleted
  <2>1. CASE SetDeleted(t)
    <3>1. StatusEdge(t)
      BY <1>0, <2>0, <2>1 DEF SetDeleted, CAS, StatusEdge
    <3>2. status' = [status EXCEPT ![t] = "deleted"] /\ UNCHANGED <<lxcId, lxcIp>>
      BY <2>1 DEF SetDeleted, CAS
    <3> QED
      BY <1>b, <1>c, <2>0, <3>1, <3>2
  <2>2. CASE UNCHANGED rowVars
    BY <1>a, <1>c, <2>0, <2>2
  <2> QED
    BY <1>10, <2>1, <2>2 DEF DeleteSetDeleted
<1>e. ASSUME t \in Tenants, SetSuspended(t) \/ SetResumed(t), UNCHANGED <<job, route>>,
             \A q \in Requests : q # r => req'[q] = req[q], ReqEdge(r)
      PROVE  Edges
  <2>1. StatusEdge(t) /\ UNCHANGED <<lxcId, lxcIp>>
    BY <1>0, <1>e DEF SetSuspended, SetResumed, CAS, StatusEdge
  <2>2. PICK new : status' = [status EXCEPT ![t] = new]
    BY <1>e DEF SetSuspended, SetResumed, CAS
  <2> QED
    BY <1>b, <1>e, <2>1, <2>2
<1>11. CASE ToggleStatus(r)
  <2>0. t \in Tenants /\ UNCHANGED <<job, route>>
    BY <1>0, <1>11 DEF ToggleStatus
  <2>1. CASE Forward(r) /\ ReqGoto(r, "power")
    <3>1. SetSuspended(t) \/ SetResumed(t)
      BY <2>1 DEF Forward
    <3>2. ReqEdge(r) /\ \A q \in Requests : q # r => req'[q] = req[q]
      BY <2>1, <1>d DEF ReqPCs
    <3> QED
      BY <1>e, <2>0, <3>1, <3>2
  <2>2. CASE Respond(r) /\ UNCHANGED rowVars
    BY <1>a, <1>c, <2>0, <2>2
  <2> QED
    BY <1>11, <2>1, <2>2 DEF ToggleStatus
<1>12. CASE TogglePower(r)
  BY <1>12, <1>a, <1>c, <1>d DEF TogglePower, ReqPCs
<1>13. CASE ToggleRollback(r)
  <2>0. t \in Tenants /\ UNCHANGED <<job, route>> /\ Respond(r)
    BY <1>0, <1>13 DEF ToggleRollback
  <2>1. CASE Backward(r)
    <3>1. SetSuspended(t) \/ SetResumed(t)
      BY <2>1 DEF Backward
    <3> QED
      BY <1>c, <1>e, <2>0, <3>1
  <2>2. CASE UNCHANGED rowVars
    BY <1>a, <1>c, <2>0, <2>2
  <2> QED
    BY <1>13, <2>1, <2>2 DEF ToggleRollback
<1> QED
  BY <1>1, <1>2, <1>3, <1>4, <1>5, <1>6, <1>7, <1>8, <1>9, <1>10, <1>11, <1>12, <1>13
     DEF RequestStep, Cancel

(* While the process lives, every step goes along these edges.             *)
LEMMA WorkEdges ==
    ASSUME "panic" \notin Faults, "caddy" \notin Faults, "ctx" \notin Faults,
           Owned, InTime, [Work]_vars
    PROVE  Edges
<1>1. CASE \E t \in Tenants : JobStep(t) \/ Expire(t) \/ Panic(t)
  BY <1>1, JobEdges
<1>2. CASE \E r \in Requests : Arrive(r) \/ RequestStep(r) \/ Cancel(r)
  BY <1>2, RequestEdges
<1>3. CASE UNCHANGED <<rowVars, route, job, req>>
  BY <1>3 DEF rowVars, Edges, StatusEdge, RowEdge, RouteEdge, JobEdge, ReqEdge, InTime, Early
<1> QED
  BY <1>1, <1>2, <1>3 DEF Work, AtRest, UpdateNode, vars, rowVars, jobVars

-----------------------------------------------------------------------------
(***************************************************************************)
(* The routes.  Each part of Routes along the edges of the life cycle, and *)
(* then under the steps of the reconciler.                                 *)
(***************************************************************************)

(* What a request that removes a route, or is past it, knows of its row.   *)
LEMMA DeleterRow ==
    ASSUME Owned, NEW r \in Requests, req[r].pc \in DeleteOwns
    PROVE  /\ req[r].tenant \in Tenants
           /\ status[req[r].tenant] = "deleting" /\ req[r].lxc = lxcId[req[r].tenant]
  BY ReqFields DEF Owned, ReqRows, DeleteOwns, Creating

(* A name has one holder at a time.                                        *)
LEMMA EdgesUniqueName ==
    ASSUME Edges, UniqueName PROVE UniqueName'
<1> SUFFICES ASSUME NEW t \in Tenants, NEW u \in Tenants, t # u, Subdomain[t] = Subdomain[u],
                    status'[t] \notin Gone, status'[u] \notin Gone
             PROVE  FALSE
  BY DEF UniqueName
<1>1. StatusEdge(t) /\ StatusEdge(u)
  BY DEF Edges
<1>2. (status[t] \notin Gone \/ (SubdomainFree(t) /\ status'[t] # status[t]))
      /\ (status[u] \notin Gone \/ (SubdomainFree(u) /\ status'[u] # status[u]))
  BY <1>1 DEF StatusEdge, Gone, Deletable
<1>3. status'[t] = status[t] \/ status'[u] = status[u]
  BY DEF Edges
<1>4. status[t] \notin Gone /\ status[u] \notin Gone
  BY <1>2, <1>3 DEF SubdomainFree, Gone
<1> QED
  BY <1>4 DEF UniqueName

(* A row's address is the one its job goes on with.                        *)
LEMMA EdgesJobAddresses ==
    ASSUME TInv, Edges, JobAddresses PROVE JobAddresses'
<1> SUFFICES ASSUME NEW t \in Tenants
             PROVE  /\ status'[t] = "absent" => lxcIp'[t] = None
                    /\ job'[t].pc \in Early => lxcIp'[t] = None
                    /\ (job'[t].pc \in {"start", "activate", "addRoute"} /\ lxcIp'[t] # None)
                          => job'[t].ip = lxcIp'[t]
  BY DEF JobAddresses, Early
<1>1. StatusEdge(t) /\ RowEdge(t) /\ JobEdge(t) /\ (status[t] = "absent" => job[t].pc = "none")
  BY DEF Edges, TInv, JobHasRow
<1>2. status'[t] = "absent" => status[t] = "absent"
  BY <1>1 DEF StatusEdge
<1> QED
  BY <1>1, <1>2 DEF JobAddresses, RowEdge, JobEdge, Early

(* A live tenant stays live or is being deleted; none comes back to life.  *)
LEMMA LiveEdge ==
    ASSUME Owned, Edges, NEW t \in Tenants
    PROVE  /\ t \in Live => /\ t \in Live' \/ (status[t] # "deleting" /\ status'[t] = "deleting")
                            /\ lxcIp'[t] = lxcIp[t] /\ lxcId'[t] = lxcId[t]
                            /\ RouteOf(t)' = RouteOf(t)
           /\ t \in Live' => t \in Live \/ (status[t] = "provisioning" /\ job'[t].pc = "addRoute")
<1>1. StatusEdge(t) /\ RowEdge(t) /\ (job[t].pc = "configure" => status[t] = "provisioning")
  BY DEF Edges, Owned, JobRows, PreActive
<1> QED
  BY <1>1 DEF StatusEdge, RowEdge, Live, RouteOf, Deletable

(* A delete that overtakes a job or the reconciler is remembered.          *)
LEMMA RaceSeen ==
    ASSUME ObserveRace, NEW t \in Tenants, status[t] # "deleting", status'[t] = "deleting",
           job[t].pc # "none" \/ Pending(t)
    PROVE  Subdomain[t] \in raced'
  BY DEF ObserveRace, At

(* A job that adds a route still has a live tenant, or lost a race.        *)
LEMMA EdgesJobLive ==
    ASSUME Owned, Edges, ObserveRace, JobLive PROVE JobLive'
<1> SUFFICES ASSUME NEW t \in Tenants, job'[t].pc = "addRoute", Subdomain[t] \notin raced'
             PROVE  t \in Live'
  BY DEF JobLive
<1>1. JobEdge(t) /\ Subdomain[t] \notin raced
  BY DEF Edges, ObserveRace
<1>2. CASE status'[t] = "active"
  BY <1>2 DEF Live
<1>3. CASE job[t].pc = "addRoute"
  <2>1. t \in Live
    BY <1>1, <1>3 DEF JobLive
  <2> QED
    BY <1>3, <2>1, LiveEdge, RaceSeen
<1> QED
  BY <1>1, <1>2, <1>3 DEF JobEdge

(* A route keeps its owner until the owner's delete removes it, and a new  *)
(* route has one.                                                          *)
LEMMA EdgesRoutesOwned ==
    ASSUME Owned, Edges, ObserveRace, JobAddresses, JobLive, RoutesOwned PROVE RoutesOwned'
<1> SUFFICES ASSUME NEW s \in Subdomains \ raced', route'[s] # None
             PROVE  \E t \in Tenants : RouteOwner(s, t)'
  BY DEF RoutesOwned
<1>0. s \in Subdomains \ raced /\ RouteEdge(s)
  BY DEF Edges, ObserveRace
\* A tenant whose delete has not removed its route yet does not come to the end of it.
<1>a. ASSUME NEW t \in Tenants, Subdomain[t] = s, lxcId[t] # None,
             \A r \in Requests : ~(req[r].pc = "setDeleted" /\ req[r].tenant = t)
      PROVE  \A r \in Requests : ~(req'[r].pc = "setDeleted" /\ req'[r].tenant = t)
  <2> SUFFICES ASSUME NEW r \in Requests, req'[r].pc = "setDeleted", req'[r].tenant = t PROVE FALSE
    OBVIOUS
  <2>1. ReqEdge(r)
    BY DEF Edges
  <2>2. req[r].pc = "release" => req[r].lxc = lxcId[req[r].tenant]
    BY DeleterRow DEF DeleteOwns
  <2> QED
    BY <1>a, <2>1, <2>2 DEF ReqEdge
<1>1. CASE route'[s] = route[s]
  <2>1. PICK t \in Tenants : RouteOwner(s, t)
    BY <1>0, <1>1 DEF RoutesOwned
  <2>2. StatusEdge(t) /\ RowEdge(t) /\ (job[t].pc = "configure" => status[t] = "provisioning")
    BY DEF Edges, Owned, JobRows, PreActive
  <2>3. status'[t] \in {"active", "suspended", "deleting", "error"} /\ lxcId'[t] = lxcId[t]
    BY <2>1, <2>2 DEF StatusEdge, RowEdge, RouteOwner, Deletable
  <2>4. \A r \in Requests : ~(req'[r].pc = "setDeleted" /\ req'[r].tenant = t)
    BY <2>1, <1>a DEF RouteOwner
  <2>5. (t \in Live' /\ lxcIp'[t] # None) => route'[s] = lxcIp'[t]
    BY <1>1, <2>1, LiveEdge DEF RouteOwner
  <2> QED
    BY <2>1, <2>3, <2>4, <2>5 DEF RouteOwner
<1>2. CASE \E t \in Tenants : /\ job[t].pc = "addRoute" /\ Subdomain[t] = s /\ job[t].ip # None
                              /\ route[s] = None /\ route'[s] = job[t].ip
  <2>1. PICK t \in Tenants : /\ job[t].pc = "addRoute" /\ Subdomain[t] = s
                             /\ route'[s] = job[t].ip
    BY <1>2
  <2>2. t \in Live
    BY <1>0, <2>1 DEF JobLive
  <2>3. lxcId[t] # None /\ \A r \in Requests : ~(req[r].pc = "setDeleted" /\ req[r].tenant = t)
    <3>1. lxcId[t] # None
      BY <2>2 DEF Owned, RamRows
    <3> QED
      BY <2>2, <3>1, DeleterRow DEF DeleteOwns, Live
  <2>4. \A r \in Requests : ~(req'[r].pc = "setDeleted" /\ req'[r].tenant = t)
    BY <2>1, <2>3, <1>a
  <2>5. status'[t] \in {"active", "suspended", "deleting", "error"} /\ lxcId'[t] # None
    BY <2>2, <2>3, LiveEdge DEF Live
  <2>6. lxcIp'[t] # None => route'[s] = lxcIp'[t]
    BY <2>1, <2>2, LiveEdge DEF JobAddresses
  <2> QED
    BY <2>1, <2>4, <2>5, <2>6 DEF RouteOwner
<1> QED
  BY <1>0, <1>1, <1>2 DEF RouteEdge

(* The elements the reconciler holds stay those of live tenants.           *)
LEMMA EdgesListed ==
    ASSUME Owned, Edges, ObserveRace, UNCHANGED rec, Listed PROVE Listed'
<1> SUFFICES ASSUME NEW e \in rec.todo \cup rec.cur, e.name \notin raced'
             PROVE  \E t \in Live' : RouteOf(t)' = e
  BY DEF Listed
<1>1. PICK t \in Live : RouteOf(t) = e
  BY DEF Listed, ObserveRace
<1>2. t \in Tenants /\ Pending(t) /\ Subdomain[t] = e.name
  BY <1>1 DEF Live, Pending, RouteOf
<1> QED
  BY <1>1, <1>2, LiveEdge, RaceSeen

(* No step of the life cycle takes the route of a live tenant away.        *)
LEMMA RouteStays ==
    ASSUME Owned, Edges, UniqueName, NEW t \in Live, lxcIp[t] # None,
           route[Subdomain[t]] = lxcIp[t]
    PROVE  route'[Subdomain[t]] = lxcIp[t]
<1>1. RouteEdge(Subdomain[t]) /\ t \in Tenants
  BY DEF Edges, Live
<1>2. ASSUME NEW r \in Requests, req[r].pc = "removeRoute", Subdomain[req[r].tenant] = Subdomain[t]
      PROVE  FALSE
  <2>1. req[r].tenant \in Tenants /\ status[req[r].tenant] = "deleting"
    BY <1>2, DeleterRow DEF DeleteOwns
  <2> QED
    BY <1>1, <1>2, <2>1 DEF UniqueName, Live, Gone
<1> QED
  BY <1>1, <1>2 DEF RouteEdge

(* An upserted route stays.                                                *)
LEMMA EdgesUpserted ==
    ASSUME Owned, Edges, UniqueName, UNCHANGED rec, rec.ok \subseteq Tenants, Upserted
    PROVE  Upserted'
<1> SUFFICES ASSUME NEW t \in rec.ok
             PROVE  /\ status'[t] \notin {"absent", "provisioning"}
                    /\ t \in Live' =>
                          /\ lxcIp'[t] # None /\ route'[Subdomain[t]] = lxcIp'[t]
                          /\ \A e \in rec.todo \cup rec.cur : e.name # Subdomain[t]
  BY DEF Upserted
<1>1. t \in Tenants /\ status[t] \notin {"absent", "provisioning"} /\ StatusEdge(t)
  BY DEF Upserted, Edges
<1>2. status'[t] \notin {"absent", "provisioning"}
  BY <1>1 DEF StatusEdge
<1>3. ASSUME t \in Live'
      PROVE  /\ lxcIp'[t] # None /\ route'[Subdomain[t]] = lxcIp'[t]
             /\ \A e \in rec.todo \cup rec.cur : e.name # Subdomain[t]
  <2>1. t \in Live /\ lxcIp'[t] = lxcIp[t]
    BY <1>1, <1>3, LiveEdge
  <2> QED
    BY <2>1, RouteStays DEF Upserted
<1> QED
  BY <1>2, <1>3

(* A live tenant is reached, or its job is about to see to it.             *)
LEMMA EdgesReached ==
    ASSUME Owned, Edges, ObserveRace, UNCHANGED <<rec, cut>>,
           UniqueName, JobAddresses, RoutesOwned, Reached
    PROVE  Reached'
<1> SUFFICES ASSUME NEW t \in Live', ~Disturbed(t)', lxcIp'[t] # None, job'[t].pc # "addRoute"
             PROVE  route'[Subdomain[t]] = lxcIp'[t]
  BY DEF Reached
<1>1. t \in Tenants /\ t \in Live /\ lxcIp'[t] = lxcIp[t] /\ RouteOf(t)' = RouteOf(t)
  <2>1. t \in Tenants
    BY DEF Live
  <2> QED
    BY <2>1, LiveEdge
<1>2. ~Disturbed(t) /\ Subdomain[t] \in Subdomains \ raced
  BY <1>1 DEF Disturbed, ObserveRace
<1>3. CASE route[Subdomain[t]] = lxcIp[t]
  BY <1>1, <1>3, RouteStays
<1>4. CASE job[t].pc = "addRoute"
  <2>1. JobEdge(t) /\ job[t].ip = lxcIp[t]
    BY <1>1, <1>4 DEF Edges, JobAddresses
  <2>2. CASE route[Subdomain[t]] # None
    <3>1. PICK u \in Tenants : RouteOwner(Subdomain[t], u)
      BY <1>2, <2>2 DEF RoutesOwned
    <3>2. u = t
      BY <1>1, <3>1 DEF RouteOwner, UniqueName, Live, Gone
    <3> QED
      BY <1>1, <1>3, <3>1, <3>2 DEF RouteOwner
  <2> QED
    BY <1>1, <1>4, <2>1, <2>2 DEF JobEdge
<1> QED
  BY <1>1, <1>2, <1>3, <1>4 DEF Reached

(* Jobs and requests keep Routes.                                          *)
LEMMA WorkRoutes ==
    ASSUME "panic" \notin Faults, "caddy" \notin Faults, "ctx" \notin Faults,
           RecTInv, Owned, Routes, [Work]_vars, UNCHANGED <<rec, cut>>, ObserveRace
    PROVE  Routes'
<1> USE DEF Routes
<1>1. Edges
  BY WorkEdges
<1>2. InTime'
  BY <1>1 DEF Edges, JobEdge, ReqEdge, InTime
<1>3. UniqueName' /\ JobAddresses' /\ JobLive' /\ RoutesOwned'
  BY <1>1, EdgesUniqueName, EdgesJobAddresses, EdgesJobLive, EdgesRoutesOwned DEF Owned
<1>4. Listed' /\ Upserted' /\ Reached'
  BY <1>1, EdgesListed, EdgesUpserted, EdgesReached, RecFields
<1> QED
  BY <1>2, <1>3, <1>4

(* A restart keeps Routes: the tenants it leaves half way are in cut, and  *)
(* the new reconciler has nothing in hand.                                 *)
LEMMA RestartRoutes ==
    ASSUME RecTInv, Routes, RecRestart, ObserveRace
    PROVE  Routes'
<1> USE DEF Routes
<1>0. Crash /\ UNCHANGED <<status, lxcId, lxcIp, route>> /\ raced \subseteq raced'
  BY DEF RecRestart, Crash, rowVars, ObserveRace
<1>1. (\A t \in Tenants : job'[t] = NoJob) /\ (\A r \in Requests : req'[r] = Idle)
  BY <1>0 DEF Crash
<1>2. InTime' /\ UniqueName' /\ JobAddresses' /\ JobLive'
  BY <1>0, <1>1 DEF InTime, UniqueName, JobAddresses, JobLive, NoJob, Idle
<1>3. RoutesOwned'
  <2> SUFFICES ASSUME NEW s \in Subdomains \ raced', route[s] # None
               PROVE  \E t \in Tenants : RouteOwner(s, t)'
    BY <1>0 DEF RoutesOwned
  <2>1. PICK t \in Tenants : RouteOwner(s, t)
    BY <1>0 DEF RoutesOwned
  <2> QED
    BY <1>0, <1>1, <2>1 DEF RouteOwner, Idle, Live
<1>4. Listed' /\ Upserted'
  BY RestartEffect DEF Listed, Upserted
<1>5. Reached'
  <2> SUFFICES ASSUME NEW t \in Live', ~Disturbed(t)', lxcIp'[t] # None
               PROVE  route'[Subdomain[t]] = lxcIp'[t]
    BY DEF Reached
  <2>1. UNCHANGED <<lxcIp, route>> /\ t \in Live /\ t \in Tenants
    BY <1>0 DEF Live
  <2>2. t \notin cut' /\ Subdomain[t] \notin raced'
    BY DEF Disturbed
  <2>3. t \notin cut /\ Quiet(t) /\ RouteOf(t) \notin rec.cur \cup rec.failed /\ Subdomain[t] \notin raced
    BY <2>1, <2>2 DEF RecRestart, ObserveRace
  <2>4. ~Disturbed(t) /\ job[t].pc # "addRoute"
    BY <2>3 DEF Disturbed, Quiet, At
  <2> QED
    BY <2>1, <2>4 DEF Reached
<1> QED
  BY <1>2, <1>3, <1>4, <1>5

(* A step of the reconciler leaves the parts of Routes that are not about  *)
(* routes alone.                                                           *)
LEMMA ReconcileKeeps ==
    ASSUME UNCHANGED <<rowVars, jobVars, req>>, ObserveRace,
           InTime, UniqueName, JobAddresses, JobLive
    PROVE  /\ InTime' /\ UniqueName' /\ JobAddresses' /\ JobLive'
           /\ raced \subseteq raced' /\ Live' = Live
           /\ \A t : RouteOf(t)' = RouteOf(t)
<1>1. UNCHANGED <<status, lxcId, lxcIp, job, req>> /\ raced \subseteq raced' /\ Live' = Live
  BY DEF rowVars, jobVars, ObserveRace, Live
<1>2. InTime' /\ UniqueName' /\ JobAddresses'
  BY <1>1 DEF InTime, UniqueName, JobAddresses
<1>3. JobLive'
  BY <1>1 DEF JobLive
<1>4. \A t : RouteOf(t)' = RouteOf(t)
  BY <1>1 DEF RouteOf
<1> QED
  BY <1>1, <1>2, <1>3, <1>4

(* The entry of a live tenant is the only one with its name.               *)
LEMMA EntryOf ==
    ASSUME UniqueName, Listed, NEW t \in Live, NEW e \in rec.todo \cup rec.cur,
           e.name = Subdomain[t], e.name \notin raced
    PROVE  e = RouteOf(t)
<1>1. PICK u \in Live : RouteOf(u) = e
  BY DEF Listed
<1>2. Subdomain[u] = Subdomain[t] /\ t \in Tenants /\ u \in Tenants
  BY <1>1 DEF RouteOf, Live
<1>3. u = t
  BY <1>2 DEF UniqueName, Live, Gone
<1> QED
  BY <1>1, <1>3

(* Reading the list keeps Routes.                                          *)
LEMMA ListRoutes ==
    ASSUME RecTInv, Routes, ReconcileList, ObserveRace,
           UNCHANGED <<rowVars, totalRam, ramVars, ctVars, jobVars, req, cut>>
    PROVE  Routes'
<1> USE DEF Routes
<1>1. /\ InTime' /\ UniqueName' /\ JobAddresses' /\ JobLive'
      /\ raced \subseteq raced' /\ Live' = Live /\ \A t : RouteOf(t)' = RouteOf(t)
  BY ReconcileKeeps
<1>2. /\ UNCHANGED <<status, lxcId, lxcIp, route, job, req, cut>>
      /\ rec'.cur = {} /\ rec'.failed = {} /\ rec'.ok = {} /\ rec.cur = {} /\ rec.failed = {}
      /\ rec'.todo \in {{}, ListActiveWithIP}
  BY ListEffect DEF rowVars, jobVars, RecTInv, RecShape
<1>3. RoutesOwned'
  BY <1>1, <1>2 DEF RoutesOwned, RouteOwner
<1>4. Listed'
  <2>1. \A e \in ListActiveWithIP : \E t \in Live : RouteOf(t) = e /\ Subdomain[t] = e.name
    BY DEF ListActiveWithIP, Live, RouteOf
  <2>2. \A d, e \in ListActiveWithIP : d.name = e.name => d = e
    BY <2>1 DEF UniqueName, Live, Gone
  <2> QED
    BY <1>1, <1>2, <2>1, <2>2 DEF Listed
<1>5. Upserted'
  BY <1>2 DEF Upserted
<1>6. Reached'
  BY <1>1, <1>2 DEF Reached, Disturbed
<1> QED
  BY <1>1, <1>3, <1>4, <1>5, <1>6

(* The DELETE of an upsert keeps Routes: its element is in cur now.        *)
LEMMA RemoveRoutes ==
    ASSUME RecTInv, Routes, NEW e \in TenantRoute, UpsertRemove(e), ObserveRace,
           UNCHANGED <<rowVars, totalRam, ramVars, ctVars, jobVars, req, cut>>
    PROVE  Routes'
<1> USE DEF Routes
<1>1. /\ InTime' /\ UniqueName' /\ JobAddresses' /\ JobLive'
      /\ raced \subseteq raced' /\ Live' = Live /\ \A t : RouteOf(t)' = RouteOf(t)
  BY ReconcileKeeps
<1>2. /\ UNCHANGED <<status, lxcId, lxcIp, job, req, cut>>
      /\ e \in rec.todo /\ rec.cur = {} /\ rec'.ok = rec.ok /\ rec'.todo = rec.todo \ {e}
      /\ rec.failed \subseteq rec'.failed /\ rec'.cur \subseteq {e} /\ e \in rec'.cur \cup rec'.failed
      /\ route' = route \/ (RemoveRoute(e.name) /\ rec'.cur = {e})
  BY RemoveEffect DEF rowVars, jobVars
<1>3. /\ \A s \in Subdomains : s # e.name => route'[s] = route[s]
      /\ route'[e.name] \in {route[e.name], None}
  BY <1>2 DEF RecTInv, TInv, TypeOK, RemoveRoute, TenantRoute
<1>4. RoutesOwned'
  <2> SUFFICES ASSUME NEW s \in Subdomains \ raced', route'[s] # None
               PROVE  \E t \in Tenants : RouteOwner(s, t)'
    BY DEF RoutesOwned
  <2>1. route'[s] = route[s] /\ s \in Subdomains \ raced
    BY <1>1, <1>3
  <2>2. PICK t \in Tenants : RouteOwner(s, t)
    BY <2>1 DEF RoutesOwned
  <2> QED
    BY <1>1, <1>2, <2>1, <2>2 DEF RouteOwner
<1>5. Listed'
  BY <1>1, <1>2 DEF Listed
<1>6. Upserted'
  <2> SUFFICES ASSUME NEW t \in rec.ok
               PROVE  /\ status[t] \notin {"absent", "provisioning"}
                      /\ t \in Live =>
                            /\ lxcIp[t] # None /\ route'[Subdomain[t]] = lxcIp[t]
                            /\ \A d \in rec'.todo \cup rec'.cur : d.name # Subdomain[t]
    BY <1>1, <1>2 DEF Upserted
  <2>1. t \in Live => Subdomain[t] \in Subdomains
    BY DEF Live
  <2> QED
    BY <1>2, <1>3, <2>1 DEF Upserted
<1>7. Reached'
  <2> SUFFICES ASSUME NEW t \in Live, ~Disturbed(t)', lxcIp[t] # None, job[t].pc # "addRoute"
               PROVE  route'[Subdomain[t]] = lxcIp[t]
    BY <1>1, <1>2 DEF Reached
  <2>1. /\ t \notin cut /\ Subdomain[t] \notin raced /\ RouteOf(t) \notin rec'.cur \cup rec'.failed
        /\ Subdomain[t] \in Subdomains
    BY <1>1, <1>2 DEF Disturbed, Live
  <2>2. ~Disturbed(t) /\ RouteOf(t) # e
    BY <1>2, <2>1 DEF Disturbed
  <2>3. e.name # Subdomain[t]
    BY <1>2, <2>1, <2>2, EntryOf
  <2> QED
    BY <1>3, <2>1, <2>2, <2>3 DEF Reached
<1> QED
  BY <1>1, <1>4, <1>5, <1>6, <1>7

(* The POST of an upsert keeps Routes: the route it adds has an owner.     *)
LEMMA AddRoutes ==
    ASSUME RecTInv, Owned, Routes, NEW e \in TenantRoute, UpsertAdd(e), ObserveRace,
           UNCHANGED <<rowVars, totalRam, ramVars, ctVars, jobVars, req, cut>>
    PROVE  Routes'
<1> USE DEF Routes
<1>1. /\ InTime' /\ UniqueName' /\ JobAddresses' /\ JobLive'
      /\ raced \subseteq raced' /\ Live' = Live /\ \A t : RouteOf(t)' = RouteOf(t)
  BY ReconcileKeeps
<1>2. /\ UNCHANGED <<status, lxcId, lxcIp, job, req, cut>>
      /\ rec.cur = {e} /\ rec'.cur = {} /\ rec'.todo = rec.todo /\ e \notin rec.todo
      /\ \/ /\ rec'.failed = rec.failed \cup {e} /\ rec'.ok = rec.ok /\ route' = route
         \/ /\ rec'.failed = rec.failed /\ rec'.ok = rec.ok \cup HoldersOf(e)
            /\ AddRoute(e.name, e.ip)
  BY AddEffect DEF rowVars, jobVars, RecTInv
<1>3. Listed'
  BY <1>1, <1>2 DEF Listed
<1>4. CASE rec'.failed = rec.failed \cup {e} /\ rec'.ok = rec.ok /\ route' = route
  <2>1. RoutesOwned'
    BY <1>1, <1>2, <1>4 DEF RoutesOwned, RouteOwner
  <2>2. Upserted'
    BY <1>1, <1>2, <1>4 DEF Upserted
  <2>3. Reached'
    BY <1>1, <1>2, <1>4 DEF Reached, Disturbed
  <2> QED
    BY <1>1, <1>3, <2>1, <2>2, <2>3
<1>5. CASE /\ rec'.failed = rec.failed /\ rec'.ok = rec.ok \cup HoldersOf(e)
           /\ AddRoute(e.name, e.ip)
  <2>0. e.name \in Subdomains /\ e.ip # None
    BY DEF TenantRoute
  <2>1. /\ route[e.name] = None /\ route'[e.name] = e.ip
        /\ \A s \in Subdomains : s # e.name => route'[s] = route[s]
    BY <1>5, <2>0 DEF RecTInv, TInv, TypeOK, AddRoute
  <2>2. RoutesOwned'
    <3> SUFFICES ASSUME NEW s \in Subdomains \ raced', route'[s] # None
                 PROVE  \E t \in Tenants : RouteOwner(s, t)'
      BY DEF RoutesOwned
    <3>1. CASE s # e.name
      <4>1. PICK t \in Tenants : RouteOwner(s, t)
        BY <1>1, <2>1, <3>1 DEF RoutesOwned
      <4> QED
        BY <1>1, <1>2, <2>1, <3>1, <4>1 DEF RouteOwner
    <3>2. CASE s = e.name
      <4>1. PICK t \in Live : RouteOf(t) = e
        BY <1>1, <1>2, <3>2 DEF Listed
      <4>2. /\ t \in Tenants /\ Subdomain[t] = s /\ lxcIp[t] = e.ip
            /\ status[t] \in {"active", "suspended"} /\ lxcId[t] # None
        BY <3>2, <4>1 DEF RouteOf, Live, Owned, RamRows
      <4>3. \A r \in Requests : ~(req[r].pc = "setDeleted" /\ req[r].tenant = t)
        BY <4>2, DeleterRow DEF DeleteOwns
      <4> QED
        BY <1>1, <1>2, <2>1, <3>2, <4>2, <4>3 DEF RouteOwner
    <3> QED
      BY <3>1, <3>2
  <2>3. Upserted'
    <3> SUFFICES ASSUME NEW t \in rec'.ok
                 PROVE  /\ status[t] \notin {"absent", "provisioning"}
                        /\ t \in Live =>
                              /\ lxcIp[t] # None /\ route'[Subdomain[t]] = lxcIp[t]
                              /\ \A d \in rec.todo : d.name # Subdomain[t]
      BY <1>1, <1>2 DEF Upserted
    <3>1. CASE t \in rec.ok
      <4>1. t \in Live => Subdomain[t] \in Subdomains
        BY DEF Live
      <4> QED
        BY <1>2, <2>1, <3>1, <4>1 DEF Upserted
    <3>2. CASE t \in HoldersOf(e)
      <4>1. t \in Live /\ Subdomain[t] = e.name /\ lxcIp[t] = e.ip
        BY <3>2 DEF HoldersOf, RouteOf
      <4>2. \A d \in rec.todo : d.name # e.name
        BY <1>2 DEF Listed
      <4> QED
        BY <2>0, <2>1, <4>1, <4>2 DEF Live
    <3> QED
      BY <1>5, <3>1, <3>2
  <2>4. Reached'
    <3> SUFFICES ASSUME NEW t \in Live, ~Disturbed(t)', lxcIp[t] # None, job[t].pc # "addRoute"
                 PROVE  route'[Subdomain[t]] = lxcIp[t]
      BY <1>1, <1>2 DEF Reached
    <3>1. /\ t \notin cut /\ Subdomain[t] \notin raced /\ RouteOf(t) \notin rec.failed
          /\ Subdomain[t] \in Subdomains
      BY <1>1, <1>2, <1>5 DEF Disturbed, Live
    <3>2. CASE Subdomain[t] = e.name
      <4>1. RouteOf(t) = e
        BY <1>2, <3>1, <3>2, EntryOf
      <4> QED
        BY <2>1, <3>2, <4>1 DEF RouteOf
    <3>3. CASE Subdomain[t] # e.name
      <4>1. ~Disturbed(t)
        BY <1>2, <3>1, <3>3 DEF Disturbed, RouteOf
      <4> QED
        BY <2>1, <3>1, <3>3, <4>1 DEF Reached
    <3> QED
      BY <3>2, <3>3
  <2> QED
    BY <1>1, <1>3, <2>2, <2>3, <2>4
<1> QED
  BY <1>2, <1>4, <1>5

(* Routes is inductive on top of who owns what.                            *)
LEMMA NextRoutes ==
    ASSUME "panic" \notin Faults, "caddy" \notin Faults, "ctx" \notin Faults
    PROVE  RecTInv /\ Owned /\ Routes /\ [RecNext]_recVars => Routes'
<1> SUFFICES ASSUME RecTInv, Owned, Routes, [RecNext]_recVars PROVE Routes'
  OBVIOUS
<1>1. CASE Work /\ UNCHANGED <<rec, cut>> /\ ObserveRace
  BY <1>1, WorkRoutes
<1>2. CASE RecRestart /\ ObserveRace
  BY <1>2, RestartRoutes
<1>3. CASE Reconcile /\ UNCHANGED <<rowVars, totalRam, ramVars, ctVars, jobVars, req, cut>> /\ ObserveRace
  BY <1>3, ListRoutes, RemoveRoutes, AddRoutes DEF Reconcile
<1>4. CASE UNCHANGED recVars
  <2>1. UNCHANGED vars /\ UNCHANGED <<rec, cut>> /\ raced' = raced
    BY <1>4 DEF recVars
  <2>2. ObserveRace
    BY <2>1 DEF ObserveRace, vars
  <2> QED
    BY <2>1, <2>2, WorkRoutes
<1> QED
  BY <1>1, <1>2, <1>3, <1>4 DEF RecNext

(* Ownership of rows and reservations survives the reconciler too.         *)
LEMMA NextRecOwned ==
    ASSUME "panic" \notin Faults
    PROVE  RecTInv /\ Owned /\ [RecNext]_recVars => Owned'
<1> SUFFICES ASSUME RecTInv, Owned, [RecNext]_recVars PROVE Owned'
  OBVIOUS
<1>1. CASE [Next]_vars
  BY <1>1, NextOwned
<1>2. CASE Reconcile /\ UNCHANGED <<rowVars, totalRam, ramVars, ctVars, jobVars, req, cut>>
  <2>1. RecTInv'
    BY NextRecTInv
  <2>2. TInv /\ route' \in [Subdomains -> IPs \cup {None}]
    BY <2>1 DEF RecTInv, TInv, TypeOK
  <2> QED
    BY <1>2, <2>2, RouteOnly
<1> QED
  BY <1>1, <1>2 DEF RecNext, RecRestart, Next, recVars

(* No route, no list and no context is there at the start.                 *)
LEMMA InitRoutes == RecInit => Routes
<1> SUFFICES ASSUME RecInit PROVE Routes
  OBVIOUS
<1> USE DEF RecInit, RecStart, Init, StoresInit, ProvisionerInit, RequestsInit, NoJob, Idle
<1>1. InTime /\ UniqueName /\ JobAddresses /\ JobLive
  BY DEF InTime, UniqueName, JobAddresses, JobLive, Gone
<1>2. RoutesOwned /\ Listed /\ Upserted
  BY DEF RoutesOwned, Listed, Upserted
<1>3. Reached
  BY DEF Reached, Live
<1> QED
  BY <1>1, <1>2, <1>3 DEF Routes

LEMMA RoutesCorrect ==
    ASSUME "panic" \notin Faults, "caddy" \notin Faults, "ctx" \notin Faults
    PROVE  RecSpec => [](Owned /\ Routes)
<1>1. RecInit => Owned
  BY InitOwned DEF RecInit
<1> QED
  BY <1>1, RecTInvCorrect, NextRecOwned, InitRoutes, NextRoutes, PTL DEF RecSpec

(* The route of a name that no tenant has any more is gone: no delete      *)
(* leaves it behind and neither a job nor the reconciler brings it back,   *)
(* unless the delete overtook one of them.  Excluded are panics, Caddy     *)
(* calls of jobs and deletes that fail, and contexts that end early.       *)
THEOREM NoStrayRoutesCorrect ==
    ASSUME "panic" \notin Faults, "caddy" \notin Faults, "ctx" \notin Faults
    PROVE  RecSpec => []NoStrayRoutes
<1>1. Routes => NoStrayRoutes
  BY DEF Routes, RoutesOwned, RouteOwner, NoStrayRoutes
<1> QED
  BY <1>1, RoutesCorrect, PTL

(* A tenant at rest that has an address is reachable under its name; one   *)
(* whose job died with the process, or whose name was raced for, is so     *)
(* once the reconciler has upserted it, and stays so.                      *)
THEOREM ActiveIsRoutedCorrect ==
    ASSUME "panic" \notin Faults, "caddy" \notin Faults, "ctx" \notin Faults
    PROVE  RecSpec => []ActiveIsRouted
<1>1. Routes => ActiveIsRouted
  BY DEF Routes, Upserted, Reached, ActiveIsRouted, Quiet, At
<1> QED
  BY <1>1, RoutesCorrect, PTL

-----------------------------------------------------------------------------
(***************************************************************************)
(* Rows and containers.  Suspend and Resume write the row before they      *)
(* reach for the container, so the two differ while such a request is at   *)
(* it; Powered says how, for every tenant whose requests did not cross.    *)
(***************************************************************************)

\* The state of a container that its row's status stands for.
PowerOf(st) == IF st = "active" THEN "running" ELSE "stopped"

Uncancelled == \A r \in Requests : ~req[r].cancelled

CrossingSeen == Crossing \subseteq crossed

JobsStarted == \A t \in Tenants \ crossed : job[t].pc = "activate" => ctState[job[t].vmid] = "running"

RowsSwitched == \A r \in Requests :
    Switching(r) /\ req[r].tenant \in Live \ crossed => status[req[r].tenant] = After(r)

RowsPowered == \A t \in Live \ (cut \cup crossed) :
    \/ /\ \A r \in Requests : Switching(r) => req[r].tenant # t
       /\ ctState[lxcId[t]] = PowerOf(status[t])
    \/ \E r \in Requests : /\ Switching(r) /\ req[r].tenant = t
                           /\ ctState[lxcId[t]] = PowerOf(Before(r))

Powered == Uncancelled /\ CrossingSeen /\ JobsStarted /\ RowsSwitched /\ RowsPowered

\* A container is touched by the job or the delete of its owner, or is nobody's.
OwnerTouches(v) ==
    \/ ctState'[v] = ctState[v]
    \/ ctOwner[v] = None
    \/ \E u \in Tenants :
          /\ ctOwner[v] = u
          /\ \/ job[u].pc \in {"start", "cleanup"}
             \/ \E r \in Requests : req[r].tenant = u /\ req[r].pc \in {"stop", "destroy"}

(* The container of a live tenant, or of a job that has started it, is not *)
(* what such a step touches.                                               *)
LEMMA Untouched ==
    ASSUME Owned, Containers, NEW v \in VMIDs, OwnerTouches(v), NEW t \in Tenants,
           \/ t \in Live /\ lxcId[t] = v
           \/ job[t].pc = "activate" /\ job[t].vmid = v
    PROVE  ctState'[v] = ctState[v]
<1>1. ctOwner[v] = t /\ status[t] \in {"active", "suspended", "provisioning"}
  BY DEF Owned, JobRows, PreActive, Containers, JobContainers, RowContainers, HasContainer, Live, Deletable
<1>2. job[t].pc \notin {"start", "cleanup"}
  BY DEF Owned, JobRows, PreActive, Live
<1>3. ASSUME NEW r \in Requests, req[r].tenant = t, req[r].pc \in {"stop", "destroy"} PROVE FALSE
  BY <1>1, <1>3, DeleterRow DEF DeleteOwns
<1> QED
  BY <1>1, <1>2, <1>3 DEF OwnerTouches

(* Steps that leave the live rows and the requests that switch one alone.  *)
LEMMA PoweredFrame ==
    ASSUME Owned, Containers, Powered, cut' = cut, ObserveCrossing, Uncancelled',
           \A v \in VMIDs : OwnerTouches(v),
           \A t \in Tenants : t \in Live' => t \in Live /\ status'[t] = status[t] /\ lxcId'[t] = lxcId[t],
           \A t \in Tenants : job'[t].pc = "activate" =>
              \/ job[t].pc = "activate" /\ job'[t].vmid = job[t].vmid
              \/ ctState'[job'[t].vmid] = "running",
           \A r \in Requests : Switching(r)' <=> Switching(r),
           \A r \in Requests : Switching(r) =>
              req'[r].tenant = req[r].tenant /\ req'[r].op = req[r].op
    PROVE  Powered'
<1> USE DEF Powered
<1>0. CrossingSeen' /\ crossed \subseteq crossed'
  BY DEF CrossingSeen, ObserveCrossing
<1>1. JobsStarted'
  <2> SUFFICES ASSUME NEW t \in Tenants \ crossed, job'[t].pc = "activate", job[t].pc = "activate",
                      job'[t].vmid = job[t].vmid
               PROVE  ctState'[job[t].vmid] = "running"
    BY <1>0 DEF JobsStarted
  <2>1. job[t].vmid \in VMIDs
    BY DEF Owned, JobRows
  <2> QED
    BY <2>1, Untouched DEF JobsStarted
<1>2. RowsSwitched'
  <2> SUFFICES ASSUME NEW r \in Requests, Switching(r), req[r].tenant \in Live' \ crossed
               PROVE  status'[req[r].tenant] = After(r)
    BY <1>0 DEF RowsSwitched, After
  <2>1. req[r].tenant \in Live \ crossed /\ status'[req[r].tenant] = status[req[r].tenant]
    BY DEF Live
  <2> QED
    BY <2>1 DEF RowsSwitched
<1>3. RowsPowered'
  <2> SUFFICES ASSUME NEW t \in Live' \ (cut \cup crossed)
               PROVE  \/ /\ \A r \in Requests : Switching(r)' => req'[r].tenant # t
                         /\ ctState'[lxcId'[t]] = PowerOf(status'[t])
                      \/ \E r \in Requests : /\ Switching(r)' /\ req'[r].tenant = t
                                             /\ ctState'[lxcId'[t]] = PowerOf(Before(r)')
    BY <1>0 DEF RowsPowered, PowerOf
  <2>1. t \in Tenants /\ t \in Live /\ status'[t] = status[t] /\ lxcId'[t] = lxcId[t]
    BY DEF Live
  <2>2. lxcId[t] \in VMIDs
    BY <2>1 DEF Owned, RamRows, TInv, TypeOK
  <2>3. ctState'[lxcId[t]] = ctState[lxcId[t]]
    BY <2>1, <2>2, Untouched
  <2>4. \A r \in Requests : Switching(r) => Before(r)' = Before(r)
    BY DEF Before
  <2> QED
    BY <2>1, <2>3, <2>4 DEF RowsPowered
<1> QED
  BY <1>0, <1>1, <1>2, <1>3

(* A job hands over a container that runs, and touches that of no live     *)
(* tenant.                                                                 *)
LEMMA JobPowered ==
    ASSUME "panic" \notin Faults, "late" \notin Faults,
           Owned, Containers, Powered, cut' = cut, ObserveCrossing,
           NEW t \in Tenants, JobStep(t) \/ Expire(t) \/ Panic(t)
    PROVE  Powered'
<1> USE DEF rowVars, ctVars, At
<1>0. /\ TInv /\ req' = req
      /\ status \in [Tenants -> Statuses] /\ lxcId \in [Tenants -> VMIDs \cup {None}]
      /\ ctState \in [VMIDs -> {"absent", "stopped", "running"}]
      /\ job[t].pc # "none"
  <2>1. req' = req /\ TInv
    BY DEF JobStep, AcquireSlot, LookupAndGetNextID, Clone, AllocateIP, ConfigureNetwork,
           MountAndStart, Activate, DeployAndAddRoute, CheckHealth, Cleanup, JobSetError,
           JobReleaseRAM, Expire, Panic, Owned
  <2>2. job[t].pc # "none"
    BY DEF JobStep, AcquireSlot, LookupAndGetNextID, Clone, AllocateIP, ConfigureNetwork,
           MountAndStart, Activate, DeployAndAddRoute, CheckHealth, Cleanup, JobSetError,
           JobReleaseRAM, Expire, Panic, Owned, TInv, SlotPCs
  <2> QED
    BY <2>1, <2>2 DEF TInv, TypeOK
\* What is left to show of a step that brings nothing to life.
<1>a. ASSUME UNCHANGED <<status, lxcId>>,
             \A u \in Tenants : u # t => job'[u] = job[u],
             \A v \in VMIDs : OwnerTouches(v),
             job'[t].pc = "activate" =>
                \/ job[t].pc = "activate" /\ job'[t].vmid = job[t].vmid
                \/ ctState'[job'[t].vmid] = "running"
      PROVE  Powered'
  <2>1. Uncancelled' /\ Live' = Live /\ \A r \in Requests : Switching(r)' <=> Switching(r)
    BY <1>0, <1>a DEF Powered, Uncancelled, Live, Switching
  <2> QED
    BY <1>0, <1>a, <2>1, PoweredFrame
<1>b. ASSUME UNCHANGED <<status, lxcId, ctState>>,
             \A u \in Tenants : u # t => job'[u] = job[u],
             job'[t].pc = "activate" => job[t].pc = "activate" /\ job'[t].vmid = job[t].vmid
      PROVE  Powered'
  BY <1>a, <1>b DEF OwnerTouches
<1>1. CASE AcquireSlot(t)
  BY <1>0, <1>1, <1>b, AcquireFacts DEF AcquireSlot
<1>2. CASE LookupAndGetNextID(t)
  BY <1>0, <1>2, <1>b, LookupFacts DEF LookupAndGetNextID
<1>3. CASE Clone(t)
  <2>1. /\ UNCHANGED <<status, lxcId>> /\ job'[t].pc # "activate"
        /\ \A u \in Tenants : u # t => job'[u] = job[u]
    BY <1>0, <1>3, GotoFacts DEF Clone, JobPCs
  <2>2. \A v \in VMIDs : ctState'[v] = ctState[v] \/ ctState[v] = "absent"
    BY <1>0, <1>3 DEF Clone, CloneContainer
  <2>3. \A v \in VMIDs : OwnerTouches(v)
    BY <2>2 DEF OwnerTouches, Containers, Proxmox
  <2> QED
    BY <1>a, <2>1, <2>3
<1>4. CASE AllocateIP(t)
  BY <1>0, <1>4, <1>b, AllocateFacts DEF AllocateIP
<1>5. CASE ConfigureNetwork(t)
  BY <1>0, <1>5, <1>b, GotoFacts DEF ConfigureNetwork, SetLXCIP, JobPCs
<1>6. CASE MountAndStart(t)
  <2>0. /\ UNCHANGED <<status, lxcId>> /\ job[t].pc = "start"
        /\ job[t].vmid \in VMIDs /\ ctOwner[job[t].vmid] = t
    BY <1>6 DEF MountAndStart, Owned, JobRows, Containers, JobContainers, HasContainer
  <2>1. CASE StartContainer(job[t].vmid) /\ Goto(t, "activate")
    <3>1. /\ job'[t].vmid = job[t].vmid /\ \A u \in Tenants : u # t => job'[u] = job[u]
      BY <1>0, <2>1, GotoFacts DEF JobPCs
    <3>2. /\ ctState'[job[t].vmid] = "running"
          /\ \A v \in VMIDs : v # job[t].vmid => ctState'[v] = ctState[v]
      BY <1>0, <2>0, <2>1 DEF StartContainer
    <3>3. \A v \in VMIDs : OwnerTouches(v)
      BY <2>0, <3>2 DEF OwnerTouches
    <3> QED
      BY <1>a, <2>0, <3>1, <3>2, <3>3
  <2>2. CASE Goto(t, "cleanup") /\ UNCHANGED ctVars
    BY <1>0, <1>b, <2>0, <2>2, GotoFacts DEF JobPCs
  <2> QED
    BY <1>6, <2>1, <2>2 DEF MountAndStart
<1>7. CASE Activate(t)
  <2>0. UNCHANGED ctState /\ job[t].pc = "activate" /\ status[t] = "provisioning" /\ job[t].vmid \in VMIDs
    BY <1>7 DEF Activate, Owned, JobRows, PreActive
  <2>1. CASE SetActive(t, job[t].vmid) /\ Goto(t, "addRoute")
    <3>1. /\ status'[t] = "active" /\ lxcId'[t] = job[t].vmid
          /\ \A u \in Tenants : u # t => status'[u] = status[u] /\ lxcId'[u] = lxcId[u]
      BY <1>0, <2>1 DEF SetActive, CAS
    <3>2. job'[t].pc = "addRoute" /\ \A u \in Tenants : u # t => job'[u] = job[u]
      BY <1>0, <2>1, GotoFacts DEF JobPCs
    \* No request is about a tenant that is still provisioning.
    <3>3. \A r \in Requests : Switching(r) => req[r].tenant # t /\ req[r].tenant \in Tenants
      BY <1>0, <2>0, ReqFields DEF Switching, Owned, ReqRows, Creating
    <3>c. CrossingSeen' /\ crossed \subseteq crossed'
      BY DEF CrossingSeen, ObserveCrossing
    <3>4. Uncancelled' /\ JobsStarted'
      BY <1>0, <2>0, <3>c, <3>2 DEF Powered, Uncancelled, JobsStarted
    <3>5. RowsSwitched'
      <4> SUFFICES ASSUME NEW r \in Requests, Switching(r), req[r].tenant \in Live' \ crossed
                   PROVE  status'[req[r].tenant] = After(r)
        BY <1>0, <3>c DEF RowsSwitched, Switching, After
      <4>1. req[r].tenant \in Live \ crossed /\ status'[req[r].tenant] = status[req[r].tenant]
        BY <3>1, <3>3 DEF Live
      <4> QED
        BY <4>1 DEF Powered, RowsSwitched
    <3>6. RowsPowered'
      <4> SUFFICES ASSUME NEW u \in Live' \ (cut \cup crossed)
                   PROVE  \/ /\ \A r \in Requests : Switching(r) => req[r].tenant # u
                             /\ ctState[lxcId'[u]] = PowerOf(status'[u])
                          \/ \E r \in Requests : /\ Switching(r) /\ req[r].tenant = u
                                                 /\ ctState[lxcId'[u]] = PowerOf(Before(r))
        BY <1>0, <2>0, <3>c DEF RowsPowered, Switching, PowerOf, Before
      <4>1. CASE u = t
        BY <2>0, <3>1, <3>3, <4>1 DEF Powered, JobsStarted, PowerOf
      <4>2. CASE u # t
        <5>1. u \in Live \ (cut \cup crossed) /\ status'[u] = status[u] /\ lxcId'[u] = lxcId[u]
          BY <3>1, <4>2 DEF Live
        <5> QED
          BY <5>1 DEF Powered, RowsPowered
      <4> QED
        BY <4>1, <4>2
    <3> QED
      BY <3>c, <3>4, <3>5, <3>6 DEF Powered
  <2>2. CASE Goto(t, "cleanup") /\ UNCHANGED rowVars
    BY <1>0, <1>b, <2>0, <2>2, GotoFacts DEF JobPCs
  <2> QED
    BY <1>7, <2>1, <2>2 DEF Activate
<1>8. CASE DeployAndAddRoute(t)
  BY <1>0, <1>8, <1>b, GotoFacts DEF DeployAndAddRoute, JobPCs
<1>9. CASE CheckHealth(t)
  BY <1>0, <1>9, <1>b, JobReturnFacts DEF CheckHealth, NoJob
<1>10. CASE Cleanup(t)
  <2>0. /\ UNCHANGED <<status, lxcId>> /\ job[t].pc = "cleanup"
        /\ job[t].vmid \in VMIDs /\ ctOwner[job[t].vmid] = t
    BY <1>10 DEF Cleanup, Owned, JobRows, Containers, JobContainers, HasContainer
  <2>1. job'[t].pc = "setError" /\ \A u \in Tenants : u # t => job'[u] = job[u]
    BY <1>0, <1>10, GotoFacts DEF Cleanup, JobPCs
  <2>2. \A v \in VMIDs : v # job[t].vmid => ctState'[v] = ctState[v]
    BY <1>0, <1>10 DEF Cleanup, DeleteContainer
  <2>3. \A v \in VMIDs : OwnerTouches(v)
    BY <2>0, <2>2 DEF OwnerTouches
  <2> QED
    BY <1>a, <2>0, <2>1, <2>3
<1>11. CASE JobSetError(t)
  <2>1. /\ job'[t].pc = "release" /\ \A u \in Tenants : u # t => job'[u] = job[u]
        /\ UNCHANGED <<lxcId, ctState>> /\ status[t] = "provisioning"
    BY <1>0, <1>11, GotoFacts DEF JobSetError, SetError, JobPCs, Owned, JobRows, PreActive
  <2>2. CASE status' = status
    BY <1>b, <2>1, <2>2
  <2>3. CASE SetError(t)
    <3>1. status'[t] = "error" /\ \A u \in Tenants : u # t => status'[u] = status[u]
      BY <1>0, <2>3 DEF SetError, CAS
    <3>2. \A r \in Requests : Switching(r) => req[r].tenant # t /\ req[r].tenant \in Tenants
      BY <1>0, <2>1, ReqFields DEF Switching, Owned, ReqRows, Creating
    <3>3. /\ Uncancelled' /\ (\A r \in Requests : Switching(r)' <=> Switching(r))
          /\ \A v \in VMIDs : OwnerTouches(v)
      BY <1>0, <2>1 DEF Powered, Uncancelled, Switching, OwnerTouches
    <3>4. \A u \in Tenants : u \in Live' => u \in Live /\ status'[u] = status[u]
      BY <3>1 DEF Live
    <3> QED
      BY <1>0, <2>1, <3>1, <3>2, <3>3, <3>4, PoweredFrame
  <2> QED
    BY <1>11, <2>2, <2>3 DEF JobSetError
<1>12. CASE JobReleaseRAM(t)
  BY <1>0, <1>12, <1>b, JobReturnFacts DEF JobReleaseRAM, NoJob
<1>13. CASE Expire(t)
  BY <1>0, <1>13, <1>b, ExpireFacts DEF Expire
<1> QED
  BY <1>1, <1>2, <1>3, <1>4, <1>5, <1>6, <1>7, <1>8, <1>9, <1>10, <1>11, <1>12, <1>13
     DEF JobStep, Panic

(* Suspend and Resume: the row first, the container after it, and the row   *)
(* back when the container call fails.  A request that does not cross        *)
(* another is alone with its row and the only one at its container.          *)
LEMMA TogglePowered ==
    ASSUME "late" \notin Faults, "db" \notin Faults,
           Owned, Containers, Powered, cut' = cut, ObserveCrossing,
           NEW r \in Requests,
           ToggleStatus(r) \/ TogglePower(r) \/ ToggleRollback(r)
    PROVE  Powered'
<1> USE DEF rowVars, ctVars, jobVars, ReqAt, ReqAlive, ReqMayFail
<1> DEFINE t == req[r].tenant
<1>0. /\ TInv /\ ~req[r].cancelled /\ UNCHANGED job /\ t \in Tenants /\ req[r].lxc = lxcId[t]
      /\ status \in [Tenants -> Statuses] /\ lxcId \in [Tenants -> VMIDs \cup {None}]
      /\ ctState \in [VMIDs -> {"absent", "stopped", "running"}]
      /\ \A q \in Requests : q # r => req'[q] = req[q]
  <2>1. TInv /\ ~req[r].cancelled /\ UNCHANGED job /\ req[r].pc \in {"toggle", "power", "rollback"}
    BY DEF Owned, Powered, Uncancelled, ToggleStatus, TogglePower, ToggleRollback
  <2>2. \A q \in Requests : q # r => req'[q] = req[q]
    BY <2>1, ReqGotoFacts, RespondFacts DEF ToggleStatus, TogglePower, ToggleRollback, ReqPCs
  <2> QED
    BY <2>1, <2>2, ReqFields DEF Owned, ReqRows, Creating, TInv, TypeOK
<1>c. CrossingSeen' /\ crossed \subseteq crossed'
  BY DEF CrossingSeen, ObserveCrossing
<1>u. \A q \in Requests : q # r => /\ Switching(q)' <=> Switching(q)
                                   /\ Before(q)' = Before(q) /\ After(q)' = After(q)
                                   /\ req'[q].tenant = req[q].tenant
  BY <1>0 DEF Switching, Before, After
\* A live tenant or a started job has a container of its own.
<1>1. ASSUME NEW u \in Live PROVE u \in Tenants /\ lxcId[u] \in VMIDs /\ ctOwner[lxcId[u]] = u
  <2>1. u \in Tenants /\ lxcId[u] # None
    BY <1>1 DEF Live, Owned, RamRows
  <2> QED
    BY <1>0, <1>1, <2>1 DEF Live, Deletable, Containers, RowContainers
\* Nobody else switches the row of a request that does not cross.
<1>x. ASSUME Switching(r), t \notin crossed, NEW q \in Requests, q # r, Switching(q)
      PROVE  req[q].tenant # t
  BY <1>0, <1>x DEF Powered, CrossingSeen, Crossing
\* The request moves on and the rest stays.
<1>a. ASSUME UNCHANGED <<status, lxcId, ctState>>, Switching(r)' <=> Switching(r),
             ~req'[r].cancelled, Switching(r) => req'[r].tenant = t /\ req'[r].op = req[r].op
      PROVE  Powered'
  <2>1. Uncancelled' /\ \A v \in VMIDs : OwnerTouches(v)
    BY <1>0, <1>a DEF Powered, Uncancelled, OwnerTouches
  <2>2. Live' = Live
    BY <1>a DEF Live
  <2>3. \A q \in Requests : /\ Switching(q)' <=> Switching(q)
                            /\ Switching(q) => req'[q].tenant = req[q].tenant /\ req'[q].op = req[q].op
    BY <1>0, <1>a, <1>u
  <2> QED
    BY <1>0, <1>a, <2>1, <2>2, <2>3, PoweredFrame
<1>2. CASE ToggleStatus(r)
  <2>0. UNCHANGED ctState /\ ~Switching(r)
    BY <1>2 DEF ToggleStatus, Switching
  <2>1. CASE Forward(r) /\ ReqGoto(r, "power")
    <3>1. /\ status[t] = Before(r) /\ status'[t] = After(r) /\ lxcId' = lxcId
          /\ \A u \in Tenants : u # t => status'[u] = status[u]
      BY <1>0, <2>1 DEF Forward, SetSuspended, SetResumed, CAS, Before, After
    <3>2. /\ req'[r].pc = "power" /\ req'[r].tenant = t /\ req'[r].op = req[r].op
          /\ ~req'[r].cancelled
      BY <1>0, <2>1, ReqGotoFacts DEF ReqPCs
    <3>3. Switching(r)' /\ After(r)' = After(r) /\ Before(r)' = Before(r)
      BY <3>2 DEF Switching, After, Before
    <3>l. Live' = Live
      BY <1>0, <3>1 DEF Live, Before, After
    \* Whoever switches the same row crosses the request from now on.
    <3>x. ASSUME t \notin crossed', NEW q \in Requests, q # r, Switching(q)
          PROVE  req[q].tenant # t
      <4>1. t \notin Crossing'
        BY <3>x DEF ObserveCrossing
      <4> QED
        BY <1>0, <1>u, <3>2, <3>3, <3>x, <4>1 DEF Crossing
    <3>4. Uncancelled' /\ JobsStarted'
      BY <1>0, <1>c, <2>0, <3>2 DEF Uncancelled, JobsStarted, Powered
    <3>s. RowsSwitched'
      <4> SUFFICES ASSUME NEW q \in Requests, Switching(q)', req'[q].tenant \in Live' \ crossed'
                   PROVE  status'[req'[q].tenant] = After(q)'
        BY DEF RowsSwitched
      <4>1. CASE q = r
        BY <3>1, <3>2, <3>3, <4>1
      <4>2. CASE q # r
        <5>1. Switching(q) /\ req[q].tenant \in Live \ crossed /\ req[q].tenant \in Tenants
          BY <1>c, <1>u, <3>l, <4>2 DEF Live
        <5>2. req[q].tenant # t
          BY <1>u, <3>x, <4>2, <5>1
        <5> QED
          BY <1>u, <3>1, <4>2, <5>1, <5>2 DEF Powered, RowsSwitched
      <4> QED
        BY <4>1, <4>2
    <3>5. RowsPowered'
      <4> SUFFICES ASSUME NEW u \in Live' \ (cut \cup crossed')
                   PROVE  \/ /\ \A q \in Requests : Switching(q)' => req'[q].tenant # u
                             /\ ctState[lxcId[u]] = PowerOf(status'[u])
                          \/ \E q \in Requests : /\ Switching(q)' /\ req'[q].tenant = u
                                                 /\ ctState[lxcId[u]] = PowerOf(Before(q)')
        BY <2>0, <3>1 DEF RowsPowered, PowerOf
      <4>1. u \in Live \ (cut \cup crossed) /\ u \in Tenants
        BY <1>c, <3>l DEF Live
      <4>2. \/ /\ \A q \in Requests : Switching(q) => req[q].tenant # u
               /\ ctState[lxcId[u]] = PowerOf(status[u])
            \/ \E q \in Requests : /\ Switching(q) /\ req[q].tenant = u
                                   /\ ctState[lxcId[u]] = PowerOf(Before(q))
        BY <4>1 DEF Powered, RowsPowered
      <4>3. CASE u = t
        <5>1. \A q \in Requests : Switching(q) => req[q].tenant # u
          BY <2>0, <3>x, <4>3
        <5>2. ctState[lxcId[u]] = PowerOf(Before(r)')
          BY <3>1, <3>3, <4>2, <4>3, <5>1
        <5> QED
          BY <3>2, <3>3, <4>3, <5>2
      <4>4. CASE u # t
        <5>1. status'[u] = status[u]
          BY <3>1, <4>1, <4>4
        <5>2. CASE /\ \A q \in Requests : Switching(q) => req[q].tenant # u
                   /\ ctState[lxcId[u]] = PowerOf(status[u])
          BY <1>u, <3>2, <4>4, <5>1, <5>2
        <5>3. ASSUME NEW q \in Requests, Switching(q), req[q].tenant = u, ctState[lxcId[u]] = PowerOf(Before(q))
              PROVE  Switching(q)' /\ req'[q].tenant = u /\ ctState[lxcId[u]] = PowerOf(Before(q)')
          BY <1>u, <2>0, <5>3
        <5> QED
          BY <4>2, <5>2, <5>3
      <4> QED
        BY <4>3, <4>4
    <3> QED
      BY <1>c, <3>4, <3>s, <3>5 DEF Powered
  <2>2. CASE Respond(r) /\ UNCHANGED rowVars
    BY <1>0, <1>a, <2>0, <2>2, RespondFacts DEF Idle, Switching
  <2> QED
    BY <1>2, <2>1, <2>2 DEF ToggleStatus
\* The request ends: what is left to show of its tenant and of the others.
<1>e. ASSUME req'[r] = Idle, UNCHANGED lxcId,
             \A u \in Tenants : u # t => status'[u] = status[u],
             \A u \in Tenants \ crossed : u # t \/ job[u].pc = "activate" =>
                /\ job[u].pc = "activate" => ctState'[job[u].vmid] = ctState[job[u].vmid]
                /\ u # t /\ u \in Live => ctState'[lxcId[u]] = ctState[lxcId[u]],
             t \in Live' => t \in Live,
             Switching(r),
             t \in Live' \ (cut \cup crossed) => ctState'[lxcId[t]] = PowerOf(status'[t])
      PROVE  Powered'
  <2>1. ~Switching(r)' /\ Uncancelled'
    BY <1>0, <1>e DEF Idle, Switching, Uncancelled, Powered
  <2>2. JobsStarted'
    BY <1>0, <1>c, <1>e DEF Powered, JobsStarted
  <2>3. \A u \in Tenants : u \in Live' => u \in Live
    BY <1>e DEF Live
  <2>4. RowsSwitched'
    <3> SUFFICES ASSUME NEW q \in Requests, Switching(q)', req'[q].tenant \in Live' \ crossed'
                 PROVE  status'[req'[q].tenant] = After(q)'
      BY DEF RowsSwitched
    <3>1. q # r /\ Switching(q) /\ req[q].tenant \in Live \ crossed /\ req[q].tenant \in Tenants
      BY <1>c, <1>u, <2>1, <2>3 DEF Live
    <3>2. req[q].tenant # t
      BY <1>e, <1>x, <3>1
    <3> QED
      BY <1>e, <1>u, <3>1, <3>2 DEF Powered, RowsSwitched
  <2>5. RowsPowered'
    <3> SUFFICES ASSUME NEW u \in Live' \ (cut \cup crossed')
                 PROVE  \/ /\ \A q \in Requests : Switching(q)' => req'[q].tenant # u
                           /\ ctState'[lxcId[u]] = PowerOf(status'[u])
                        \/ \E q \in Requests : /\ Switching(q)' /\ req'[q].tenant = u
                                               /\ ctState'[lxcId[u]] = PowerOf(Before(q)')
      BY <1>e DEF RowsPowered, PowerOf
    <3>1. u \in Live \ (cut \cup crossed) /\ u \in Tenants
      BY <1>c, <2>3 DEF Live
    <3>2. CASE u = t
      <4>1. \A q \in Requests : Switching(q)' => req'[q].tenant # u
        BY <1>e, <1>u, <1>x, <2>1, <3>1, <3>2
      <4> QED
        BY <1>e, <3>1, <3>2, <4>1
    <3>3. CASE u # t
      <4>1. status'[u] = status[u] /\ ctState'[lxcId[u]] = ctState[lxcId[u]]
        BY <1>e, <3>1, <3>3
      <4>2. \/ /\ \A q \in Requests : Switching(q) => req[q].tenant # u
               /\ ctState[lxcId[u]] = PowerOf(status[u])
            \/ \E q \in Requests : /\ Switching(q) /\ req[q].tenant = u
                                   /\ ctState[lxcId[u]] = PowerOf(Before(q))
        BY <3>1 DEF Powered, RowsPowered
      <4>3. CASE /\ \A q \in Requests : Switching(q) => req[q].tenant # u
                 /\ ctState[lxcId[u]] = PowerOf(status[u])
        BY <1>u, <2>1, <4>1, <4>3
      <4>4. ASSUME NEW q \in Requests, Switching(q), req[q].tenant = u, ctState[lxcId[u]] = PowerOf(Before(q))
            PROVE  Switching(q)' /\ req'[q].tenant = u /\ ctState'[lxcId[u]] = PowerOf(Before(q)')
        BY <1>u, <3>3, <4>1, <4>4
      <4> QED
        BY <4>2, <4>3, <4>4
    <3> QED
      BY <3>2, <3>3
  <2> QED
    BY <1>c, <2>1, <2>2, <2>4, <2>5 DEF Powered
<1>3. CASE TogglePower(r)
  <2>0. UNCHANGED <<status, lxcId>> /\ Switching(r) /\ (t \in Live \ crossed => status[t] = After(r))
    BY <1>0, <1>3 DEF TogglePower, Switching, Powered, RowsSwitched
  <2>1. CASE PowerCall(r) /\ Respond(r)
    <3>1. /\ lxcId[t] \in VMIDs => ctState'[lxcId[t]] = PowerOf(After(r))
          /\ \A v \in VMIDs : v # lxcId[t] => ctState'[v] = ctState[v]
      BY <1>0, <2>0, <2>1 DEF PowerCall, StopContainer, StartContainer, PowerOf, After
    <3>2. req'[r] = Idle
      BY <1>0, <2>1, RespondFacts
    \* The container is the tenant's own, or its present owner is crossed.
    <3>3. ASSUME NEW u \in Tenants \ crossed, lxcId[t] \in VMIDs, ctOwner[lxcId[t]] = u PROVE u = t
      BY <1>0, <2>0, <3>3 DEF Powered, CrossingSeen, Crossing
    <3>4. ASSUME NEW u \in Tenants \ crossed, job[u].pc = "activate"
          PROVE  ctState'[job[u].vmid] = ctState[job[u].vmid]
      <4>1. job[u].vmid \in VMIDs /\ ctOwner[job[u].vmid] = u /\ status[u] = "provisioning"
        BY <3>4 DEF Owned, JobRows, PreActive, Containers, JobContainers, HasContainer
      <4>2. u # t
        BY <1>0, <2>0, <4>1 DEF Switching, Owned, ReqRows, Creating
      <4> QED
        BY <3>1, <3>3, <4>1, <4>2
    <3>5. ASSUME NEW u \in Tenants \ crossed, u # t, u \in Live
          PROVE  ctState'[lxcId[u]] = ctState[lxcId[u]]
      BY <1>1, <3>1, <3>3, <3>5
    <3>6. t \in Live \ (cut \cup crossed) => ctState'[lxcId[t]] = PowerOf(status[t])
      BY <1>1, <2>0, <3>1
    <3>7. Live' = Live
      BY <2>0 DEF Live
    <3> QED
      BY <1>e, <2>0, <3>2, <3>4, <3>5, <3>6, <3>7
  <2>2. CASE ReqGoto(r, "rollback") /\ UNCHANGED ctVars
    BY <1>0, <1>a, <2>0, <2>2, ReqGotoFacts DEF ReqPCs, Switching
  <2> QED
    BY <1>3, <2>1, <2>2 DEF TogglePower
<1>4. CASE ToggleRollback(r)
  <2>0. UNCHANGED <<lxcId, ctState>> /\ Switching(r) /\ req'[r] = Idle
        /\ (t \in Live \ crossed => status[t] = After(r))
    BY <1>0, <1>4, RespondFacts DEF ToggleRollback, Switching, Powered, RowsSwitched,
           Backward, SetSuspended, SetResumed
  <2>1. \/ Backward(r)
        \/ status' = status /\ status[t] # After(r)
    BY <1>0, <1>4 DEF ToggleRollback
  <2>2. CASE Backward(r)
    <3>1. /\ status[t] = After(r) /\ status'[t] = Before(r)
          /\ \A u \in Tenants : u # t => status'[u] = status[u]
      BY <1>0, <2>2 DEF Backward, SetSuspended, SetResumed, CAS, Before, After
    <3>2. t \in Live
      BY <1>0, <3>1 DEF Live, After
    <3>3. t \notin (cut \cup crossed) => ctState[lxcId[t]] = PowerOf(Before(r))
      <4> SUFFICES ASSUME t \notin (cut \cup crossed) PROVE ctState[lxcId[t]] = PowerOf(Before(r))
        OBVIOUS
      <4>1. PICK q \in Requests : Switching(q) /\ req[q].tenant = t /\ ctState[lxcId[t]] = PowerOf(Before(q))
        BY <2>0, <3>2 DEF Powered, RowsPowered
      <4>2. q = r
        BY <1>x, <2>0, <4>1
      <4> QED
        BY <4>1, <4>2
    <3> QED
      BY <1>e, <2>0, <3>1, <3>2, <3>3
  \* The row was taken by a delete, or the request crossed another.
  <2>3. CASE status' = status /\ status[t] # After(r)
    <3>1. t \notin Live \ crossed /\ Live' = Live
      BY <2>0, <2>3 DEF Live
    <3> QED
      BY <1>e, <2>0, <2>3, <3>1
  <2> QED
    BY <2>1, <2>2, <2>3
<1> QED
  BY <1>2, <1>3, <1>4

(* A request's step leaves the other requests as they are.                 *)
LEMMA OthersStay ==
    ASSUME TInv, NEW r \in Requests, Arrive(r) \/ RequestStep(r) \/ Cancel(r)
    PROVE  \A q \in Requests : q # r => req'[q] = req[q]
<1>1. CASE Arrive(r)
  <2> PICK u \in Tenants : CreateReserve(r, u) \/ DeleteBegin(r, u) \/ SuspendBegin(r, u) \/ ResumeBegin(r, u)
    BY <1>1 DEF Arrive
  <2> QED
    BY EnterFacts DEF CreateReserve, DeleteBegin, SuspendBegin, ResumeBegin, ReqPCs
<1>2. CASE RequestStep(r)
  BY <1>2, ReqGotoFacts, RespondFacts
     DEF RequestStep, CreateInsert, CreateUnreserve, DeleteSetDeleting, DeleteStop, DeleteDestroy, DeleteSetError,
         DeleteReleaseRAM, DeleteRemoveRoute, DeleteSetDeleted, ToggleStatus, TogglePower, ToggleRollback, ReqPCs
<1>3. CASE Cancel(r)
  BY <1>3 DEF Cancel, TInv, TypeOK
<1> QED
  BY <1>1, <1>2, <1>3

(* The other requests switch no live row and touch no container of one.    *)
LEMMA RequestPowered ==
    ASSUME "late" \notin Faults, "db" \notin Faults, "ctx" \notin Faults,
           Owned, Containers, Powered, cut' = cut, ObserveCrossing,
           NEW r \in Requests,
           Arrive(r) \/ RequestStep(r) \/ Cancel(r)
    PROVE  Powered'
<1> USE DEF rowVars, ctVars, jobVars, ReqAt
<1>0. /\ TInv /\ ~req[r].cancelled /\ (req[r].pc # "idle" => req[r].tenant \in Tenants)
      /\ status \in [Tenants -> Statuses] /\ ctState \in [VMIDs -> {"absent", "stopped", "running"}]
  BY ReqFields DEF Owned, Powered, Uncancelled, TInv, TypeOK
<1>o. \A q \in Requests : q # r => req'[q] = req[q] /\ (Switching(q)' <=> Switching(q))
  <2>1. \A q \in Requests : q # r => req'[q] = req[q]
    BY <1>0, OthersStay
  <2> QED
    BY <2>1 DEF Switching
<1>a. ASSUME UNCHANGED <<lxcId, job>>,
             \A t \in Tenants : t \in Live' => t \in Live /\ status'[t] = status[t],
             \A v \in VMIDs : OwnerTouches(v),
             ~Switching(r), ~Switching(r)', ~req'[r].cancelled
      PROVE  Powered'
  <2>1. Uncancelled'
    BY <1>a, <1>o DEF Powered, Uncancelled
  <2>2. \A q \in Requests : /\ Switching(q)' <=> Switching(q)
                            /\ Switching(q) => req'[q].tenant = req[q].tenant /\ req'[q].op = req[q].op
    BY <1>a, <1>o
  <2> QED
    BY <1>a, <2>1, <2>2, PoweredFrame
<1>b. ASSUME UNCHANGED <<status, lxcId, job, ctState>>, ~Switching(r), ~Switching(r)', ~req'[r].cancelled
      PROVE  Powered'
  <2>1. Live' = Live /\ \A v \in VMIDs : OwnerTouches(v)
    BY <1>b DEF Live, OwnerTouches
  <2> QED
    BY <1>a, <1>b, <2>1
\* The row leaves the live ones.
<1>c. ASSUME NEW t \in Tenants, NEW new \in {"deleting", "error", "deleted"},
             status' = [status EXCEPT ![t] = new], UNCHANGED <<lxcId, job, ctState>>,
             ~Switching(r), ~Switching(r)', ~req'[r].cancelled
      PROVE  Powered'
  <2>1. \A u \in Tenants : u \in Live' => u \in Live /\ status'[u] = status[u]
    BY <1>0, <1>c DEF Live
  <2>2. \A v \in VMIDs : OwnerTouches(v)
    BY <1>c DEF OwnerTouches
  <2> QED
    BY <1>a, <1>c, <2>1, <2>2
<1>d. ASSUME Respond(r) PROVE ~Switching(r)' /\ ~req'[r].cancelled
  BY <1>0, <1>d, RespondFacts DEF Switching, Idle
<1>e. ASSUME NEW pc \in ReqPCs, pc \notin {"power", "rollback"}, ReqGoto(r, pc)
      PROVE  ~Switching(r)' /\ ~req'[r].cancelled
  BY <1>0, <1>e, ReqGotoFacts DEF Switching
<1> DEFINE t == req[r].tenant
<1>1. CASE Arrive(r)
  <2> PICK u \in Tenants : CreateReserve(r, u) \/ DeleteBegin(r, u) \/ SuspendBegin(r, u) \/ ResumeBegin(r, u)
    BY <1>1 DEF Arrive
  <2>1. CASE CreateReserve(r, u)
    BY <2>1, <1>0, <1>b, EnterFacts DEF CreateReserve, ReqPCs, Switching
  <2>2. CASE DeleteBegin(r, u)
    BY <2>2, <1>0, <1>b, EnterFacts DEF DeleteBegin, ReqPCs, Switching
  <2>3. CASE SuspendBegin(r, u)
    BY <2>3, <1>0, <1>b, EnterFacts DEF SuspendBegin, ReqPCs, Switching
  <2>4. CASE ResumeBegin(r, u)
    BY <2>4, <1>0, <1>b, EnterFacts DEF ResumeBegin, ReqPCs, Switching
  <2> QED
    BY <2>1, <2>2, <2>3, <2>4
<1>2. CASE CreateInsert(r)
  <2>0. t \in Tenants /\ UNCHANGED ctState /\ ~Switching(r)
    BY <1>0, <1>2 DEF CreateInsert, Switching
  <2>1. CASE InsertRow(t) /\ Provision(t) /\ Respond(r)
    <3>1. \A u \in Tenants : u \in Live' => u \in Live /\ status'[u] = status[u]
      BY <1>0, <2>0, <2>1 DEF InsertRow, Live
    <3>2. \A u \in Tenants : job'[u].pc = "activate" => job'[u] = job[u]
      BY <1>0, <2>0, <2>1, ProvisionFacts, GotoFacts DEF JobPCs
    <3>3. Uncancelled' /\ (\A v \in VMIDs : OwnerTouches(v)) /\ ~Switching(r)' /\ lxcId' = lxcId
      BY <1>d, <1>o, <2>0, <2>1 DEF Powered, Uncancelled, OwnerTouches, InsertRow
    <3>4. \A q \in Requests : /\ Switching(q)' <=> Switching(q)
                              /\ Switching(q) => req'[q].tenant = req[q].tenant /\ req'[q].op = req[q].op
      BY <1>o, <2>0, <3>3
    <3> QED
      BY <3>1, <3>2, <3>3, <3>4, PoweredFrame
  <2>2. CASE ReqGoto(r, "unreserve") /\ UNCHANGED <<jobVars, rowVars>>
    BY <1>b, <1>e, <2>0, <2>2 DEF ReqPCs
  <2> QED
    BY <1>2, <2>1, <2>2 DEF CreateInsert
<1>3. CASE CreateUnreserve(r)
  BY <1>3, <1>b, <1>d DEF CreateUnreserve, Switching
<1>4. CASE DeleteSetDeleting(r)
  <2>0. t \in Tenants /\ UNCHANGED <<job, ctState>> /\ ~Switching(r)
    BY <1>0, <1>4 DEF DeleteSetDeleting, Switching
  <2>1. CASE SetDeleting(t) /\ ReqGoto(r, IF req[r].lxc # None THEN "stop" ELSE "release")
    <3>1. ~Switching(r)' /\ ~req'[r].cancelled
      BY <1>e, <2>1 DEF ReqPCs
    <3>2. status' = [status EXCEPT ![t] = "deleting"] /\ UNCHANGED lxcId
      BY <2>1 DEF SetDeleting, CAS
    <3> QED
      BY <1>c, <2>0, <3>1, <3>2
  <2>2. CASE Respond(r) /\ UNCHANGED rowVars
    BY <1>b, <1>d, <2>0, <2>2
  <2> QED
    BY <1>4, <2>1, <2>2 DEF DeleteSetDeleting
\* A delete stops and destroys the container of its own tenant.
<1>5. CASE DeleteStop(r) \/ DeleteDestroy(r)
  <2>0. /\ t \in Tenants /\ UNCHANGED <<status, lxcId, job>> /\ ~Switching(r)
        /\ req[r].pc \in {"stop", "destroy"} /\ ctOwner[req[r].lxc] = t
    <3>1. UNCHANGED <<status, lxcId, job>> /\ req[r].pc \in {"stop", "destroy"}
      BY <1>5 DEF DeleteStop, DeleteDestroy
    <3> QED
      BY <1>0, <3>1 DEF Switching, Containers, ReqContainers
  <2>1. ~Switching(r)' /\ ~req'[r].cancelled
    BY <1>5, <1>e DEF DeleteStop, DeleteDestroy, ReqPCs
  <2>2. \A v \in VMIDs : v # req[r].lxc => ctState'[v] = ctState[v]
    BY <1>0, <1>5 DEF DeleteStop, DeleteDestroy, StopContainer, DeleteContainer
  <2>3. Live' = Live /\ \A v \in VMIDs : OwnerTouches(v)
    BY <2>0, <2>2 DEF Live, OwnerTouches
  <2> QED
    BY <1>a, <2>0, <2>1, <2>3
<1>6. CASE DeleteSetError(r)
  <2>0. t \in Tenants /\ UNCHANGED <<job, ctState>> /\ ~Switching(r) /\ Respond(r)
    BY <1>0, <1>6 DEF DeleteSetError, Switching
  <2>1. CASE SetError(t)
    <3>1. status' = [status EXCEPT ![t] = "error"] /\ UNCHANGED lxcId
      BY <2>1 DEF SetError, CAS
    <3> QED
      BY <1>c, <1>d, <2>0, <3>1
  <2>2. CASE UNCHANGED rowVars
    BY <1>b, <1>d, <2>0, <2>2
  <2> QED
    BY <1>6, <2>1, <2>2 DEF DeleteSetError
<1>7. CASE DeleteReleaseRAM(r)
  BY <1>7, <1>b, <1>e DEF DeleteReleaseRAM, ReqPCs, Switching
<1>8. CASE DeleteRemoveRoute(r)
  BY <1>8, <1>b, <1>e DEF DeleteRemoveRoute, ReqPCs, Switching
<1>9. CASE DeleteSetDeleted(r)
  <2>0. t \in Tenants /\ UNCHANGED <<job, ctState>> /\ ~Switching(r) /\ Respond(r)
    BY <1>0, <1>9 DEF DeleteSetDeleted, Switching
  <2>1. CASE SetDeleted(t)
    <3>1. status' = [status EXCEPT ![t] = "deleted"] /\ UNCHANGED lxcId
      BY <2>1 DEF SetDeleted, CAS
    <3> QED
      BY <1>c, <1>d, <2>0, <3>1
  <2>2. CASE UNCHANGED rowVars
    BY <1>b, <1>d, <2>0, <2>2
  <2> QED
    BY <1>9, <2>1, <2>2 DEF DeleteSetDeleted
<1>10. CASE ToggleStatus(r) \/ TogglePower(r) \/ ToggleRollback(r)
  BY <1>10, TogglePowered
<1> QED
  BY <1>1, <1>2, <1>3, <1>4, <1>5, <1>6, <1>7, <1>8, <1>9, <1>10 DEF RequestStep, Cancel

(* A restart forgets the requests; the tenants they were about are in cut. *)
LEMMA RestartPowered ==
    ASSUME Powered, RecRestart, ObserveCrossing
    PROVE  Powered'
<1>0. /\ UNCHANGED <<status, lxcId, ctState>> /\ Live' = Live
      /\ (\A t \in Tenants : job'[t] = NoJob) /\ (\A r \in Requests : req'[r] = Idle)
  BY DEF RecRestart, Crash, rowVars, ctVars, Live
<1>c. CrossingSeen' /\ crossed \subseteq crossed'
  BY DEF CrossingSeen, ObserveCrossing
<1>1. Uncancelled' /\ JobsStarted' /\ RowsSwitched' /\ \A r \in Requests : ~Switching(r)'
  BY <1>0 DEF Uncancelled, JobsStarted, RowsSwitched, Switching, NoJob, Idle
<1>2. RowsPowered'
  <2> SUFFICES ASSUME NEW t \in Live \ (cut' \cup crossed') PROVE ctState[lxcId[t]] = PowerOf(status[t])
    BY <1>0, <1>1 DEF RowsPowered, PowerOf
  <2>1. t \in Live \ (cut \cup crossed) /\ \A r \in Requests : req[r].tenant # t
    BY <1>c DEF RecRestart, Quiet, Live
  <2> QED
    BY <2>1 DEF Powered, RowsPowered
<1> QED
  BY <1>c, <1>1, <1>2 DEF Powered

(* Powered is inductive, with any number of requests.                      *)
LEMMA NextPowered ==
    ASSUME "panic" \notin Faults, "late" \notin Faults, "db" \notin Faults, "ctx" \notin Faults
    PROVE  Owned /\ Containers /\ Powered /\ [RecNext]_recVars => Powered'
<1> SUFFICES ASSUME Owned, Containers, Powered, [RecNext]_recVars PROVE Powered'
  OBVIOUS
<1>1. CASE (\E t \in Tenants : JobStep(t) \/ Expire(t) \/ Panic(t)) /\ cut' = cut /\ ObserveCrossing
  BY <1>1, JobPowered
<1>2. CASE (\E r \in Requests : Arrive(r) \/ RequestStep(r) \/ Cancel(r)) /\ cut' = cut /\ ObserveCrossing
  BY <1>2, RequestPowered
<1>3. CASE UNCHANGED <<status, lxcId, ctState, job, req, cut>> /\ (ObserveCrossing \/ UNCHANGED <<crossed, ctOwner>>)
  <2>1. CrossingSeen' /\ crossed \subseteq crossed'
    BY <1>3 DEF ObserveCrossing, Powered, CrossingSeen, Crossing, Switching
  <2> QED
    BY <1>3, <2>1 DEF Powered, Uncancelled, JobsStarted, RowsSwitched, RowsPowered, Switching,
              PowerOf, Before, After, Live
<1>4. CASE RecRestart /\ ObserveCrossing
  BY <1>4, RestartPowered
<1> QED
  BY <1>1, <1>2, <1>3, <1>4
     DEF RecNext, Work, AtRest, UpdateNode, vars, recVars, rowVars, ctVars, jobVars

(* Container ownership survives the reconciler too.                        *)
LEMMA NextRecContainers ==
    ASSUME "panic" \notin Faults, "late" \notin Faults
    PROVE  RecTInv /\ Owned /\ Containers /\ [RecNext]_recVars => Containers'
<1> SUFFICES ASSUME RecTInv, Owned, Containers, [RecNext]_recVars PROVE Containers'
  OBVIOUS
<1>1. CASE [Next]_vars
  BY <1>1, NextContainers
<1>2. CASE Reconcile /\ UNCHANGED <<rowVars, totalRam, ramVars, ctVars, jobVars, req, cut>>
  <2>1. RecTInv'
    BY NextRecTInv
  <2>2. TInv /\ route' \in [Subdomains -> IPs \cup {None}]
    BY <2>1 DEF RecTInv, TInv, TypeOK
  <2> QED
    BY <1>2, <2>2, RouteOnly
<1> QED
  BY <1>1, <1>2 DEF RecNext, RecRestart, Next, recVars

(* However many requests and jobs are at work, a tenant that nothing is in *)
(* flight for runs if it is active and is stopped if it is suspended,      *)
(* through failed container calls and their rollbacks, deletes and reused  *)
(* ids, and past every restart that did not cut a request of its own       *)
(* short, unless its requests crossed.  Excluded are failing SQL,          *)
(* contexts that end early and tasks that take effect although they are    *)
(* reported as failed, since each of them can keep a rollback from undoing *)
(* what was done, and panics, which Owned excludes.                        *)
THEOREM RowMatchesContainerCorrect ==
    ASSUME "panic" \notin Faults, "late" \notin Faults, "db" \notin Faults, "ctx" \notin Faults
    PROVE  RecSpec => []RowMatchesContainer
<1>1. RecInit => Owned /\ Containers /\ Powered
  <2> SUFFICES ASSUME RecInit PROVE Powered
    BY InitOwned, InitContainers DEF RecInit
  <2> USE DEF RecInit, Init, StoresInit, ProvisionerInit, RequestsInit, NoJob, Idle
  <2>1. Uncancelled /\ JobsStarted /\ RowsSwitched /\ CrossingSeen
    BY DEF Uncancelled, JobsStarted, RowsSwitched, CrossingSeen, Crossing, Switching
  <2>2. RowsPowered
    BY DEF RowsPowered, Live
  <2> QED
    BY <2>1, <2>2 DEF Powered
<1>2. Powered => RowMatchesContainer
  BY DEF Powered, RowsPowered, RowMatchesContainer, Quiet, PowerOf
<1> QED
  BY <1>1, <1>2, RecTInvCorrect, NextRecOwned, NextRecContainers, NextPowered, PTL DEF RecSpec
=============================================================================
