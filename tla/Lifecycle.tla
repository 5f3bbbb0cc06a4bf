------------------------------ MODULE Lifecycle ------------------------------
(***************************************************************************)
(* The tenant life cycle as a whole: provision goroutines and HTTP         *)
(* requests interleaving on one node's rows, RAM counter, containers and   *)
(* routes, with the failures of Faults, and the properties that make it    *)
(* correct.                                                                *)
(***************************************************************************)
EXTENDS TenantRequests

vars == <<status, lxcId, lxcIp, totalRam, allocatedRam, ctState, ctOwner, route,
          ledger, overReleased, job, sem, req>>

Init == StoresInit /\ ProvisionerInit /\ RequestsInit

\* The process dies and comes back.  Goroutines and requests are gone, the
\* database, Proxmox and Caddy keep what they have, and nothing at startup
\* looks for rows left in a transitional status.
Crash ==
    /\ "crash" \in Faults
    /\ job' = [t \in Tenants |-> NoJob]
    /\ sem' = 0
    /\ req' = [r \in Requests |-> Idle]
    /\ UNCHANGED <<rowVars, totalRam, ramVars, ctVars, route>>

\* Nobody is doing anything.  Lets TLC tell a system at rest from one in which
\* a job or a request can never go on.
AtRest ==
    /\ \A t \in Tenants : At(t, "none")
    /\ \A r \in Requests : ReqAt(r, "idle")
    /\ UNCHANGED vars

\* What happens while the process lives.
Work ==
    \/ \E t \in Tenants : JobStep(t) \/ Expire(t) \/ Panic(t)
    \/ \E r \in Requests : Arrive(r) \/ RequestStep(r) \/ Cancel(r)
    \/ \E mb \in Capacities : UpdateNode(mb)
    \/ AtRest

Next == Work \/ Crash

Spec == Init /\ [][Next]_vars

\* The Go scheduler runs every goroutine that can run, and every HTTP client
\* and Proxmox wait has a timeout, so a step that stays possible is taken.
\* Clients, operators, timeouts and failures owe nothing.
FairSpec == /\ Spec
            /\ \A t \in Tenants : WF_vars(JobStep(t))
            /\ \A r \in Requests : WF_vars(RequestStep(r))

-----------------------------------------------------------------------------
(* The variables have their types. *)
TypeOK ==
    /\ status \in [Tenants -> Statuses]
    /\ lxcId \in [Tenants -> VMIDs \cup {None}]
    /\ lxcIp \in [Tenants -> IPs \cup {None}]
    /\ totalRam \in Capacities
    /\ allocatedRam \in Nat
    /\ ctState \in [VMIDs -> {"absent", "stopped", "running"}]
    /\ ctOwner \in [VMIDs -> Tenants \cup {None}]
    /\ route \in [Subdomains -> IPs \cup {None}]
    /\ ledger \subseteq Tenants
    /\ overReleased \subseteq Tenants
    /\ job \in [Tenants -> JobType]
    /\ sem \in Nat
    /\ req \in [Requests -> ReqType]

\* Points of a delete after its SetDeleting has succeeded.
DeleteOwns == {"stop", "destroy", "setError", "release", "removeRoute", "setDeleted"}

Deleting(r, t) == req[r].pc \in DeleteOwns /\ req[r].tenant = t

(* SetDeleting is "a compare-and-swap to prevent concurrent delete requests *)
(* from double-deprovisioning": a tenant is torn down by at most one request*)
(* at a time, and while one is at it the row stays in 'deleting'.           *)
UniqueDeleter ==
    \A r \in Requests, t \in Tenants : Deleting(r, t) =>
        /\ status[t] = "deleting"
        /\ \A q \in Requests : Deleting(q, t) => q = r

(* Deprovision "releases the RAM itself, so the service must not release it *)
(* a second time": over all retries of all requests, the reservation of a   *)
(* tenant that ever got a container is given back at most once.             *)
ContainerRamReleasedOnce ==
    \A t \in overReleased : lxcId[t] = None

Live == {t \in Tenants : status[t] \in {"active", "suspended"}}

(* The counter the scheduler places tenants by covers every live tenant,   *)
(* unless the RAM of a failed create was given back twice.                 *)
LiveAccountedUnlessOverReleased ==
    overReleased = {} => RamMB * Cardinality(Live) <= allocatedRam

(* ReserveRAM, ReleaseRAM and the guarded UpdateNode keep the counter       *)
(* within the node's total whatever the order they run in.                  *)
WithinCapacity == allocatedRam <= totalRam

(* A tenant the API calls active or suspended has its container, and that   *)
(* container is its own, however other tenants reuse ids meanwhile.         *)
LiveHasOwnContainer ==
    \A t \in Live : lxcId[t] # None /\ ctOwner[lxcId[t]] = t

\* Jobs that occupy a slot of the semaphore.
Slots == {t \in Tenants : job[t].slot}

(* The semaphore bounds the jobs that talk to Proxmox, and no slot is lost  *)
(* or freed twice on the return and panic paths.                            *)
SlotsAccounted ==
    /\ sem = Cardinality(Slots)
    /\ sem <= MaxConcurrentJobs

\* Nothing is in flight for a tenant.
Quiet(t) == At(t, "none") /\ \A r \in Requests : req[r].tenant # t

(* GetNextAvailableIP holds "the advisory lock that keeps concurrent        *)
(* provisioners from picking the same one": no two rows that still count    *)
(* hold the same address.  The code does not keep it: the lock ends before  *)
(* the address is stored.                                                   *)
DistinctIPs ==
    \A t, u \in Tenants :
        (t # u /\ lxcIp[t] = lxcIp[u] /\ "deleted" \notin {status[t], status[u]})
            => lxcIp[t] = None

(* The counter covers every live tenant, with no exception: what "atomic    *)
(* RAM reservation" is for.                                                 *)
LiveAccounted == RamMB * Cardinality(Live) <= allocatedRam

-----------------------------------------------------------------------------
TS == INSTANCE TenantStatus

(* All jobs and requests together move a status only along the edges of     *)
(* TenantStatus: the SQL-level compare-and-swap at work.                    *)
StatusMachine == TS!Spec

(* ... and a transitional status does not last: whatever Proxmox answers,   *)
(* provisioning ends in active or error and a delete in deleted or error.   *)
StatusSettles == TS!FairSpec
=============================================================================
