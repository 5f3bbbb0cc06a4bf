------------------------------- MODULE Stores -------------------------------
(***************************************************************************)
(* The state the control plane works on, and the single statements and     *)
(* calls it changes that state with: the tenants table, the RAM counter of *)
(* a node, the Proxmox containers and the Caddy routes.                    *)
(*                                                                         *)
(* Every operator here is ONE atomic step of the outside world: one SQL    *)
(* statement, or one Proxmox task, or one Caddy call.  The programs that   *)
(* string them together (Provisioner, TenantRequests) interleave between   *)
(* any two of them.                                                        *)
(***************************************************************************)
EXTENDS Naturals, FiniteSets

CONSTANTS
    Tenants,            \* tenant row ids, each inserted at most once
    Requests,           \* HTTP requests that can be in flight at the same time
    VMIDs,              \* Proxmox container ids
    IPs,                \* host addresses of the project's CIDR; {} when it has none
    Subdomains,         \* names a tenant can be served under
    Subdomain,          \* the subdomain each tenant asks for
    RamMB,              \* RAM of the project's tenants
    Capacities,         \* values an operator gives the node's total RAM
    MaxConcurrentJobs,  \* size of the provisioner's semaphore
    Faults,             \* kinds of failure that may happen, see FaultKinds
    None

(***************************************************************************)
(* "provision"  a Proxmox, SSH or lookup call of a provision job fails     *)
(* "request"    a Proxmox call made for a request fails                    *)
(* "late"       a failed Proxmox task has nevertheless had its effect      *)
(* "db"         a SQL statement fails and changes nothing                  *)
(* "caddy"      a Caddy call fails and changes nothing                     *)
(* "ctx"        the 10 minute context of a job expires, or the context of  *)
(*              a request is cancelled because its client went away        *)
(* "panic"      a provision goroutine panics                               *)
(* "reconcile"  a statement or Caddy call of the route reconciler fails    *)
(* "crash"      the process dies and is started again                      *)
(***************************************************************************)
FaultKinds == {"provision", "request", "late", "db", "caddy", "ctx", "panic",
               "reconcile", "crash"}

ASSUME FiniteAssumption    == IsFiniteSet(Tenants)
ASSUME RamAssumption       == RamMB \in Nat \ {0}
ASSUME CapacityAssumption  == Capacities \subseteq Nat /\ Capacities # {}
ASSUME SemaphoreAssumption == MaxConcurrentJobs \in Nat \ {0}
ASSUME SubdomainAssumption == Subdomain \in [Tenants -> Subdomains]
ASSUME NoneAssumption      == None \notin Tenants \cup VMIDs \cup IPs
ASSUME FaultAssumption     == Faults \subseteq FaultKinds

VARIABLES
    status,         \* tenants.status; "absent" before the row is inserted
    lxcId,          \* tenants.lxc_id
    lxcIp,          \* tenants.lxc_ip
    totalRam,       \* nodes.total_ram_mb
    allocatedRam,   \* nodes.allocated_ram_mb
    ctState,        \* Proxmox: state of the container with a given id
    ctOwner,        \* Proxmox: the tenant a container was cloned for
    route,          \* Caddy: upstream address of each subdomain
    \* History of the reservations, read by no action:
    ledger,         \* tenants whose reservation is part of allocatedRam
    overReleased,   \* tenants whose RAM was released while not in ledger
    \* The programs that work on the state above (Provisioner, TenantRequests):
    job,            \* the provision goroutine of each tenant
    sem,            \* occupied slots of the provisioner's semaphore channel
    req             \* what each request in flight is doing

rowVars == <<status, lxcId, lxcIp>>
ramVars == <<allocatedRam, ledger, overReleased>>
ctVars  == <<ctState, ctOwner>>
jobVars == <<job, sem>>

Statuses == {"absent", "provisioning", "active", "suspended",
             "error", "deleting", "deleted"}

\* The states a delete may start from.
Deletable == {"active", "error", "suspended"}

StoresInit ==
    /\ status = [t \in Tenants |-> "absent"]
    /\ lxcId = [t \in Tenants |-> None]
    /\ lxcIp = [t \in Tenants |-> None]
    /\ totalRam \in Capacities
    /\ allocatedRam = 0
    /\ ctState = [v \in VMIDs |-> "absent"]
    /\ ctOwner = [v \in VMIDs |-> None]
    /\ route = [s \in Subdomains |-> None]
    /\ ledger = {}
    /\ overReleased = {}

-----------------------------------------------------------------------------
(* tenant.Store: every status change is an UPDATE ... WHERE status IN (from);
   zero affected rows is ErrStateConflict, here a disabled operator.        *)

CAS(t, from, to) == /\ status[t] \in from
                    /\ status' = [status EXCEPT ![t] = to]

SetSuspended(t) == CAS(t, {"active"}, "suspended") /\ UNCHANGED <<lxcId, lxcIp>>

SetResumed(t) == CAS(t, {"suspended"}, "active") /\ UNCHANGED <<lxcId, lxcIp>>

SetActive(t, v) == /\ CAS(t, {"provisioning"}, "active")
                   /\ lxcId' = [lxcId EXCEPT ![t] = v]
                   /\ UNCHANGED lxcIp

\* Mutant: UPDATE without the status in its WHERE clause.
SetError_NoCAS(t) == CAS(t, Statuses, "error") /\ UNCHANGED <<lxcId, lxcIp>>

SetError(t) == CAS(t, {"provisioning", "deleting"}, "error") /\ UNCHANGED <<lxcId, lxcIp>>

\* Mutant: a second delete may claim a tenant that is being deleted.
SetDeleting_Reentrant(t) ==
    CAS(t, Deletable \cup {"deleting"}, "deleting") /\ UNCHANGED <<lxcId, lxcIp>>

SetDeleting(t) == CAS(t, Deletable, "deleting") /\ UNCHANGED <<lxcId, lxcIp>>

SetDeleted(t) == CAS(t, {"deleting"}, "deleted") /\ UNCHANGED <<lxcId, lxcIp>>

SetLXCIP(t, ip) == /\ lxcIp' = [lxcIp EXCEPT ![t] = ip]
                   /\ UNCHANGED <<status, lxcId>>

\* The partial unique index on subdomain, which ignores deleted rows.
SubdomainFree(t) == \A u \in Tenants :
    Subdomain[u] = Subdomain[t] => status[u] \in {"absent", "deleted"}

\* INSERT INTO tenants; the status column defaults to 'provisioning'.
InsertRow(t) == /\ status[t] = "absent"
                /\ SubdomainFree(t)
                /\ status' = [status EXCEPT ![t] = "provisioning"]
                /\ UNCHANGED <<lxcId, lxcIp>>

\* Addresses GetNextAvailableIP may return.  The query runs under an advisory
\* lock that ends with its transaction; the row is updated later by SetLXCIP.
AvailableIPs == IPs \ {lxcIp[t] : t \in {u \in Tenants : status[u] # "deleted"}}

-----------------------------------------------------------------------------
(* node.Store.  Reservations are counted, not attributed: the counter is all
   the code keeps.  ledger and overReleased record which tenant each change
   was made for.                                                            *)

ReserveRAM(t) ==
    /\ totalRam - allocatedRam >= RamMB
    /\ allocatedRam' = allocatedRam + RamMB
    /\ ledger' = ledger \cup {t}
    /\ UNCHANGED overReleased

\* Mutant: the counter without GREATEST(..., 0).
ReleaseRAM_NoFloor(t) ==
    /\ allocatedRam' = allocatedRam - RamMB
    /\ ledger' = ledger \ {t}
    /\ overReleased' = IF t \in ledger THEN overReleased ELSE overReleased \cup {t}

ReleaseRAM(t) ==
    /\ allocatedRam' = IF allocatedRam >= RamMB THEN allocatedRam - RamMB ELSE 0
    /\ ledger' = ledger \ {t}
    /\ overReleased' = IF t \in ledger THEN overReleased ELSE overReleased \cup {t}

\* Mutant: the total may be set below what is allocated.
UpdateNode_NoGuard(mb) ==
    /\ mb # totalRam
    /\ totalRam' = mb
    /\ UNCHANGED <<rowVars, ramVars, ctVars, route, jobVars, req>>

\* Update of total_ram_mb, guarded by allocated_ram_mb <= the new value.
UpdateNode(mb) ==
    /\ mb # totalRam
    /\ allocatedRam <= mb
    /\ totalRam' = mb
    /\ UNCHANGED <<rowVars, ramVars, ctVars, route, jobVars, req>>

-----------------------------------------------------------------------------
(* Proxmox (external).  A call and the Wait for its task are one step.  Start
   of a container that is not stopped and stop of one that is not running are
   errors.                                                                  *)

FreeVMIDs == {v \in VMIDs : ctState[v] = "absent"}

CloneContainer(v, t) == /\ ctState[v] = "absent"
                        /\ ctState' = [ctState EXCEPT ![v] = "stopped"]
                        /\ ctOwner' = [ctOwner EXCEPT ![v] = t]

StartContainer(v) == /\ ctState[v] = "stopped"
                     /\ ctState' = [ctState EXCEPT ![v] = "running"]
                     /\ UNCHANGED ctOwner

StopContainer(v) == /\ ctState[v] = "running"
                    /\ ctState' = [ctState EXCEPT ![v] = "stopped"]
                    /\ UNCHANGED ctOwner

DeleteContainer(v) == /\ ctState[v] # "absent"
                      /\ ctState' = [ctState EXCEPT ![v] = "absent"]
                      /\ ctOwner' = [ctOwner EXCEPT ![v] = None]

-----------------------------------------------------------------------------
(* Caddy.  A route is named by its subdomain; adding a second route with the
   name of an existing one is refused.                                      *)

AddRoute(s, ip) == /\ route[s] = None
                   /\ route' = [route EXCEPT ![s] = ip]

RemoveRoute(s) == route' = [route EXCEPT ![s] = None]
=============================================================================
