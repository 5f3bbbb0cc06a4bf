----------------------------- MODULE Provisioner -----------------------------
(***************************************************************************)
(* provisioner.Provision: one goroutine per created tenant.  It waits for  *)
(* a slot of the semaphore, then runs doProvision under a context that     *)
(* expires after provisionTimeout.  Each pc below is one point of          *)
(* doProvision (or of cleanupAndError / setError) at which others may run. *)
(***************************************************************************)
EXTENDS Stores

JobPCs == {"none", "queued", "lookup", "clone", "network", "configure", "start",
           "activate", "addRoute", "health", "cleanup", "setError", "release"}

NoJob == [pc |-> "none", vmid |-> None, ip |-> None, expired |-> FALSE, slot |-> FALSE]

JobType == [pc : JobPCs, vmid : VMIDs \cup {None}, ip : IPs \cup {None},
            expired : BOOLEAN, slot : BOOLEAN]

ProvisionerInit == job = [t \in Tenants |-> NoJob] /\ sem = 0

\* A call made with the job's context fails once the context has expired, and
\* whenever the kind of failure it is exposed to happens.
Alive(t) == ~job[t].expired
MayFail(t, kind) == job[t].expired \/ kind \in Faults

At(t, pc) == job[t].pc = pc
Goto(t, pc) == job' = [job EXCEPT ![t].pc = pc] /\ UNCHANGED sem

\* The goroutine returns; the deferred receive frees its slot if it holds one.
JobReturn(t) == /\ job' = [job EXCEPT ![t] = NoJob]
                /\ sem' = IF job[t].slot THEN sem - 1 ELSE sem

\* Provision: start the goroutine.
Provision(t) == job' = [job EXCEPT ![t].pc = "queued"] /\ UNCHANGED sem

\* Acquire a slot of the semaphore; the context starts here.
AcquireSlot(t) ==
    /\ At(t, "queued")
    /\ sem < MaxConcurrentJobs
    /\ sem' = sem + 1
    /\ job' = [job EXCEPT ![t] = [@ EXCEPT !.pc = "lookup", !.slot = TRUE]]
    /\ UNCHANGED <<rowVars, totalRam, ramVars, ctVars, route, req>>

\* Read the project and the node, get a client, ask Proxmox for a free id.
\* The id is not reserved: another clone can take it first.
LookupAndGetNextID(t) ==
    /\ At(t, "lookup")
    /\ \/ /\ Alive(t)
          /\ \E v \in FreeVMIDs :
                job' = [job EXCEPT ![t] = [@ EXCEPT !.pc = "clone", !.vmid = v]]
          /\ UNCHANGED sem
       \/ /\ MayFail(t, "provision") \/ FreeVMIDs = {}
          /\ Goto(t, "setError")
    /\ UNCHANGED <<rowVars, totalRam, ramVars, ctVars, route, req>>

\* Mutant: a failed clone is cleaned up, although the id may be another tenant's.
Clone_CleanUp(t) ==
    /\ At(t, "clone")
    /\ \/ /\ Alive(t)
          /\ CloneContainer(job[t].vmid, t)
          /\ Goto(t, "network")
       \/ /\ MayFail(t, "provision") \/ job[t].vmid \notin FreeVMIDs
          /\ Goto(t, "cleanup")
          /\ UNCHANGED ctVars
    /\ UNCHANGED <<rowVars, totalRam, ramVars, route, req>>

\* Clone and wait.  A failure goes to setError without removing anything.
Clone(t) ==
    /\ At(t, "clone")
    /\ \/ /\ Alive(t)
          /\ CloneContainer(job[t].vmid, t)
          /\ Goto(t, "network")
       \/ /\ "late" \in Faults
          /\ Alive(t)
          /\ CloneContainer(job[t].vmid, t)
          /\ Goto(t, "setError")
       \/ /\ MayFail(t, "provision") \/ job[t].vmid \notin FreeVMIDs
          /\ Goto(t, "setError")
          /\ UNCHANGED ctVars
    /\ UNCHANGED <<rowVars, totalRam, ramVars, route, req>>

\* GetNextAvailableIP, skipped when the project has no CIDR.
AllocateIP(t) ==
    /\ At(t, "network")
    /\ \/ IPs = {} /\ Goto(t, "start")
       \/ /\ Alive(t)
          /\ \E ip \in AvailableIPs :
                job' = [job EXCEPT ![t] = [@ EXCEPT !.pc = "configure", !.ip = ip]]
          /\ UNCHANGED sem
       \/ /\ IPs # {}
          /\ MayFail(t, "db") \/ AvailableIPs = {}
          /\ Goto(t, "cleanup")
    /\ UNCHANGED <<rowVars, totalRam, ramVars, ctVars, route, req>>

\* ConfigureNetwork, then SetLXCIP, whose failure is only logged.
ConfigureNetwork(t) ==
    /\ At(t, "configure")
    /\ \/ /\ Alive(t)
          /\ SetLXCIP(t, job[t].ip)
          /\ Goto(t, "start")
       \/ /\ Alive(t)
          /\ MayFail(t, "db")
          /\ Goto(t, "start")
          /\ UNCHANGED rowVars
       \/ /\ MayFail(t, "provision")
          /\ Goto(t, "cleanup")
          /\ UNCHANGED rowVars
    /\ UNCHANGED <<totalRam, ramVars, ctVars, route, req>>

\* Mount points, StartContainer and the wait for it.
MountAndStart(t) ==
    /\ At(t, "start")
    /\ \/ /\ Alive(t)
          /\ StartContainer(job[t].vmid)
          /\ Goto(t, "activate")
       \/ /\ "late" \in Faults
          /\ Alive(t)
          /\ StartContainer(job[t].vmid)
          /\ Goto(t, "cleanup")
       \/ /\ MayFail(t, "provision") \/ ctState[job[t].vmid] # "stopped"
          /\ Goto(t, "cleanup")
          /\ UNCHANGED ctVars
    /\ UNCHANGED <<rowVars, totalRam, ramVars, route, req>>

\* Dashboard token (best effort), then SetActive.
Activate(t) ==
    /\ At(t, "activate")
    /\ \/ /\ Alive(t)
          /\ SetActive(t, job[t].vmid)
          /\ Goto(t, "addRoute")
       \/ /\ MayFail(t, "db") \/ status[t] # "provisioning"
          /\ Goto(t, "cleanup")
          /\ UNCHANGED rowVars
    /\ UNCHANGED <<totalRam, ramVars, ctVars, route, req>>

\* Mutant: a failed deploy goes to setError although the tenant is active.
DeployAndAddRoute_DeployFails(t) ==
    /\ At(t, "addRoute")
    /\ \/ Goto(t, "health")
       \/ MayFail(t, "provision") /\ Goto(t, "setError")
    /\ UNCHANGED <<rowVars, totalRam, ramVars, ctVars, route, req>>

\* The best-effort tail: deploy, station record, Caddy route.
DeployAndAddRoute(t) ==
    LET s == Subdomain[t] ip == job[t].ip IN
    /\ At(t, "addRoute")
    /\ \/ Alive(t) /\ ip # None /\ AddRoute(s, ip)
       \/ /\ ip = None \/ MayFail(t, "caddy") \/ route[s] # None
          /\ UNCHANGED route
    /\ Goto(t, "health")
    /\ UNCHANGED <<rowVars, totalRam, ramVars, ctVars, req>>

\* The health check, which holds the slot while it polls, and the return.
CheckHealth(t) ==
    /\ At(t, "health")
    /\ JobReturn(t)
    /\ UNCHANGED <<rowVars, totalRam, ramVars, ctVars, route, req>>

\* Mutant: a cleanup that fails skips the status update.
Cleanup_ReturnsEarly(t) ==
    /\ At(t, "cleanup")
    /\ \/ Alive(t) /\ DeleteContainer(job[t].vmid) /\ Goto(t, "setError")
       \/ /\ MayFail(t, "provision") \/ job[t].vmid \in FreeVMIDs
          /\ Goto(t, "release")
          /\ UNCHANGED ctVars
    /\ UNCHANGED <<rowVars, totalRam, ramVars, route, req>>

\* cleanupAndError: try to delete the container; only logged when it fails.
Cleanup(t) ==
    /\ At(t, "cleanup")
    /\ \/ Alive(t) /\ DeleteContainer(job[t].vmid)
       \/ /\ MayFail(t, "provision") \/ job[t].vmid \in FreeVMIDs
          /\ UNCHANGED ctVars
    /\ Goto(t, "setError")
    /\ UNCHANGED <<rowVars, totalRam, ramVars, route, req>>

\* setError, first half: the status; only logged when it fails.
JobSetError(t) ==
    /\ At(t, "setError")
    /\ \/ Alive(t) /\ SetError(t)
       \/ /\ MayFail(t, "db") \/ status[t] \notin {"provisioning", "deleting"}
          /\ UNCHANGED rowVars
    /\ Goto(t, "release")
    /\ UNCHANGED <<totalRam, ramVars, ctVars, route, req>>

\* setError, second half: the RAM, whatever became of the status.
JobReleaseRAM(t) ==
    /\ At(t, "release")
    /\ \/ Alive(t) /\ ReleaseRAM(t)
       \/ MayFail(t, "db") /\ UNCHANGED ramVars
    /\ JobReturn(t)
    /\ UNCHANGED <<rowVars, totalRam, ctVars, route, req>>

\* provisionTimeout elapses.
Expire(t) ==
    /\ "ctx" \in Faults
    /\ job[t].slot /\ Alive(t)
    /\ job' = [job EXCEPT ![t].expired = TRUE]
    /\ UNCHANGED <<sem, rowVars, totalRam, ramVars, ctVars, route, req>>

\* Mutant: the recover runs before the slot is freed, and both free it.
Panic_FreesTwice(t) ==
    /\ "panic" \in Faults
    /\ job[t].slot
    /\ job' = [job EXCEPT ![t] = [@ EXCEPT !.pc = "setError", !.expired = FALSE]]
    /\ sem' = sem - 1
    /\ UNCHANGED <<rowVars, totalRam, ramVars, ctVars, route, req>>

\* A panic: the slot is freed first, then the deferred recover runs setError
\* with a background context, which never expires.
Panic(t) ==
    /\ "panic" \in Faults
    /\ job[t].slot
    /\ job' = [job EXCEPT ![t] = [@ EXCEPT !.pc = "setError", !.slot = FALSE,
                                            !.expired = FALSE]]
    /\ sem' = sem - 1
    /\ UNCHANGED <<rowVars, totalRam, ramVars, ctVars, route, req>>

JobStep(t) ==
    \/ AcquireSlot(t)      \/ LookupAndGetNextID(t) \/ Clone(t)
    \/ AllocateIP(t)       \/ ConfigureNetwork(t)   \/ MountAndStart(t)
    \/ Activate(t)         \/ DeployAndAddRoute(t)  \/ CheckHealth(t)
    \/ Cleanup(t)          \/ JobSetError(t)        \/ JobReleaseRAM(t)
=============================================================================
