--------------------------- MODULE TenantRequests ---------------------------
(***************************************************************************)
(* The HTTP requests that change a tenant: create, delete, suspend and     *)
(* resume.  The API, the user and the admin handlers run the same steps.   *)
(* Each request reads the tenant once, decides on that snapshot, and then  *)
(* makes its changes one statement or call at a time with the context of   *)
(* the HTTP request.                                                       *)
(***************************************************************************)
EXTENDS Provisioner

ReqPCs == {"idle", "insert", "unreserve",
           "setDeleting", "stop", "destroy", "setError", "release", "removeRoute", "setDeleted",
           "toggle", "power", "rollback"}

Idle == [pc |-> "idle", op |-> "none", tenant |-> None, lxc |-> None, cancelled |-> FALSE]

ReqType == [pc : ReqPCs, op : {"none", "create", "delete", "suspend", "resume"},
            tenant : Tenants \cup {None}, lxc : VMIDs \cup {None}, cancelled : BOOLEAN]

RequestsInit == req = [r \in Requests |-> Idle]

ReqAlive(r) == ~req[r].cancelled
ReqMayFail(r, kind) == req[r].cancelled \/ kind \in Faults

ReqAt(r, pc) == req[r].pc = pc
ReqGoto(r, pc) == req' = [req EXCEPT ![r].pc = pc]
Respond(r) == req' = [req EXCEPT ![r] = Idle]

\* A request enters with a snapshot of the row's lxc_id.
Enter(r, pc, op, t) ==
    /\ ReqAt(r, "idle")
    /\ req' = [req EXCEPT ![r] = [pc |-> pc, op |-> op, tenant |-> t,
                                  lxc |-> lxcId[t], cancelled |-> FALSE]]

-----------------------------------------------------------------------------
(* LifecycleService.Create *)

\* The row id is fresh: no other create is about to insert it.
CreateReserve(r, t) ==
    /\ status[t] = "absent"
    /\ \A q \in Requests : ~(req[q].op = "create" /\ req[q].tenant = t)
    /\ ReserveRAM(t)
    /\ Enter(r, "insert", "create", t)
    /\ UNCHANGED <<jobVars, rowVars, totalRam, ctVars, route>>

CreateInsert(r) ==
    LET t == req[r].tenant IN
    /\ ReqAt(r, "insert")
    /\ \/ /\ ReqAlive(r)
          /\ InsertRow(t)
          /\ Provision(t)
          /\ Respond(r)
       \/ /\ ReqMayFail(r, "db") \/ ~SubdomainFree(t)
          /\ ReqGoto(r, "unreserve")
          /\ UNCHANGED <<jobVars, rowVars>>
    /\ UNCHANGED <<totalRam, ramVars, ctVars, route>>

CreateUnreserve(r) ==
    /\ ReqAt(r, "unreserve")
    /\ \/ ReqAlive(r) /\ ReleaseRAM(req[r].tenant)
       \/ ReqMayFail(r, "db") /\ UNCHANGED ramVars
    /\ Respond(r)
    /\ UNCHANGED <<jobVars, rowVars, totalRam, ctVars, route>>

-----------------------------------------------------------------------------
(* LifecycleService.Delete and Provisioner.Deprovision *)

DeleteBegin(r, t) ==
    /\ status[t] \in Deletable
    /\ Enter(r, "setDeleting", "delete", t)
    /\ UNCHANGED <<jobVars, rowVars, totalRam, ramVars, ctVars, route>>

\* A tenant without a container skips Deprovision.
DeleteSetDeleting(r) ==
    LET t == req[r].tenant IN
    /\ ReqAt(r, "setDeleting")
    /\ \/ /\ ReqAlive(r)
          /\ SetDeleting(t)
          /\ ReqGoto(r, IF req[r].lxc # None THEN "stop" ELSE "release")
       \/ /\ ReqMayFail(r, "db") \/ status[t] \notin Deletable
          /\ Respond(r)
          /\ UNCHANGED rowVars
    /\ UNCHANGED <<jobVars, totalRam, ramVars, ctVars, route>>

\* getClient may fail; a failed stop is logged and ignored.
DeleteStop(r) ==
    LET v == req[r].lxc IN
    /\ ReqAt(r, "stop")
    /\ \/ /\ ReqAlive(r)
          /\ StopContainer(v)
          /\ ReqGoto(r, "destroy")
       \/ /\ ReqMayFail(r, "request") \/ ctState[v] # "running"
          /\ ReqGoto(r, "destroy")
          /\ UNCHANGED ctVars
       \/ /\ ReqMayFail(r, "request")
          /\ ReqGoto(r, "setError")
          /\ UNCHANGED ctVars
    /\ UNCHANGED <<jobVars, rowVars, totalRam, ramVars, route>>

\* A container that is already gone counts as deleted.
DeleteDestroy(r) ==
    LET v == req[r].lxc IN
    /\ ReqAt(r, "destroy")
    /\ \/ /\ ReqAlive(r)
          /\ \/ DeleteContainer(v)
             \/ v \in FreeVMIDs /\ UNCHANGED ctVars
          /\ ReqGoto(r, "release")
       \/ /\ "late" \in Faults
          /\ ReqAlive(r)
          /\ DeleteContainer(v)
          /\ ReqGoto(r, "setError")
       \/ /\ ReqMayFail(r, "request")
          /\ ReqGoto(r, "setError")
          /\ UNCHANGED ctVars
    /\ UNCHANGED <<jobVars, rowVars, totalRam, ramVars, route>>

\* Mutant: a failed delete gives the RAM back, as provisioner.setError does.
DeleteSetError_Releases(r) ==
    LET t == req[r].tenant IN
    /\ ReqAt(r, "setError")
    /\ ReqAlive(r) /\ SetError(t) /\ ReleaseRAM(t)
    /\ Respond(r)
    /\ UNCHANGED <<jobVars, totalRam, ctVars, route>>

\* The error of SetError itself is discarded.
DeleteSetError(r) ==
    LET t == req[r].tenant IN
    /\ ReqAt(r, "setError")
    /\ \/ ReqAlive(r) /\ SetError(t)
       \/ /\ ReqMayFail(r, "db") \/ status[t] \notin {"provisioning", "deleting"}
          /\ UNCHANGED rowVars
    /\ Respond(r)
    /\ UNCHANGED <<jobVars, totalRam, ramVars, ctVars, route>>

DeleteReleaseRAM(r) ==
    /\ ReqAt(r, "release")
    /\ \/ ReqAlive(r) /\ ReleaseRAM(req[r].tenant)
       \/ ReqMayFail(r, "db") /\ UNCHANGED ramVars
    /\ ReqGoto(r, IF req[r].lxc # None THEN "removeRoute" ELSE "setDeleted")
    /\ UNCHANGED <<jobVars, rowVars, totalRam, ctVars, route>>

DeleteRemoveRoute(r) ==
    /\ ReqAt(r, "removeRoute")
    /\ \/ ReqAlive(r) /\ RemoveRoute(Subdomain[req[r].tenant])
       \/ ReqMayFail(r, "caddy") /\ UNCHANGED route
    /\ ReqGoto(r, "setDeleted")
    /\ UNCHANGED <<jobVars, rowVars, totalRam, ramVars, ctVars>>

DeleteSetDeleted(r) ==
    LET t == req[r].tenant IN
    /\ ReqAt(r, "setDeleted")
    /\ \/ ReqAlive(r) /\ SetDeleted(t)
       \/ /\ ReqMayFail(r, "db") \/ status[t] # "deleting"
          /\ UNCHANGED rowVars
    /\ Respond(r)
    /\ UNCHANGED <<jobVars, totalRam, ramVars, ctVars, route>>

-----------------------------------------------------------------------------
(* Suspend and Resume: the row first, then the container, and the row back
   when the container call fails.  They mirror each other.                  *)

SuspendBegin(r, t) ==
    /\ status[t] = "active"
    /\ Enter(r, "toggle", "suspend", t)
    /\ UNCHANGED <<jobVars, rowVars, totalRam, ramVars, ctVars, route>>

ResumeBegin(r, t) ==
    /\ status[t] = "suspended"
    /\ Enter(r, "toggle", "resume", t)
    /\ UNCHANGED <<jobVars, rowVars, totalRam, ramVars, ctVars, route>>

\* The row change of a request, the change that undoes it, and the status it
\* needs to find.
Forward(r)  == IF req[r].op = "suspend" THEN SetSuspended(req[r].tenant) ELSE SetResumed(req[r].tenant)
Backward(r) == IF req[r].op = "suspend" THEN SetResumed(req[r].tenant) ELSE SetSuspended(req[r].tenant)
Before(r)   == IF req[r].op = "suspend" THEN "active" ELSE "suspended"
After(r)    == IF req[r].op = "suspend" THEN "suspended" ELSE "active"

ToggleStatus(r) ==
    /\ ReqAt(r, "toggle")
    /\ \/ ReqAlive(r) /\ Forward(r) /\ ReqGoto(r, "power")
       \/ /\ ReqMayFail(r, "db") \/ status[req[r].tenant] # Before(r)
          /\ Respond(r)
          /\ UNCHANGED rowVars
    /\ UNCHANGED <<jobVars, totalRam, ramVars, ctVars, route>>

\* provisioner.Suspend / provisioner.Resume on the container of the snapshot.
PowerCall(r) == IF req[r].op = "suspend" THEN StopContainer(req[r].lxc) ELSE StartContainer(req[r].lxc)
PowerRefused(r) == ctState[req[r].lxc] # (IF req[r].op = "suspend" THEN "running" ELSE "stopped")

\* Mutant: the row is not rolled back when the container call fails.
TogglePower_NoRollback(r) ==
    /\ ReqAt(r, "power")
    /\ \/ ReqAlive(r) /\ PowerCall(r)
       \/ /\ ReqMayFail(r, "request") \/ PowerRefused(r)
          /\ UNCHANGED ctVars
    /\ Respond(r)
    /\ UNCHANGED <<jobVars, rowVars, totalRam, ramVars, route>>

TogglePower(r) ==
    /\ ReqAt(r, "power")
    /\ \/ ReqAlive(r) /\ PowerCall(r) /\ Respond(r)
       \/ "late" \in Faults /\ ReqAlive(r) /\ PowerCall(r) /\ ReqGoto(r, "rollback")
       \/ /\ ReqMayFail(r, "request") \/ PowerRefused(r)
          /\ ReqGoto(r, "rollback")
          /\ UNCHANGED ctVars
    /\ UNCHANGED <<jobVars, rowVars, totalRam, ramVars, route>>

ToggleRollback(r) ==
    /\ ReqAt(r, "rollback")
    /\ \/ ReqAlive(r) /\ Backward(r)
       \/ /\ ReqMayFail(r, "db") \/ status[req[r].tenant] # After(r)
          /\ UNCHANGED rowVars
    /\ Respond(r)
    /\ UNCHANGED <<jobVars, totalRam, ramVars, ctVars, route>>

\* The client goes away; net/http cancels the context of its request.
Cancel(r) ==
    /\ "ctx" \in Faults
    /\ req[r].pc # "idle" /\ ReqAlive(r)
    /\ req' = [req EXCEPT ![r].cancelled = TRUE]
    /\ UNCHANGED <<jobVars, rowVars, totalRam, ramVars, ctVars, route>>

\* A client sends a request.
Arrive(r) == \E t \in Tenants :
    CreateReserve(r, t) \/ DeleteBegin(r, t) \/ SuspendBegin(r, t) \/ ResumeBegin(r, t)

\* The handler of a request in flight takes its next step.
RequestStep(r) ==
    \/ CreateInsert(r)      \/ CreateUnreserve(r)
    \/ DeleteSetDeleting(r) \/ DeleteStop(r)       \/ DeleteDestroy(r)
    \/ DeleteSetError(r)    \/ DeleteReleaseRAM(r) \/ DeleteRemoveRoute(r)
    \/ DeleteSetDeleted(r)
    \/ ToggleStatus(r)      \/ TogglePower(r)      \/ ToggleRollback(r)
=============================================================================
