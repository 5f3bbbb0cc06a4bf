---------------------------- MODULE TenantStatus ----------------------------
(***************************************************************************)
(* What the control plane promises about one tenant, whatever happens      *)
(* behind it: the life cycle of its status column.  A tenant is created in *)
(* "provisioning", provisioning ends in "active" or "error", a tenant that *)
(* is neither being created nor being removed may be deleted, a failed     *)
(* delete ends in "error" and can be tried again, and "deleted" is final.  *)
(* Several requests and jobs work on a tenant at the same time; seen       *)
(* through its status they must look like this one machine.                *)
(***************************************************************************)
CONSTANT Tenants

VARIABLE status

Statuses == {"absent", "provisioning", "active", "suspended",
             "error", "deleting", "deleted"}

Init == status = [t \in Tenants |-> "absent"]

Move(t, from, to) == /\ status[t] \in from
                     /\ status' = [status EXCEPT ![t] = to]

Create(t)    == Move(t, {"absent"}, "provisioning")
Provision(t) == Move(t, {"provisioning"}, "active")
Fail(t)      == Move(t, {"provisioning", "deleting"}, "error")
Suspend(t)   == Move(t, {"active"}, "suspended")
Resume(t)    == Move(t, {"suspended"}, "active")
Delete(t)    == Move(t, {"active", "error", "suspended"}, "deleting")
Remove(t)    == Move(t, {"deleting"}, "deleted")

Next == \E t \in Tenants :
           \/ Create(t)  \/ Provision(t) \/ Fail(t) \/ Suspend(t)
           \/ Resume(t)  \/ Delete(t)    \/ Remove(t)

Spec == Init /\ [][Next]_status

(* A transitional status does not last: what was started is brought to an  *)
(* end, good or bad.                                                       *)
Settling(t) == Provision(t) \/ Fail(t) \/ Remove(t)

FairSpec == Spec /\ \A t \in Tenants : WF_status(Settling(t))
=============================================================================
