--------------------------- MODULE LifecycleProofs ---------------------------
(***************************************************************************)
(* The variables keep their types and the semaphore its count, whatever    *)
(* fails and for any number of tenants and requests.  TypeOK alone is not  *)
(* inductive: that sem never drops below zero needs the slot count, the    *)
(* count needs that a waiting job holds no slot, and that needs that the   *)
(* goroutine of a tenant starts after its row was inserted.                *)
(***************************************************************************)
EXTENDS Lifecycle, TLAPS, FiniteSetTheorems

USE FiniteAssumption, RamAssumption, CapacityAssumption, SemaphoreAssumption,
    SubdomainAssumption, NoneAssumption

\* A request in flight is about a tenant.
ReqShape == \A r \in Requests : req[r].pc # "idle" => req[r].tenant \in Tenants

\* A job holds a slot only after it has acquired one.
SlotPCs == \A t \in Tenants : job[t].pc \in {"none", "queued"} => ~job[t].slot

\* The goroutine of a tenant starts after its row is inserted.
JobHasRow == \A t \in Tenants : status[t] = "absent" => job[t].pc = "none"

\* The inductive invariant.
TInv == TypeOK /\ ReqShape /\ SlotPCs /\ JobHasRow /\ SlotsAccounted

(* The jobs that hold a slot are finitely many, before and after a step.   *)
LEMMA SlotsFinite == IsFiniteSet(Slots) /\ IsFiniteSet(Slots')
<1>1. Slots \in SUBSET Tenants /\ Slots' \in SUBSET Tenants
  BY DEF Slots
<1> QED
  BY <1>1, FS_Subset

(* An accounted semaphore counter is a natural number.                     *)
LEMMA SlotCountNat == (SlotsAccounted => sem \in Nat) /\ (SlotsAccounted' => sem' \in Nat)
  BY SlotsFinite, FS_CardinalityType DEF SlotsAccounted

(* Goto moves a job to another point of doProvision and leaves the rest of *)
(* it, every other job and the slots as they are.                          *)
LEMMA GotoFacts ==
    ASSUME TInv, NEW t \in Tenants, NEW pc \in JobPCs, Goto(t, pc)
    PROVE /\ job' \in [Tenants -> JobType]
          /\ SlotsAccounted' /\ sem' \in Nat
          /\ job'[t].pc = pc
          /\ job'[t].vmid = job[t].vmid /\ job'[t].ip = job[t].ip
          /\ job'[t].slot = job[t].slot /\ job'[t].expired = job[t].expired
          /\ \A u \in Tenants : u # t => job'[u] = job[u]
<1>1. /\ job' \in [Tenants -> JobType]
      /\ job'[t].pc = pc
      /\ job'[t].vmid = job[t].vmid /\ job'[t].ip = job[t].ip
      /\ job'[t].slot = job[t].slot /\ job'[t].expired = job[t].expired
      /\ \A u \in Tenants : u # t => job'[u] = job[u]
  BY DEF TInv, TypeOK, Goto, JobType
<1>2. \A u \in Tenants : job'[u].slot = job[u].slot
  BY <1>1 DEF TInv, TypeOK, JobType
<1>3. SlotsAccounted' /\ sem' = sem
  BY <1>2 DEF SlotsAccounted, Slots, TInv, Goto
<1> QED
  BY <1>1, <1>3 DEF TInv, TypeOK

(* When a goroutine returns, its deferred receive frees exactly the slot   *)
(* it holds.                                                               *)
LEMMA JobReturnFacts ==
    ASSUME TInv, NEW t \in Tenants, JobReturn(t)
    PROVE /\ job' \in [Tenants -> JobType]
          /\ SlotsAccounted' /\ sem' \in Nat
          /\ job'[t] = NoJob
          /\ \A u \in Tenants : u # t => job'[u] = job[u]
<1>1. /\ job' \in [Tenants -> JobType]
      /\ job'[t] = NoJob
      /\ \A u \in Tenants : u # t => job'[u] = job[u]
  BY DEF TInv, TypeOK, JobReturn, JobType, NoJob, JobPCs
<1>2. Slots' = Slots \ {t} /\ (job[t].slot <=> t \in Slots)
  BY <1>1 DEF Slots, NoJob
<1>3. SlotsAccounted'
  <2>1. sem' = Cardinality(Slots')
    BY <1>2, SlotsFinite, FS_RemoveElement DEF TInv, SlotsAccounted, JobReturn
  <2>2. sem' <= MaxConcurrentJobs
    BY DEF TInv, TypeOK, SlotsAccounted, JobReturn
  <2> QED
    BY <2>1, <2>2 DEF SlotsAccounted
<1>4. sem' \in Nat
  BY <1>3, SlotCountNat
<1> QED
  BY <1>1, <1>3, <1>4

(* ReqGoto moves a request to another point of its handler and keeps its   *)
(* tenant and its snapshot of lxc_id.                                      *)
LEMMA ReqGotoFacts ==
    ASSUME TInv, NEW r \in Requests, NEW pc \in ReqPCs, ReqGoto(r, pc)
    PROVE /\ req' \in [Requests -> ReqType]
          /\ req'[r].pc = pc /\ req'[r].op = req[r].op
          /\ req'[r].tenant = req[r].tenant /\ req'[r].lxc = req[r].lxc
          /\ req'[r].cancelled = req[r].cancelled
          /\ \A q \in Requests : q # r => req'[q] = req[q]
  BY DEF TInv, TypeOK, ReqGoto, ReqType

(* A request that responds is idle again; the others are not touched.      *)
LEMMA RespondFacts ==
    ASSUME TInv, NEW r \in Requests, Respond(r)
    PROVE /\ req' \in [Requests -> ReqType]
          /\ req'[r] = Idle
          /\ \A q \in Requests : q # r => req'[q] = req[q]
  BY DEF TInv, TypeOK, Respond, ReqType, Idle, ReqPCs

(* A request enters its handler with the tenant and the lxc_id it has just *)
(* read.                                                                   *)
LEMMA EnterFacts ==
    ASSUME TInv, NEW r \in Requests, NEW t \in Tenants, NEW pc \in ReqPCs,
           NEW op \in {"none", "create", "delete", "suspend", "resume"},
           Enter(r, pc, op, t)
    PROVE /\ req[r].pc = "idle"
          /\ req' \in [Requests -> ReqType]
          /\ req'[r].pc = pc /\ req'[r].op = op
          /\ req'[r].tenant = t /\ req'[r].lxc = lxcId[t] /\ ~req'[r].cancelled
          /\ \A q \in Requests : q # r => req'[q] = req[q]
  BY DEF TInv, TypeOK, Enter, ReqAt, ReqType

(* A cancelled context changes neither what a request is doing nor what it *)
(* has read.                                                               *)
LEMMA CancelFacts ==
    ASSUME TInv, NEW r \in Requests, Cancel(r)
    PROVE /\ req' \in [Requests -> ReqType]
          /\ req'[r].pc = req[r].pc /\ req'[r].op = req[r].op
          /\ req'[r].tenant = req[r].tenant /\ req'[r].lxc = req[r].lxc
          /\ \A q \in Requests : q # r => req'[q] = req[q]
<1> DEFINE new == [req[r] EXCEPT !.cancelled = TRUE]
<1>1. req \in [Requests -> ReqType] /\ req[r] \in ReqType /\ req' = [req EXCEPT ![r] = new]
  BY DEF Cancel, TInv, TypeOK
<1>2. /\ new \in ReqType /\ new.pc = req[r].pc /\ new.op = req[r].op
      /\ new.tenant = req[r].tenant /\ new.lxc = req[r].lxc
  BY <1>1 DEF ReqType
<1> HIDE DEF new
<1> QED
  BY <1>1, <1>2

(* The types and the slot count hold when the control plane starts.        *)
LEMMA InitTInv == Init => TInv
<1> SUFFICES ASSUME Init PROVE TInv
  OBVIOUS
<1>1. TypeOK
  BY DEF Init, StoresInit, ProvisionerInit, RequestsInit, TypeOK, Statuses,
         JobType, JobPCs, NoJob, ReqType, ReqPCs, Idle
<1>2. ReqShape
  BY DEF Init, RequestsInit, Idle, ReqShape
<1>3. Slots = {} /\ SlotPCs /\ JobHasRow
  BY DEF Init, ProvisionerInit, NoJob, Slots, SlotPCs, JobHasRow
<1> QED
  BY <1>1, <1>2, <1>3, FS_EmptySet DEF TInv, SlotsAccounted, Init, ProvisionerInit

(* What replacing the record of one job does to the other jobs and to the  *)
(* set of held slots.                                                      *)
LEMMA JobUpdate ==
    ASSUME TInv, NEW t \in Tenants, NEW new \in JobType,
           job' = [job EXCEPT ![t] = new]
    PROVE /\ job' \in [Tenants -> JobType]
          /\ job'[t] = new
          /\ \A u \in Tenants : u # t => job'[u] = job[u]
          /\ new.slot = job[t].slot => Slots' = Slots
          /\ ~new.slot => Slots' = Slots \ {t}
          /\ new.slot => Slots' = Slots \cup {t}
<1>1. /\ job' \in [Tenants -> JobType]
      /\ job'[t] = new
      /\ \A u \in Tenants : u # t => job'[u] = job[u]
  BY DEF TInv, TypeOK
<1> QED
  BY <1>1 DEF Slots

(* Sending to the semaphore channel takes one slot, which the job did not  *)
(* hold before.                                                            *)
LEMMA AcquireFacts ==
    ASSUME TInv, NEW t \in Tenants, AcquireSlot(t)
    PROVE /\ job' \in [Tenants -> JobType]
          /\ SlotsAccounted' /\ sem' \in Nat
          /\ job'[t].pc = "lookup" /\ job'[t].slot /\ job'[t].expired = job[t].expired
          /\ \A u \in Tenants : u # t => job'[u] = job[u]
<1> DEFINE new == [job[t] EXCEPT !.pc = "lookup", !.slot = TRUE]
<1>1. job[t] \in JobType /\ job' = [job EXCEPT ![t] = new]
  BY DEF TInv, TypeOK, AcquireSlot
<1>2. new \in JobType /\ new.pc = "lookup" /\ new.slot /\ new.expired = job[t].expired
  BY <1>1 DEF JobType, JobPCs
<1> HIDE DEF new
<1>3. t \notin Slots
  BY DEF Slots, TInv, SlotPCs, AcquireSlot, At
<1>4. SlotsAccounted'
  <2>1. sem' = Cardinality(Slots')
    <3>1. Slots' = Slots \cup {t}
      BY <1>1, <1>2, JobUpdate
    <3>2. Cardinality(Slots \cup {t}) = Cardinality(Slots) + 1
      BY <1>3, SlotsFinite, FS_AddElement
    <3> QED
      BY <3>1, <3>2 DEF TInv, SlotsAccounted, AcquireSlot
  <2> QED
    BY <2>1 DEF TInv, TypeOK, SlotsAccounted, AcquireSlot
<1> QED
  BY <1>1, <1>2, <1>4, JobUpdate, SlotCountNat

(* Unwinding a panic frees the one slot the job held before recover runs   *)
(* setError.                                                               *)
LEMMA PanicFacts ==
    ASSUME TInv, NEW t \in Tenants, Panic(t)
    PROVE /\ job' \in [Tenants -> JobType]
          /\ SlotsAccounted' /\ sem' \in Nat
          /\ job'[t].pc = "setError"
          /\ \A u \in Tenants : u # t => job'[u] = job[u]
<1> DEFINE new == [job[t] EXCEPT !.pc = "setError", !.slot = FALSE, !.expired = FALSE]
<1>1. job[t] \in JobType /\ job' = [job EXCEPT ![t] = new]
  BY DEF TInv, TypeOK, Panic
<1>2. new \in JobType /\ new.pc = "setError" /\ ~new.slot
  BY <1>1 DEF JobType, JobPCs
<1> HIDE DEF new
<1>3. t \in Slots
  BY DEF Slots, Panic
<1>4. SlotsAccounted'
  <2>1. sem' = Cardinality(Slots')
    <3>1. Slots' = Slots \ {t}
      BY <1>1, <1>2, JobUpdate
    <3>2. Cardinality(Slots \ {t}) = Cardinality(Slots) - 1
      BY <1>3, SlotsFinite, FS_RemoveElement
    <3> QED
      BY <3>1, <3>2 DEF TInv, SlotsAccounted, Panic
  <2> QED
    BY <2>1 DEF TInv, TypeOK, SlotsAccounted, Panic
<1> QED
  BY <1>1, <1>2, <1>4, JobUpdate, SlotCountNat

(* The lookups of doProvision end in setError or with the id of a          *)
(* container.                                                              *)
LEMMA LookupFacts ==
    ASSUME TInv, NEW t \in Tenants, LookupAndGetNextID(t)
    PROVE /\ job' \in [Tenants -> JobType]
          /\ SlotsAccounted' /\ sem' \in Nat
          /\ job'[t].pc \in {"clone", "setError"}
          /\ job'[t].pc = "clone" => job'[t].vmid \in VMIDs
          /\ job'[t].slot = job[t].slot /\ job'[t].expired = job[t].expired
          /\ \A u \in Tenants : u # t => job'[u] = job[u]
<1>1. CASE Goto(t, "setError")
  BY <1>1, GotoFacts DEF JobPCs
<1>2. CASE sem' = sem /\ \E v \in FreeVMIDs : job' = [job EXCEPT ![t] = [@ EXCEPT !.pc = "clone", !.vmid = v]]
  <2> PICK v \in FreeVMIDs : job' = [job EXCEPT ![t] = [@ EXCEPT !.pc = "clone", !.vmid = v]]
    BY <1>2
  <2> DEFINE new == [job[t] EXCEPT !.pc = "clone", !.vmid = v]
  <2>1. job[t] \in JobType /\ job' = [job EXCEPT ![t] = new] /\ v \in VMIDs
    BY DEF TInv, TypeOK, FreeVMIDs
  <2>2. new \in JobType /\ new.pc = "clone" /\ new.slot = job[t].slot /\ new.vmid \in VMIDs
        /\ new.expired = job[t].expired
    BY <2>1 DEF JobType, JobPCs
  <2> HIDE DEF new
  <2> QED
    BY <1>2, <2>1, <2>2, JobUpdate, SlotCountNat DEF TInv, SlotsAccounted
<1> QED
  BY <1>1, <1>2 DEF LookupAndGetNextID

(* The address allocation of doProvision ends in cleanup, with an address, *)
(* or is skipped.                                                          *)
LEMMA AllocateFacts ==
    ASSUME TInv, NEW t \in Tenants, AllocateIP(t)
    PROVE /\ job' \in [Tenants -> JobType]
          /\ SlotsAccounted' /\ sem' \in Nat
          /\ job'[t].pc \in {"start", "configure", "cleanup"}
          /\ job'[t].vmid = job[t].vmid
          /\ job'[t].pc = "configure" => job'[t].ip \in AvailableIPs
          /\ job'[t].slot = job[t].slot /\ job'[t].expired = job[t].expired
          /\ job'[t].pc = "start" => job'[t].ip = job[t].ip
          /\ \A u \in Tenants : u # t => job'[u] = job[u]
<1>1. CASE Goto(t, "start") \/ Goto(t, "cleanup")
  BY <1>1, GotoFacts DEF JobPCs
<1>2. CASE sem' = sem /\ \E ip \in AvailableIPs : job' = [job EXCEPT ![t] = [@ EXCEPT !.pc = "configure", !.ip = ip]]
  <2> PICK ip \in AvailableIPs : job' = [job EXCEPT ![t] = [@ EXCEPT !.pc = "configure", !.ip = ip]]
    BY <1>2
  <2> DEFINE new == [job[t] EXCEPT !.pc = "configure", !.ip = ip]
  <2>1. job[t] \in JobType /\ job' = [job EXCEPT ![t] = new] /\ ip \in IPs
    BY DEF TInv, TypeOK, AvailableIPs
  <2>2. new \in JobType /\ new.pc = "configure" /\ new.slot = job[t].slot
        /\ new.vmid = job[t].vmid /\ new.ip = ip /\ new.expired = job[t].expired
    BY <2>1 DEF JobType, JobPCs
  <2> HIDE DEF new
  <2>3. /\ job' \in [Tenants -> JobType] /\ job'[t] = new /\ Slots' = Slots
        /\ \A u \in Tenants : u # t => job'[u] = job[u]
    BY <2>1, <2>2, JobUpdate
  <2>4. SlotsAccounted' /\ sem' \in Nat
    BY <1>2, <2>3, SlotCountNat DEF TInv, SlotsAccounted
  <2> QED
    BY <2>2, <2>3, <2>4
<1> QED
  BY <1>1, <1>2 DEF AllocateIP

(* The timeout of a job changes nothing but its context.                   *)
LEMMA ExpireFacts ==
    ASSUME TInv, NEW t \in Tenants, Expire(t)
    PROVE /\ job' \in [Tenants -> JobType]
          /\ SlotsAccounted' /\ sem' \in Nat
          /\ job'[t].pc = job[t].pc /\ job'[t].vmid = job[t].vmid
          /\ job'[t].slot = job[t].slot /\ job'[t].ip = job[t].ip
          /\ \A u \in Tenants : u # t => job'[u] = job[u]
<1> DEFINE new == [job[t] EXCEPT !.expired = TRUE]
<1>1. job[t] \in JobType /\ job' = [job EXCEPT ![t] = new]
  BY DEF TInv, TypeOK, Expire
<1>2. /\ new \in JobType /\ new.pc = job[t].pc /\ new.slot = job[t].slot
      /\ new.vmid = job[t].vmid /\ new.ip = job[t].ip
  BY <1>1 DEF JobType
<1> HIDE DEF new
<1>3. /\ job' \in [Tenants -> JobType] /\ job'[t] = new /\ Slots' = Slots
      /\ \A u \in Tenants : u # t => job'[u] = job[u]
  BY <1>1, <1>2, JobUpdate
<1>4. SlotsAccounted' /\ sem' \in Nat
  BY <1>3, SlotCountNat DEF TInv, SlotsAccounted, Expire
<1> QED
  BY <1>2, <1>3, <1>4

(* The fields of a job have their types.                                   *)
LEMMA JobFields ==
    ASSUME TInv, NEW t \in Tenants
    PROVE job[t].pc \in JobPCs /\ job[t].vmid \in VMIDs \cup {None} /\ job[t].ip \in IPs \cup {None}
  BY DEF TInv, TypeOK, JobType

(* Every step of a provision goroutine keeps the types and the slot count. *)
LEMMA JobTInv ==
    ASSUME TInv, NEW t \in Tenants, JobStep(t) \/ Expire(t) \/ Panic(t)
    PROVE TInv'
<1> USE DEF rowVars, ramVars, ctVars, jobVars
<1>a. ASSUME /\ job' \in [Tenants -> JobType]
             /\ SlotsAccounted' /\ sem' \in Nat
             /\ job'[t].pc \in {"none", "queued"} => ~job'[t].slot
             /\ \A u \in Tenants : u # t => job'[u] = job[u]
             /\ UNCHANGED <<totalRam, req>>
             /\ status[t] # "absent" => status'[t] # "absent"
             /\ \A u \in Tenants : u # t => status'[u] = status[u]
             /\ UNCHANGED ramVars \/ ReleaseRAM(t)
             /\ status' \in [Tenants -> Statuses]
             /\ lxcId' \in [Tenants -> VMIDs \cup {None}]
             /\ lxcIp' \in [Tenants -> IPs \cup {None}]
             /\ ctState' \in [VMIDs -> {"absent", "stopped", "running"}]
             /\ ctOwner' \in [VMIDs -> Tenants \cup {None}]
             /\ route' \in [Subdomains -> IPs \cup {None}]
      PROVE TInv'
  <2>0. job[t].pc # "none"
    BY DEF JobStep, AcquireSlot, LookupAndGetNextID, Clone, AllocateIP, ConfigureNetwork,
           MountAndStart, Activate, DeployAndAddRoute, CheckHealth, Cleanup, JobSetError, JobReleaseRAM,
           At, Expire, Panic, TInv, SlotPCs
  <2>1. SlotPCs' /\ ReqShape' /\ JobHasRow'
    BY <1>a, <2>0 DEF SlotPCs, ReqShape, JobHasRow, TInv
  <2>2. allocatedRam' \in Nat /\ ledger' \subseteq Tenants /\ overReleased' \subseteq Tenants
    BY <1>a DEF TInv, TypeOK, ReleaseRAM
  <2> QED
    BY <1>a, <2>1, <2>2 DEF TInv, TypeOK
<1> USE JobFields
<1>1. CASE AcquireSlot(t)
  BY <1>1, <1>a, AcquireFacts DEF AcquireSlot, TInv, TypeOK
<1>2. CASE LookupAndGetNextID(t)
  BY <1>2, <1>a, LookupFacts DEF LookupAndGetNextID, TInv, TypeOK
<1>3. CASE Clone(t)
  BY <1>3, <1>a, GotoFacts DEF Clone, CloneContainer, TInv, TypeOK, JobPCs
<1>4. CASE AllocateIP(t)
  BY <1>4, <1>a, AllocateFacts DEF AllocateIP, TInv, TypeOK
<1>5. CASE ConfigureNetwork(t)
  BY <1>5, <1>a, GotoFacts DEF ConfigureNetwork, SetLXCIP, TInv, TypeOK, JobPCs
<1>6. CASE MountAndStart(t)
  BY <1>6, <1>a, GotoFacts DEF MountAndStart, StartContainer, TInv, TypeOK, JobPCs
<1>7. CASE Activate(t)
  BY <1>7, <1>a, GotoFacts DEF Activate, SetActive, CAS, Statuses, TInv, TypeOK, JobPCs
<1>8. CASE DeployAndAddRoute(t)
  BY <1>8, <1>a, GotoFacts DEF DeployAndAddRoute, AddRoute, TInv, TypeOK, JobPCs
<1>14. CASE CheckHealth(t)
  BY <1>14, <1>a, JobReturnFacts DEF CheckHealth, TInv, TypeOK, NoJob
<1>9. CASE Cleanup(t)
  BY <1>9, <1>a, GotoFacts DEF Cleanup, DeleteContainer, TInv, TypeOK, JobPCs
<1>10. CASE JobSetError(t)
  BY <1>10, <1>a, GotoFacts DEF JobSetError, SetError, CAS, Statuses, TInv, TypeOK, JobPCs
<1>11. CASE JobReleaseRAM(t)
  BY <1>11, <1>a, JobReturnFacts DEF JobReleaseRAM, TInv, TypeOK, NoJob
<1>12. CASE Expire(t)
  BY <1>12, <1>a, ExpireFacts DEF Expire, TInv, TypeOK, SlotPCs
<1>13. CASE Panic(t)
  <2>1. UNCHANGED <<status, lxcId, lxcIp, totalRam, ramVars, ctState, ctOwner, route, req>>
    BY <1>13 DEF Panic
  <2>2. /\ job' \in [Tenants -> JobType] /\ SlotsAccounted' /\ sem' \in Nat
        /\ job'[t].pc = "setError" /\ \A u \in Tenants : u # t => job'[u] = job[u]
    BY <1>13, PanicFacts
  <2>3. /\ status \in [Tenants -> Statuses]
        /\ lxcId \in [Tenants -> VMIDs \cup {None}]
        /\ lxcIp \in [Tenants -> IPs \cup {None}]
        /\ ctState \in [VMIDs -> {"absent", "stopped", "running"}]
        /\ ctOwner \in [VMIDs -> Tenants \cup {None}]
        /\ route \in [Subdomains -> IPs \cup {None}]
    BY DEF TInv, TypeOK
  <2> QED
    BY <1>a, <2>1, <2>2, <2>3
<1> QED
  BY <1>1, <1>2, <1>3, <1>4, <1>5, <1>6, <1>7, <1>8, <1>9, <1>10, <1>11, <1>12, <1>13, <1>14
     DEF JobStep

(* The fields of a request have their types, and a request in flight is    *)
(* about a tenant.                                                         *)
LEMMA ReqFields ==
    ASSUME TInv, NEW r \in Requests
    PROVE /\ req[r].pc \in ReqPCs
          /\ req[r].lxc \in VMIDs \cup {None}
          /\ req[r].pc # "idle" => req[r].tenant \in Tenants
  BY DEF TInv, TypeOK, ReqType, ReqShape

(* Provision starts the goroutine of a tenant at the semaphore.            *)
LEMMA ProvisionFacts ==
    ASSUME TInv, NEW t \in Tenants, Provision(t)
    PROVE Goto(t, "queued")
  BY DEF Provision, Goto

(* Every step of an HTTP request keeps the types and the slot count.       *)
LEMMA RequestTInv ==
    ASSUME TInv, NEW r \in Requests, Arrive(r) \/ RequestStep(r) \/ Cancel(r)
    PROVE TInv'
<1> USE DEF rowVars, ramVars, ctVars, jobVars
<1>a. ASSUME /\ req' \in [Requests -> ReqType]
             /\ req'[r].pc # "idle" => req'[r].tenant \in Tenants
             /\ \A q \in Requests : q # r => req'[q] = req[q]
             /\ UNCHANGED totalRam
             /\ UNCHANGED jobVars
             /\ UNCHANGED ramVars \/ \E t \in Tenants : ReserveRAM(t) \/ ReleaseRAM(t)
             /\ status' \in [Tenants -> Statuses]
             /\ \A t \in Tenants : status'[t] = "absent" => status[t] = "absent"
             /\ UNCHANGED <<lxcId, lxcIp>>
             /\ ctState' \in [VMIDs -> {"absent", "stopped", "running"}]
             /\ ctOwner' \in [VMIDs -> Tenants \cup {None}]
             /\ route' \in [Subdomains -> IPs \cup {None}]
      PROVE TInv'
  <2>1. ReqShape' /\ SlotPCs' /\ JobHasRow' /\ SlotsAccounted'
    BY <1>a DEF SlotPCs, JobHasRow, ReqShape, SlotsAccounted, Slots, TInv
  <2>2. allocatedRam' \in Nat /\ ledger' \subseteq Tenants /\ overReleased' \subseteq Tenants
    BY <1>a DEF TInv, TypeOK, ReleaseRAM, ReserveRAM
  <2> QED
    BY <1>a, <2>1, <2>2 DEF TInv, TypeOK
<1> USE ReqFields
<1>1. CASE Arrive(r)
  <2> PICK t \in Tenants : CreateReserve(r, t) \/ DeleteBegin(r, t) \/ SuspendBegin(r, t) \/ ResumeBegin(r, t)
    BY <1>1 DEF Arrive
  <2>1. CASE CreateReserve(r, t)
    BY <2>1, <1>a, EnterFacts DEF CreateReserve, ReqPCs, TInv, TypeOK
  <2>2. CASE DeleteBegin(r, t)
    BY <2>2, <1>a, EnterFacts DEF DeleteBegin, ReqPCs, TInv, TypeOK
  <2>3. CASE SuspendBegin(r, t)
    BY <2>3, <1>a, EnterFacts DEF SuspendBegin, ReqPCs, TInv, TypeOK
  <2>4. CASE ResumeBegin(r, t)
    BY <2>4, <1>a, EnterFacts DEF ResumeBegin, ReqPCs, TInv, TypeOK
  <2> QED
    BY <2>1, <2>2, <2>3, <2>4
<1>2. CASE CreateUnreserve(r)
  BY <1>2, <1>a, RespondFacts DEF CreateUnreserve, ReqAt, Idle, TInv, TypeOK
<1>3. CASE DeleteSetDeleting(r)
  BY <1>3, <1>a, RespondFacts, ReqGotoFacts DEF DeleteSetDeleting, ReqAt, Idle, ReqPCs, SetDeleting, CAS, Statuses, TInv, TypeOK
<1>4. CASE DeleteStop(r)
  BY <1>4, <1>a, ReqGotoFacts DEF DeleteStop, ReqAt, ReqPCs, StopContainer, TInv, TypeOK
<1>5. CASE DeleteDestroy(r)
  BY <1>5, <1>a, ReqGotoFacts DEF DeleteDestroy, ReqAt, ReqPCs, DeleteContainer, TInv, TypeOK
<1>6. CASE DeleteSetError(r)
  BY <1>6, <1>a, RespondFacts DEF DeleteSetError, ReqAt, Idle, SetError, CAS, Statuses, TInv, TypeOK
<1>7. CASE DeleteReleaseRAM(r)
  BY <1>7, <1>a, ReqGotoFacts DEF DeleteReleaseRAM, ReqAt, ReqPCs, TInv, TypeOK
<1>8. CASE DeleteRemoveRoute(r)
  BY <1>8, <1>a, ReqGotoFacts DEF DeleteRemoveRoute, ReqAt, ReqPCs, RemoveRoute, TInv, TypeOK
<1>9. CASE DeleteSetDeleted(r)
  BY <1>9, <1>a, RespondFacts DEF DeleteSetDeleted, ReqAt, Idle, SetDeleted, CAS, Statuses, TInv, TypeOK
<1>10. CASE ToggleStatus(r)
  BY <1>10, <1>a, RespondFacts, ReqGotoFacts DEF ToggleStatus, ReqAt, Idle, ReqPCs, Forward, SetSuspended, SetResumed, CAS, Statuses, TInv, TypeOK
<1>11. CASE TogglePower(r)
  BY <1>11, <1>a, RespondFacts, ReqGotoFacts DEF TogglePower, ReqAt, Idle, ReqPCs, PowerCall, StopContainer, StartContainer, TInv, TypeOK
<1>12. CASE ToggleRollback(r)
  BY <1>12, <1>a, RespondFacts DEF ToggleRollback, ReqAt, Idle, Backward, SetSuspended, SetResumed, CAS, Statuses, TInv, TypeOK
<1>13. CASE Cancel(r)
  BY <1>13, <1>a, CancelFacts DEF Cancel, TInv, TypeOK
<1>14. CASE CreateInsert(r)
  <2>1. CASE jobVars' = jobVars
    BY <1>14, <2>1, <1>a, RespondFacts, ReqGotoFacts DEF CreateInsert, InsertRow, ReqAt, Idle, ReqPCs, Statuses, TInv, TypeOK
  <2>2. CASE Provision(req[r].tenant)
    <3> DEFINE t == req[r].tenant
    <3>1. t \in Tenants
      BY <1>14 DEF CreateInsert, ReqAt
    <3>2. /\ job' \in [Tenants -> JobType]
          /\ SlotsAccounted' /\ sem' \in Nat
          /\ job'[t].pc = "queued" /\ job'[t].slot = job[t].slot
          /\ \A u \in Tenants : u # t => job'[u] = job[u]
      BY <3>1, <2>2, ProvisionFacts, GotoFacts DEF JobPCs
    <3> HIDE DEF t
    <3>3. CASE InsertRow(t) /\ Respond(r)
      <4>1. /\ status' \in [Tenants -> Statuses] /\ status[t] = "absent" /\ status'[t] = "provisioning"
            /\ \A u \in Tenants : u # t => status'[u] = status[u]
        BY <3>1, <3>3 DEF InsertRow, TInv, TypeOK, Statuses
      <4>2. SlotPCs' /\ JobHasRow'
        BY <3>1, <3>2, <4>1 DEF SlotPCs, JobHasRow, TInv
      <4>3. ReqShape' /\ req' \in [Requests -> ReqType]
        BY <3>3, RespondFacts DEF Idle, ReqShape, TInv
      <4> QED
        BY <1>14, <3>2, <3>3, <4>1, <4>2, <4>3 DEF CreateInsert, InsertRow, TInv, TypeOK
    <3> QED
      BY <1>14, <3>3, <2>1 DEF CreateInsert, t
  <2> QED
    BY <1>14, <2>1, <2>2 DEF CreateInsert
<1> QED
  BY <1>1, <1>2, <1>3, <1>4, <1>5, <1>6, <1>7, <1>8, <1>9, <1>10, <1>11, <1>12, <1>13, <1>14
     DEF RequestStep

(* The typing invariant is inductive: jobs, requests, node updates and     *)
(* restarts keep it.                                                       *)
LEMMA NextTInv == TInv /\ [Next]_vars => TInv'
<1> SUFFICES ASSUME TInv, [Next]_vars PROVE TInv'
  OBVIOUS
<1>1. CASE \E t \in Tenants : JobStep(t) \/ Expire(t) \/ Panic(t)
  BY <1>1, JobTInv
<1>2. CASE \E r \in Requests : Arrive(r) \/ RequestStep(r) \/ Cancel(r)
  BY <1>2, RequestTInv
<1>3. CASE \E mb \in Capacities : UpdateNode(mb)
  BY <1>3 DEF UpdateNode, TInv, TypeOK, ReqShape, SlotPCs, JobHasRow, SlotsAccounted, Slots,
              rowVars, ramVars, ctVars, jobVars
<1>4. CASE Crash
  <2> USE <1>4 DEF Crash
  <2>1. job' \in [Tenants -> JobType] /\ req' \in [Requests -> ReqType]
    BY DEF JobType, JobPCs, NoJob, ReqType, ReqPCs, Idle
  <2>2. SlotPCs' /\ JobHasRow' /\ ReqShape' /\ Slots' = {}
    BY DEF SlotPCs, JobHasRow, ReqShape, Slots, NoJob, Idle
  <2>3. SlotsAccounted'
    BY <2>2, FS_EmptySet DEF SlotsAccounted
  <2> QED
    BY <2>1, <2>2, <2>3 DEF TInv, TypeOK, rowVars, ramVars, ctVars
<1>5. CASE UNCHANGED vars
  BY <1>5 DEF vars, TInv, TypeOK, ReqShape, SlotPCs, JobHasRow, SlotsAccounted, Slots
<1> QED
  BY <1>1, <1>2, <1>3, <1>4, <1>5 DEF Next, Work, AtRest

(* No interleaving of jobs, requests, timeouts, panics and restarts takes  *)
(* a variable out of its type: RAM and slots are never counted below zero. *)
THEOREM TypeCorrect == Spec => []TypeOK
<1>1. TInv => TypeOK
  BY DEF TInv
<1> QED
  BY <1>1, InitTInv, NextTInv, PTL DEF Spec

(* The semaphore of Provision admits MaxConcurrentJobs jobs and its counter *)
(* is the number of jobs inside, on every path out: return, error, panic.  *)
THEOREM SlotsCorrect == Spec => []SlotsAccounted
<1>1. TInv => SlotsAccounted
  BY DEF TInv
<1> QED
  BY <1>1, InitTInv, NextTInv, PTL DEF Spec

(* The typing invariant holds throughout.                                  *)
LEMMA TInvCorrect == Spec => []TInv
  BY InitTInv, NextTInv, PTL DEF Spec

-----------------------------------------------------------------------------
(***************************************************************************)
(* Facts that need no more than the types: the life cycle implements       *)
(* TenantStatus, and the RAM counter stays within the node.                *)
(***************************************************************************)

(* Every step of the life cycle is a step of TenantStatus or leaves all    *)
(* statuses alone.                                                         *)
LEMMA NextStatus == TInv /\ [Next]_vars => [TS!Next]_status
<1> SUFFICES ASSUME TInv, Next PROVE [TS!Next]_status
  BY DEF vars
<1> USE DEF rowVars, ramVars, ctVars, jobVars, CAS, TS!Move
<1>a. ASSUME NEW t \in Tenants,
             \/ InsertRow(t) \/ (\E v : SetActive(t, v)) \/ SetError(t) \/ SetSuspended(t)
             \/ SetResumed(t) \/ SetDeleting(t) \/ SetDeleted(t)
      PROVE TS!Next
  <2>1. CASE InsertRow(t)
    BY <2>1 DEF InsertRow, TS!Next, TS!Create
  <2>2. CASE \E v : SetActive(t, v)
    BY <2>2 DEF SetActive, TS!Next, TS!Provision
  <2>3. CASE SetError(t)
    BY <2>3 DEF SetError, TS!Next, TS!Fail
  <2>4. CASE SetSuspended(t)
    BY <2>4 DEF SetSuspended, TS!Next, TS!Suspend
  <2>5. CASE SetResumed(t)
    BY <2>5 DEF SetResumed, TS!Next, TS!Resume
  <2>6. CASE SetDeleting(t)
    BY <2>6 DEF SetDeleting, Deletable, TS!Next, TS!Delete
  <2>7. CASE SetDeleted(t)
    BY <2>7 DEF SetDeleted, TS!Next, TS!Remove
  <2> QED
    BY <1>a, <2>1, <2>2, <2>3, <2>4, <2>5, <2>6, <2>7
<1>1. CASE \E t \in Tenants : JobStep(t) \/ Expire(t) \/ Panic(t)
  <2> PICK t \in Tenants : JobStep(t) \/ Expire(t) \/ Panic(t)
    BY <1>1
  <2>1. UNCHANGED status \/ (\E v : SetActive(t, v)) \/ SetError(t)
    BY DEF JobStep, AcquireSlot, LookupAndGetNextID, Clone, AllocateIP, ConfigureNetwork,
           SetLXCIP, MountAndStart, Activate, DeployAndAddRoute, CheckHealth, Cleanup, JobSetError,
           JobReleaseRAM, Expire, Panic
  <2> QED
    BY <2>1, <1>a
<1>2. CASE \E r \in Requests : Arrive(r) \/ RequestStep(r) \/ Cancel(r)
  <2> PICK r \in Requests : Arrive(r) \/ RequestStep(r) \/ Cancel(r)
    BY <1>2
  <2> DEFINE t == req[r].tenant
  <2>1. \/ UNCHANGED status
        \/ /\ req[r].pc # "idle"
           /\ \/ InsertRow(t) \/ SetError(t) \/ SetSuspended(t)
              \/ SetResumed(t) \/ SetDeleting(t) \/ SetDeleted(t)
    BY DEF Arrive, CreateReserve, DeleteBegin, SuspendBegin, ResumeBegin, RequestStep,
           CreateInsert, CreateUnreserve, DeleteSetDeleting, DeleteStop, DeleteDestroy,
           DeleteSetError, DeleteReleaseRAM, DeleteRemoveRoute, DeleteSetDeleted,
           ToggleStatus, Forward, TogglePower, ToggleRollback, Backward, Cancel, ReqAt
  <2> QED
    BY <2>1, <1>a, ReqFields
<1> QED
  BY <1>1, <1>2 DEF Next, Work, UpdateNode, Crash, AtRest, vars

(* The life cycle implements TenantStatus: whatever jobs and requests do   *)
(* at the same time, a status only moves along the edges of that machine;  *)
(* "deleted" is final and "deleting" leads to "deleted" or "error" only.   *)
THEOREM StatusRefinement == Spec => StatusMachine
<1>1. Init => TS!Init
  BY DEF Init, StoresInit, TS!Init
<1> QED
  BY <1>1, TInvCorrect, NextStatus, PTL DEF Spec, StatusMachine, TS!Spec

(* ReserveRAM, ReleaseRAM and the update of a node keep the counter within *)
(* the total.                                                              *)
LEMMA NextCapacity == TInv /\ WithinCapacity /\ [Next]_vars => WithinCapacity'
<1> SUFFICES ASSUME TInv, WithinCapacity, [Next]_vars PROVE WithinCapacity'
  OBVIOUS
<1> USE DEF rowVars, ramVars, ctVars, jobVars
<1>0. allocatedRam \in Nat /\ totalRam \in Nat
  BY DEF TInv, TypeOK
<1>a. ASSUME NEW t, ReserveRAM(t) \/ ReleaseRAM(t), totalRam' = totalRam PROVE WithinCapacity'
  BY <1>0, <1>a DEF ReserveRAM, ReleaseRAM, WithinCapacity
<1>b. ASSUME UNCHANGED <<ramVars, totalRam>> PROVE WithinCapacity'
  BY <1>b DEF WithinCapacity
<1>1. CASE \E t \in Tenants : JobStep(t) \/ Expire(t) \/ Panic(t)
  <2>1. totalRam' = totalRam /\ (UNCHANGED ramVars \/ \E t : ReleaseRAM(t))
    BY <1>1 DEF JobStep, AcquireSlot, LookupAndGetNextID, Clone, AllocateIP, ConfigureNetwork,
                MountAndStart, Activate, DeployAndAddRoute, CheckHealth, Cleanup, JobSetError,
                JobReleaseRAM, Expire, Panic
  <2> QED
    BY <2>1, <1>a, <1>b
<1>2. CASE \E r \in Requests : Arrive(r) \/ RequestStep(r) \/ Cancel(r)
  <2>1. totalRam' = totalRam /\ (UNCHANGED ramVars \/ \E t : ReserveRAM(t) \/ ReleaseRAM(t))
    BY <1>2 DEF Arrive, CreateReserve, DeleteBegin, SuspendBegin, ResumeBegin, RequestStep,
                CreateInsert, CreateUnreserve, DeleteSetDeleting, DeleteStop, DeleteDestroy,
                DeleteSetError, DeleteReleaseRAM, DeleteRemoveRoute, DeleteSetDeleted,
                ToggleStatus, TogglePower, ToggleRollback, Cancel
  <2> QED
    BY <2>1, <1>a, <1>b
<1>3. CASE \E mb \in Capacities : UpdateNode(mb)
  BY <1>0, <1>3 DEF UpdateNode, WithinCapacity
<1> QED
  BY <1>1, <1>2, <1>3, <1>b DEF Next, Work, Crash, AtRest, vars

(* ReserveRAM, ReleaseRAM and the guarded update of a node's total never   *)
(* let allocated_ram_mb exceed total_ram_mb, in whatever order jobs,       *)
(* requests and operators run them and however often a release is repeated.*)
THEOREM CapacityCorrect == Spec => []WithinCapacity
<1>1. Init => WithinCapacity
  BY DEF Init, StoresInit, WithinCapacity
<1> QED
  BY <1>1, TInvCorrect, NextCapacity, PTL DEF Spec

-----------------------------------------------------------------------------
(***************************************************************************)
(* Why a tenant is torn down by one request at a time, its RAM is released *)
(* once, and its container is its own.  The provisioning goroutine and the *)
(* requests never lock a tenant: what keeps them apart is its status.      *)
(* Owned below says which statuses each program counter can meet, and what *)
(* the reservation and the container of the tenant are at that point.      *)
(***************************************************************************)

\* A job that has not come to SetActive or SetError yet.
PreActive == {"queued", "lookup", "clone", "network", "configure", "start",
              "activate", "cleanup", "setError"}

\* A create between its reservation and its insert.
Creating == {"insert", "unreserve"}

\* What a job knows of its row: until SetActive or SetError nobody else moves it.
JobRows == \A t \in Tenants :
    /\ job[t].pc \in PreActive => status[t] = "provisioning" /\ t \in ledger
    /\ job[t].pc = "release" =>
          /\ lxcId[t] = None
          /\ status[t] = "provisioning" => t \in ledger
    /\ job[t].pc \in {"clone", "network", "configure", "start", "activate", "cleanup"} =>
          job[t].vmid \in VMIDs

\* What a row says about the reservation of its tenant.
RamRows == \A t \in Tenants :
    /\ status[t] \in {"absent", "provisioning"} => lxcId[t] = None /\ t \notin overReleased
    /\ t \in Live => lxcId[t] # None
    /\ status[t] \in Deletable /\ lxcId[t] # None => t \in ledger
    /\ t \in overReleased => lxcId[t] = None

\* What a request knows of its row, from the snapshot it took and the moves it made.
ReqRows == \A r \in Requests : LET t == req[r].tenant IN
    /\ req[r].pc \in Creating => req[r].op = "create" /\ status[t] = "absent" /\ t \in ledger
    /\ req[r].pc \notin Creating \cup {"idle"} =>
          status[t] \notin {"absent", "provisioning"} /\ req[r].lxc = lxcId[t]
    /\ req[r].pc \in DeleteOwns => status[t] = "deleting"
    /\ req[r].pc \in {"stop", "destroy", "setError", "removeRoute"} => req[r].lxc # None
    /\ req[r].pc \in {"stop", "destroy", "setError", "release"} /\ req[r].lxc # None => t \in ledger

\* One request creates a tenant, and one deletes it.
OneEach == \A r, q \in Requests :
    /\ req[r].tenant = req[q].tenant
    /\ \/ req[r].pc \in Creating /\ req[q].pc \in Creating
       \/ req[r].pc \in DeleteOwns /\ req[q].pc \in DeleteOwns
    => r = q

\* The counter covers the ledger unless something was released twice.
Counted == overReleased = {} => RamMB * Cardinality(ledger) <= allocatedRam

\* The inductive invariant.
Owned == TInv /\ JobRows /\ RamRows /\ ReqRows /\ OneEach /\ Counted

-----------------------------------------------------------------------------
(* The reservations that are counted belong to finitely many tenants.      *)
LEMMA LedgerFinite ==
    ASSUME TInv, ledger' \subseteq Tenants
    PROVE /\ IsFiniteSet(ledger) /\ Cardinality(ledger) \in Nat
          /\ IsFiniteSet(ledger') /\ Cardinality(ledger') \in Nat
  BY FS_Subset, FS_CardinalityType DEF TInv, TypeOK

(* Arithmetic for one more reservation.                                    *)
LEMMA Distribute == \A m, c \in Nat : m * (c + 1) = m * c + m
  OBVIOUS

(* ReleaseRAM, floored at zero, gives back no more than the reservation of *)
(* one tenant.                                                             *)
LEMMA CountRelease ==
    ASSUME TInv, Counted, NEW t \in Tenants, ReleaseRAM(t)
    PROVE Counted'
<1> SUFFICES ASSUME overReleased' = {} PROVE RamMB * Cardinality(ledger') <= allocatedRam'
  BY DEF Counted
<1>1. t \in ledger /\ overReleased = {} /\ ledger' = ledger \ {t}
  BY DEF ReleaseRAM
<1> DEFINE c == Cardinality(ledger')
<1>2. c \in Nat /\ Cardinality(ledger) = c + 1
  BY <1>1, LedgerFinite, FS_RemoveElement DEF TInv, TypeOK
<1>3. RamMB * (c + 1) <= allocatedRam
  BY <1>1, <1>2 DEF Counted
<1> HIDE DEF c
<1>4. RamMB * c \in Nat /\ RamMB * c + RamMB <= allocatedRam
  BY <1>2, <1>3, Distribute
<1>5. allocatedRam \in Nat /\ allocatedRam' = IF allocatedRam >= RamMB THEN allocatedRam - RamMB ELSE 0
  BY DEF TInv, TypeOK, ReleaseRAM
<1>6. RamMB * c <= allocatedRam'
  BY <1>4, <1>5
<1> QED
  BY <1>6 DEF c

(* ReserveRAM adds the reservation of one tenant.                          *)
LEMMA CountReserve ==
    ASSUME TInv, Counted, NEW t \in Tenants, ReserveRAM(t)
    PROVE Counted'
<1> SUFFICES ASSUME overReleased = {} PROVE RamMB * Cardinality(ledger') <= allocatedRam'
  BY DEF Counted, ReserveRAM
<1> DEFINE c == Cardinality(ledger)
<1>1. ledger' = ledger \cup {t} /\ allocatedRam \in Nat /\ allocatedRam' = allocatedRam + RamMB
  BY DEF ReserveRAM, TInv, TypeOK
<1>2. c \in Nat /\ Cardinality(ledger') \in {c, c + 1}
  BY <1>1, LedgerFinite, FS_AddElement DEF TInv, TypeOK
<1>3. RamMB * c <= allocatedRam
  BY DEF Counted
<1> HIDE DEF c
<1>4. RamMB * c \in Nat /\ RamMB * (c + 1) = RamMB * c + RamMB
  BY <1>2, Distribute
<1> QED
  BY <1>1, <1>2, <1>3, <1>4

(* The invariant holds when the control plane starts on an empty database. *)
LEMMA InitOwned == Init => Owned
<1> SUFFICES ASSUME Init PROVE Owned
  OBVIOUS
<1> USE DEF Init, StoresInit, ProvisionerInit, RequestsInit, NoJob, Idle
<1>1. JobRows /\ RamRows
  BY DEF JobRows, RamRows, PreActive, Live, Deletable
<1>2. ReqRows /\ OneEach
  BY DEF ReqRows, OneEach, Creating, DeleteOwns
<1>3. Counted
  BY FS_EmptySet DEF Counted
<1> QED
  BY <1>1, <1>2, <1>3, InitTInv DEF Owned

(* A step of a job that leaves the row and the reservation alone keeps the *)
(* invariant.                                                              *)
LEMMA JobQuiet ==
    ASSUME Owned, NEW t \in Tenants,
           UNCHANGED <<status, lxcId, ramVars, req>>,
           \A u \in Tenants : u # t => job'[u] = job[u],
           \/ job'[t].pc \in {"none", "addRoute", "health"}
           \/ job[t].pc \in PreActive /\ job'[t].pc \in PreActive,
           job'[t].pc \in {"clone", "network", "configure", "start", "activate", "cleanup"} =>
              job'[t].vmid \in VMIDs
    PROVE JobRows' /\ RamRows' /\ ReqRows' /\ OneEach' /\ Counted'
<1>1. JobRows'
  BY DEF Owned, JobRows, PreActive, ramVars
<1>2. RamRows' /\ Counted'
  BY DEF Owned, RamRows, Counted, Live, ramVars
<1>3. ReqRows' /\ OneEach'
  BY DEF Owned, ReqRows, OneEach, ramVars
<1> QED
  BY <1>1, <1>2, <1>3

(* Every step of a provision goroutine that does not panic keeps the       *)
(* invariant.                                                              *)
LEMMA JobOwned ==
    ASSUME Owned, "panic" \notin Faults, NEW t \in Tenants,
           JobStep(t) \/ Expire(t) \/ Panic(t)
    PROVE JobRows' /\ RamRows' /\ ReqRows' /\ OneEach' /\ Counted'
<1> USE DEF rowVars, ramVars, ctVars, jobVars
<1>0. TInv
  BY DEF Owned
<1>1. CASE AcquireSlot(t)
  BY <1>0, <1>1, AcquireFacts, JobQuiet DEF AcquireSlot, At, PreActive
<1>2. CASE LookupAndGetNextID(t)
  BY <1>0, <1>2, LookupFacts, JobQuiet DEF LookupAndGetNextID, At, PreActive
<1>3. CASE Clone(t)
  BY <1>0, <1>3, GotoFacts, JobQuiet DEF Clone, At, PreActive, JobPCs, Owned, JobRows
<1>4. CASE AllocateIP(t)
  BY <1>0, <1>4, AllocateFacts, JobQuiet DEF AllocateIP, At, PreActive, Owned, JobRows
<1>5. CASE ConfigureNetwork(t)
  BY <1>0, <1>5, GotoFacts, JobQuiet DEF ConfigureNetwork, SetLXCIP, At, PreActive, JobPCs, Owned, JobRows
<1>6. CASE MountAndStart(t)
  BY <1>0, <1>6, GotoFacts, JobQuiet DEF MountAndStart, At, PreActive, JobPCs, Owned, JobRows
<1>7. CASE Activate(t)
  <2>1. job[t].vmid \in VMIDs /\ status[t] = "provisioning" /\ t \in ledger /\ lxcId[t] = None
    BY <1>7 DEF Activate, At, Owned, JobRows, RamRows, PreActive
  <2>2. CASE Goto(t, "cleanup") /\ UNCHANGED rowVars
    BY <1>0, <1>7, <2>1, <2>2, GotoFacts, JobQuiet DEF Activate, At, PreActive, JobPCs
  <2>3. CASE SetActive(t, job[t].vmid) /\ Goto(t, "addRoute")
    <3>1. /\ job'[t].pc = "addRoute" /\ \A u \in Tenants : u # t => job'[u] = job[u]
          /\ status'[t] = "active" /\ \A u \in Tenants : u # t => status'[u] = status[u]
          /\ lxcId'[t] = job[t].vmid /\ \A u \in Tenants : u # t => lxcId'[u] = lxcId[u]
          /\ UNCHANGED <<ramVars, req>>
      BY <1>0, <1>7, <2>3, GotoFacts DEF Activate, SetActive, CAS, JobPCs, TInv, TypeOK
    <3>2. JobRows'
      BY <3>1 DEF Owned, JobRows, PreActive
    <3>3. RamRows' /\ Counted'
      BY <2>1, <3>1 DEF Owned, RamRows, Counted, Live
    <3>4. ReqRows' /\ OneEach'
      BY <1>0, <2>1, <3>1, ReqFields DEF Owned, ReqRows, OneEach, Creating, DeleteOwns
    <3> QED
      BY <3>2, <3>3, <3>4
  <2> QED
    BY <1>7, <2>2, <2>3 DEF Activate
<1>8. CASE DeployAndAddRoute(t)
  BY <1>0, <1>8, GotoFacts, JobQuiet DEF DeployAndAddRoute, JobPCs
<1>13. CASE CheckHealth(t)
  BY <1>0, <1>13, JobReturnFacts, JobQuiet DEF CheckHealth, NoJob
<1>9. CASE Cleanup(t)
  BY <1>0, <1>9, GotoFacts, JobQuiet DEF Cleanup, At, PreActive, JobPCs
<1>10. CASE JobSetError(t)
  <2>1. status[t] = "provisioning" /\ t \in ledger /\ lxcId[t] = None
    BY <1>10 DEF JobSetError, At, Owned, JobRows, RamRows, PreActive
  <2>2. /\ job'[t].pc = "release" /\ \A u \in Tenants : u # t => job'[u] = job[u]
        /\ status'[t] \in {"provisioning", "error"}
        /\ \A u \in Tenants : u # t => status'[u] = status[u]
        /\ UNCHANGED <<lxcId, ramVars, req>>
    BY <1>0, <1>10, <2>1, GotoFacts DEF JobSetError, SetError, CAS, JobPCs, TInv, TypeOK
  <2>3. JobRows'
    BY <2>1, <2>2 DEF Owned, JobRows, PreActive
  <2>4. RamRows' /\ Counted'
    BY <2>1, <2>2 DEF Owned, RamRows, Counted, Live
  <2>5. ReqRows' /\ OneEach'
    BY <1>0, <2>1, <2>2, ReqFields DEF Owned, ReqRows, OneEach, Creating, DeleteOwns
  <2> QED
    BY <2>3, <2>4, <2>5
<1>11. CASE JobReleaseRAM(t)
  <2>0. lxcId[t] = None /\ (status[t] = "provisioning" => t \in ledger) /\ status[t] # "absent"
    BY <1>0, <1>11 DEF JobReleaseRAM, At, Owned, JobRows, TInv, JobHasRow
  <2>1. /\ job'[t].pc = "none" /\ \A u \in Tenants : u # t => job'[u] = job[u]
        /\ UNCHANGED <<status, lxcId, req>>
    BY <1>0, <1>11, JobReturnFacts DEF JobReleaseRAM, NoJob
  <2>2. CASE UNCHANGED ramVars
    BY <1>0, <2>1, <2>2, JobQuiet
  <2>3. CASE ReleaseRAM(t)
    <3>1. /\ ledger' = ledger \ {t}
          /\ overReleased' = IF t \in ledger THEN overReleased ELSE overReleased \cup {t}
      BY <2>3 DEF ReleaseRAM
    <3>2. JobRows'
      BY <2>1, <3>1 DEF Owned, JobRows, PreActive
    <3>3. RamRows'
      BY <2>0, <2>1, <3>1 DEF Owned, RamRows, Live
    <3>4. ReqRows' /\ OneEach'
      BY <1>0, <2>0, <2>1, <3>1, ReqFields DEF Owned, ReqRows, OneEach, Creating, DeleteOwns
    <3> QED
      BY <1>0, <2>3, <3>2, <3>3, <3>4, CountRelease DEF Owned
  <2> QED
    BY <1>11, <2>2, <2>3 DEF JobReleaseRAM
<1>12. CASE Expire(t)
  <2>1. /\ job'[t].pc = job[t].pc /\ job'[t].vmid = job[t].vmid
        /\ \A u \in Tenants : u # t => job'[u] = job[u]
        /\ UNCHANGED <<status, lxcId, ramVars, req>>
    BY <1>0, <1>12, ExpireFacts DEF Expire
  <2>2. JobRows'
    BY <2>1 DEF Owned, JobRows
  <2>3. RamRows' /\ ReqRows' /\ OneEach' /\ Counted'
    BY <2>1 DEF Owned, RamRows, ReqRows, OneEach, Counted, Live
  <2> QED
    BY <2>2, <2>3
<1> QED
  BY <1>1, <1>2, <1>3, <1>4, <1>5, <1>6, <1>7, <1>8, <1>9, <1>10, <1>11, <1>12, <1>13
     DEF JobStep, Panic

\* The moves of a request that change neither the row nor the reservation.
QuietMoves == {<<"insert", "unreserve">>, <<"stop", "destroy">>, <<"stop", "setError">>,
               <<"destroy", "release">>, <<"destroy", "setError">>,
               <<"removeRoute", "setDeleted">>, <<"power", "rollback">>}

(* A step of a request that leaves the row and the reservation alone keeps *)
(* the invariant.                                                          *)
LEMMA RequestQuiet ==
    ASSUME Owned, NEW r \in Requests,
           UNCHANGED <<status, lxcId, ramVars, job>>,
           \A q \in Requests : q # r => req'[q] = req[q],
           \/ req'[r] = Idle
           \/ /\ req'[r].tenant = req[r].tenant /\ req'[r].lxc = req[r].lxc
              /\ req'[r].op = req[r].op
              /\ req'[r].pc = req[r].pc \/ <<req[r].pc, req'[r].pc>> \in QuietMoves
    PROVE JobRows' /\ RamRows' /\ ReqRows' /\ OneEach' /\ Counted'
<1> USE DEF ramVars
<1>1. JobRows' /\ RamRows' /\ Counted'
  BY DEF Owned, JobRows, RamRows, Counted, Live
<1>2. ReqRows'
  BY DEF Owned, ReqRows, Idle, QuietMoves, Creating, DeleteOwns
<1>3. OneEach'
  BY DEF Owned, OneEach, Idle, QuietMoves, Creating, DeleteOwns
<1> QED
  BY <1>1, <1>2, <1>3

(* A request that enters Create, Delete, Suspend or Resume keeps the       *)
(* invariant.                                                              *)
LEMMA ArriveOwned ==
    ASSUME Owned, NEW r \in Requests, NEW t \in Tenants,
           CreateReserve(r, t) \/ DeleteBegin(r, t) \/ SuspendBegin(r, t) \/ ResumeBegin(r, t)
    PROVE JobRows' /\ RamRows' /\ ReqRows' /\ OneEach' /\ Counted'
<1> USE DEF rowVars, ramVars, ctVars, jobVars
<1>0. TInv
  BY DEF Owned
<1>1. CASE CreateReserve(r, t)
  <2>1. /\ req'[r].pc = "insert" /\ req'[r].op = "create" /\ req'[r].tenant = t
        /\ \A q \in Requests : q # r => req'[q] = req[q]
        /\ UNCHANGED <<status, lxcId, job>>
        /\ status[t] = "absent" /\ ledger' = ledger \cup {t} /\ overReleased' = overReleased
    BY <1>0, <1>1, EnterFacts DEF CreateReserve, ReserveRAM, ReqPCs
  <2>2. \A q \in Requests : req[q].pc \in Creating => req[q].tenant # t
    BY <1>1 DEF CreateReserve, Owned, ReqRows
  <2>3. JobRows' /\ RamRows'
    BY <2>1 DEF Owned, JobRows, RamRows, Live
  <2>4. ReqRows'
    BY <2>1 DEF Owned, ReqRows, Creating, DeleteOwns
  <2>5. OneEach'
    BY <2>1, <2>2 DEF Owned, OneEach, Creating, DeleteOwns
  <2> QED
    BY <1>0, <1>1, <2>3, <2>4, <2>5, CountReserve DEF CreateReserve, Owned
<1>2. CASE DeleteBegin(r, t) \/ SuspendBegin(r, t) \/ ResumeBegin(r, t)
  <2>1. /\ req'[r].pc \in {"setDeleting", "toggle"} /\ req'[r].tenant = t /\ req'[r].lxc = lxcId[t]
        /\ \A q \in Requests : q # r => req'[q] = req[q]
        /\ UNCHANGED <<status, lxcId, ramVars, job>>
        /\ status[t] \notin {"absent", "provisioning"}
    BY <1>0, <1>2, EnterFacts DEF DeleteBegin, SuspendBegin, ResumeBegin, ReqPCs, Deletable
  <2>2. JobRows' /\ RamRows' /\ Counted'
    BY <2>1 DEF Owned, JobRows, RamRows, Live, Counted
  <2>3. ReqRows'
    BY <2>1 DEF Owned, ReqRows, Creating, DeleteOwns
  <2>4. OneEach'
    BY <2>1 DEF Owned, OneEach, Creating, DeleteOwns
  <2> QED
    BY <2>2, <2>3, <2>4
<1> QED
  BY <1>1, <1>2

(* A request that moves the status of its tenant by compare-and-swap keeps *)
(* the invariant.                                                          *)
LEMMA StatusOwned ==
    ASSUME Owned, NEW r \in Requests, NEW t \in Tenants,
           req[r].tenant = t, req[r].pc \notin Creating \cup {"idle"},
           UNCHANGED <<lxcId, ramVars, job>>,
           \A q \in Requests : q # r => req'[q] = req[q],
           \A u \in Tenants : u # t => status'[u] = status[u],
           \/ /\ status[t] \in Deletable /\ status'[t] = "deleting"
              /\ req'[r].tenant = t /\ req'[r].lxc = req[r].lxc
              /\ req'[r].pc = IF req[r].lxc # None THEN "stop" ELSE "release"
           \/ /\ req[r].pc = "setError" /\ status'[t] = "error" /\ req'[r] = Idle
           \/ /\ req[r].pc = "setDeleted" /\ status'[t] = "deleted" /\ req'[r] = Idle
           \/ /\ t \in Live /\ status'[t] \in {"active", "suspended"}
              /\ \/ req'[r] = Idle
                 \/ /\ req'[r].tenant = t /\ req'[r].lxc = req[r].lxc
                    /\ req'[r].pc = "power"
    PROVE JobRows' /\ RamRows' /\ ReqRows' /\ OneEach' /\ Counted'
<1> USE DEF ramVars
<1>0. TInv
  BY DEF Owned
<1>1. status[t] \notin {"absent", "provisioning"} /\ req[r].lxc = lxcId[t]
  BY DEF Owned, ReqRows
<1>2. JobRows'
  BY <1>1 DEF Owned, JobRows, Live
<1>3. RamRows'
  BY <1>1 DEF Owned, RamRows, ReqRows, Live, Deletable
<1>4. \A q \in Requests : (q # r /\ req[q].tenant = t) => req[q].pc \notin DeleteOwns
  BY DEF Owned, ReqRows, OneEach, DeleteOwns, Deletable, Live
<1>5. ReqRows'
  <2>1. ASSUME NEW q \in Requests, q # r PROVE ReqRows!(q)'
    BY <1>0, <1>1, <1>4, <2>1, ReqFields DEF Owned, ReqRows, Creating, DeleteOwns
  <2>2. ReqRows!(r)'
    BY <1>1 DEF Owned, ReqRows, RamRows, Creating, DeleteOwns, Idle, Deletable
  <2> QED
    BY <2>1, <2>2 DEF ReqRows
<1>6. OneEach'
  BY <1>4 DEF Owned, OneEach, Creating, DeleteOwns, Idle
<1>7. Counted'
  BY DEF Owned, Counted
<1> QED
  BY <1>2, <1>3, <1>5, <1>6, <1>7

(* Inserting the row and starting Provision keeps the invariant.           *)
LEMMA InsertOwned ==
    ASSUME Owned, NEW r \in Requests, CreateInsert(r)
    PROVE JobRows' /\ RamRows' /\ ReqRows' /\ OneEach' /\ Counted'
<1> USE DEF rowVars, ramVars, ctVars, jobVars
<1> DEFINE t == req[r].tenant
<1>0. TInv /\ t \in Tenants /\ req[r].pc = "insert"
  BY ReqFields DEF Owned, CreateInsert, ReqAt
<1>1. CASE ReqGoto(r, "unreserve") /\ UNCHANGED <<jobVars, rowVars>>
  BY <1>0, <1>1, ReqGotoFacts, RequestQuiet DEF CreateInsert, QuietMoves, ReqPCs
<1>2. CASE InsertRow(t) /\ Provision(t) /\ Respond(r)
  <2> HIDE DEF t
  <2>1. /\ req'[r] = Idle /\ \A q \in Requests : q # r => req'[q] = req[q]
        /\ status[t] = "absent" /\ status'[t] = "provisioning"
        /\ \A u \in Tenants : u # t => status'[u] = status[u]
        /\ job'[t].pc = "queued" /\ \A u \in Tenants : u # t => job'[u] = job[u]
        /\ UNCHANGED <<lxcId, ramVars>>
    BY <1>0, <1>2, RespondFacts, ProvisionFacts, GotoFacts
       DEF CreateInsert, InsertRow, TInv, TypeOK, JobPCs
  <2>2. t \in ledger
    BY <1>0 DEF Owned, ReqRows, Creating, t
  <2>3. \A q \in Requests : (q # r /\ req[q].tenant = t) => req[q].pc = "idle"
    BY <1>0, <2>1 DEF Owned, ReqRows, OneEach, Creating, t
  <2>4. JobRows'
    BY <2>1, <2>2 DEF Owned, JobRows, PreActive
  <2>5. RamRows' /\ Counted'
    BY <2>1 DEF Owned, RamRows, Counted, Live, Deletable
  <2>6. ReqRows'
    BY <1>0, <2>1, <2>3, ReqFields DEF Owned, ReqRows, Creating, DeleteOwns, Idle
  <2>7. OneEach'
    BY <2>1 DEF Owned, OneEach, Creating, DeleteOwns, Idle
  <2> QED
    BY <2>4, <2>5, <2>6, <2>7
<1> QED
  BY <1>1, <1>2 DEF CreateInsert

(* Giving back a reservation, of a create that failed or of a delete,      *)
(* keeps the invariant.                                                    *)
LEMMA ReleaseOwned ==
    ASSUME Owned, NEW r \in Requests, NEW t \in Tenants, req[r].tenant = t,
           UNCHANGED <<status, lxcId, job>>, ReleaseRAM(t),
           \A q \in Requests : q # r => req'[q] = req[q],
           \/ req[r].pc = "unreserve" /\ req'[r] = Idle
           \/ /\ req[r].pc = "release" /\ req'[r].tenant = t /\ req'[r].lxc = req[r].lxc
              /\ req'[r].pc = IF req[r].lxc # None THEN "removeRoute" ELSE "setDeleted"
    PROVE JobRows' /\ RamRows' /\ ReqRows' /\ OneEach' /\ Counted'
<1>0. TInv
  BY DEF Owned
<1>1. /\ ledger' = ledger \ {t}
      /\ overReleased' = IF t \in ledger THEN overReleased ELSE overReleased \cup {t}
  BY DEF ReleaseRAM
<1>2. \/ status[t] = "absent" /\ t \in ledger
      \/ status[t] = "deleting" /\ req[r].lxc = lxcId[t] /\ (lxcId[t] # None => t \in ledger)
  BY DEF Owned, ReqRows, Creating, DeleteOwns
<1>3. JobRows'
  BY <1>0, <1>1, <1>2 DEF Owned, JobRows, PreActive, TInv, JobHasRow
<1>4. RamRows'
  BY <1>1, <1>2 DEF Owned, RamRows, Live, Deletable
<1>5. \A q \in Requests : (q # r /\ req[q].tenant = t) =>
          req[q].pc \notin DeleteOwns /\ (status[t] = "absent" => req[q].pc = "idle")
                                       /\ (status[t] = "deleting" => req[q].pc \notin Creating)
  BY DEF Owned, ReqRows, OneEach, Creating, DeleteOwns
<1>6. ReqRows'
  BY <1>0, <1>1, <1>2, <1>5, ReqFields DEF Owned, ReqRows, Creating, DeleteOwns, Idle
<1>7. OneEach'
  BY DEF Owned, OneEach, Creating, DeleteOwns, Idle
<1> QED
  BY <1>0, <1>3, <1>4, <1>6, <1>7, CountRelease DEF Owned

(* Every step of a request keeps the invariant.                            *)
LEMMA RequestOwned ==
    ASSUME Owned, NEW r \in Requests, RequestStep(r) \/ Cancel(r)
    PROVE JobRows' /\ RamRows' /\ ReqRows' /\ OneEach' /\ Counted'
<1> USE DEF rowVars, ramVars, ctVars, jobVars
<1> DEFINE t == req[r].tenant
<1>0. TInv /\ (req[r].pc # "idle" => t \in Tenants)
  BY ReqFields DEF Owned
<1>1. CASE CreateInsert(r)
  BY <1>1, InsertOwned
<1>2. CASE CreateUnreserve(r)
  <2>1. req[r].pc = "unreserve" /\ UNCHANGED <<status, lxcId, job>> /\ Respond(r)
    BY <1>2 DEF CreateUnreserve, ReqAt
  <2>2. CASE UNCHANGED ramVars
    BY <1>0, <2>1, <2>2, RespondFacts, RequestQuiet
  <2>3. CASE ReleaseRAM(t)
    BY <1>0, <2>1, <2>3, RespondFacts, ReleaseOwned
  <2> QED
    BY <1>2, <2>2, <2>3 DEF CreateUnreserve
<1>3. CASE DeleteSetDeleting(r)
  <2>1. CASE Respond(r) /\ UNCHANGED rowVars
    BY <1>0, <1>3, <2>1, RespondFacts, RequestQuiet DEF DeleteSetDeleting
  <2>2. CASE SetDeleting(t) /\ ReqGoto(r, IF req[r].lxc # None THEN "stop" ELSE "release")
    BY <1>0, <1>3, <2>2, ReqGotoFacts, StatusOwned
       DEF DeleteSetDeleting, ReqAt, ReqPCs, Creating, SetDeleting, CAS, TInv, TypeOK
  <2> QED
    BY <1>3, <2>1, <2>2 DEF DeleteSetDeleting
<1>4. CASE DeleteStop(r)
  BY <1>0, <1>4, ReqGotoFacts, RequestQuiet DEF DeleteStop, ReqAt, ReqPCs, QuietMoves
<1>5. CASE DeleteDestroy(r)
  BY <1>0, <1>5, ReqGotoFacts, RequestQuiet DEF DeleteDestroy, ReqAt, ReqPCs, QuietMoves
<1>6. CASE DeleteSetError(r)
  <2>1. CASE UNCHANGED rowVars
    BY <1>0, <1>6, <2>1, RespondFacts, RequestQuiet DEF DeleteSetError
  <2>2. CASE SetError(t)
    BY <1>0, <1>6, <2>2, RespondFacts, StatusOwned
       DEF DeleteSetError, ReqAt, Creating, SetError, CAS, TInv, TypeOK
  <2> QED
    BY <1>6, <2>1, <2>2 DEF DeleteSetError
<1>7. CASE DeleteReleaseRAM(r)
  <2>1. /\ req[r].pc = "release" /\ UNCHANGED <<status, lxcId, job>>
        /\ req'[r].tenant = t /\ req'[r].lxc = req[r].lxc
        /\ req'[r].pc = IF req[r].lxc # None THEN "removeRoute" ELSE "setDeleted"
        /\ \A q \in Requests : q # r => req'[q] = req[q]
    BY <1>0, <1>7, ReqGotoFacts DEF DeleteReleaseRAM, ReqAt, ReqPCs
  <2>2. CASE UNCHANGED ramVars
    <3>1. JobRows' /\ RamRows' /\ Counted'
      BY <2>1, <2>2 DEF Owned, JobRows, RamRows, Counted, Live
    <3>2. ReqRows'
      BY <2>1, <2>2 DEF Owned, ReqRows, Creating, DeleteOwns
    <3>3. OneEach'
      BY <2>1 DEF Owned, OneEach, Creating, DeleteOwns
    <3> QED
      BY <3>1, <3>2, <3>3
  <2>3. CASE ReleaseRAM(t)
    BY <1>0, <2>1, <2>3, ReleaseOwned
  <2> QED
    BY <1>7, <2>2, <2>3 DEF DeleteReleaseRAM
<1>8. CASE DeleteRemoveRoute(r)
  BY <1>0, <1>8, ReqGotoFacts, RequestQuiet DEF DeleteRemoveRoute, ReqAt, ReqPCs, QuietMoves
<1>9. CASE DeleteSetDeleted(r)
  <2>1. CASE UNCHANGED rowVars
    BY <1>0, <1>9, <2>1, RespondFacts, RequestQuiet DEF DeleteSetDeleted
  <2>2. CASE SetDeleted(t)
    BY <1>0, <1>9, <2>2, RespondFacts, StatusOwned
       DEF DeleteSetDeleted, ReqAt, Creating, SetDeleted, CAS, TInv, TypeOK
  <2> QED
    BY <1>9, <2>1, <2>2 DEF DeleteSetDeleted
<1>10. CASE ToggleStatus(r)
  <2>1. CASE Respond(r) /\ UNCHANGED rowVars
    BY <1>0, <1>10, <2>1, RespondFacts, RequestQuiet DEF ToggleStatus
  <2>2. CASE Forward(r) /\ ReqGoto(r, "power")
    BY <1>0, <1>10, <2>2, ReqGotoFacts, StatusOwned
       DEF ToggleStatus, ReqAt, ReqPCs, Creating, Forward, SetSuspended, SetResumed, CAS, TInv, TypeOK, Live
  <2> QED
    BY <1>10, <2>1, <2>2 DEF ToggleStatus
<1>11. CASE TogglePower(r)
  BY <1>0, <1>11, RespondFacts, ReqGotoFacts, RequestQuiet DEF TogglePower, ReqAt, ReqPCs, QuietMoves
<1>12. CASE ToggleRollback(r)
  <2>1. CASE UNCHANGED rowVars
    BY <1>0, <1>12, <2>1, RespondFacts, RequestQuiet DEF ToggleRollback
  <2>2. CASE Backward(r)
    BY <1>0, <1>12, <2>2, RespondFacts, StatusOwned
       DEF ToggleRollback, ReqAt, Creating, Backward, SetSuspended, SetResumed, CAS, TInv, TypeOK, Live
  <2> QED
    BY <1>12, <2>1, <2>2 DEF ToggleRollback
<1>13. CASE Cancel(r)
  <2>1. /\ req'[r].tenant = req[r].tenant /\ req'[r].lxc = req[r].lxc
        /\ req'[r].op = req[r].op /\ req'[r].pc = req[r].pc
        /\ \A q \in Requests : q # r => req'[q] = req[q]
    BY <1>0, <1>13, CancelFacts
  <2> QED
    BY <1>13, <2>1, RequestQuiet DEF Cancel
<1> QED
  BY <1>1, <1>2, <1>3, <1>4, <1>5, <1>6, <1>7, <1>8, <1>9, <1>10, <1>11, <1>12, <1>13
     DEF RequestStep

(* The invariant is inductive when no goroutine panics.                    *)
LEMMA NextOwned ==
    ASSUME "panic" \notin Faults
    PROVE Owned /\ [Next]_vars => Owned'
<1> SUFFICES ASSUME Owned, [Next]_vars
             PROVE JobRows' /\ RamRows' /\ ReqRows' /\ OneEach' /\ Counted'
  BY NextTInv DEF Owned
<1>1. CASE \E t \in Tenants : JobStep(t) \/ Expire(t) \/ Panic(t)
  BY <1>1, JobOwned
<1>2. CASE \E r \in Requests : Arrive(r) \/ RequestStep(r) \/ Cancel(r)
  BY <1>2, ArriveOwned, RequestOwned DEF Arrive
<1>3. CASE UNCHANGED <<status, lxcId, ramVars, job, req>>
  BY <1>3 DEF Owned, JobRows, RamRows, ReqRows, OneEach, Counted, Live, ramVars
<1>4. CASE Crash
  <2> USE <1>4 DEF Crash, rowVars, ramVars
  <2>1. JobRows' /\ RamRows' /\ Counted'
    BY DEF Owned, JobRows, RamRows, Counted, Live, NoJob, PreActive
  <2>2. ReqRows' /\ OneEach'
    BY DEF ReqRows, OneEach, Idle, Creating, DeleteOwns
  <2> QED
    BY <2>1, <2>2
<1> QED
  BY <1>1, <1>2, <1>3, <1>4 DEF Next, Work, AtRest, UpdateNode, vars, rowVars, jobVars, ramVars

(* The invariant holds throughout when no goroutine panics.                *)
LEMMA OwnedCorrect ==
    ASSUME "panic" \notin Faults
    PROVE Spec => []Owned
  BY InitOwned, NextOwned, PTL DEF Spec

(* The compare-and-swap of SetDeleting does what its comment promises, for *)
(* any number of tenants, requests and jobs, through failures, timeouts,   *)
(* cancelled requests and restarts: two requests never deprovision the     *)
(* same tenant at the same time.  A panicking goroutine is excluded: its   *)
(* recover runs SetError, which takes a tenant out of 'deleting'.          *)
THEOREM TeardownCorrect ==
    ASSUME "panic" \notin Faults
    PROVE Spec => []UniqueDeleter
<1>1. Owned => UniqueDeleter
  BY DEF Owned, ReqRows, OneEach, UniqueDeleter, Deleting
<1> QED
  BY <1>1, OwnedCorrect, PTL

(* Over all retries the reservation of a tenant that ever had a container  *)
(* is released at most once.                                               *)
THEOREM ReleasedOnceCorrect ==
    ASSUME "panic" \notin Faults
    PROVE Spec => []ContainerRamReleasedOnce
<1>1. Owned => ContainerRamReleasedOnce
  BY DEF Owned, RamRows, ContainerRamReleasedOnce, TInv, TypeOK
<1> QED
  BY <1>1, OwnedCorrect, PTL

(* Arithmetic for comparing RAM totals.                                    *)
LEMMA TimesMonotone == \A m, a, b \in Nat : a <= b => m * a <= m * b
  OBVIOUS

(* As long as no failed create is released twice, allocated_ram_mb covers  *)
(* the RAM of every live tenant.                                           *)
THEOREM LiveAccountedCorrect ==
    ASSUME "panic" \notin Faults
    PROVE Spec => []LiveAccountedUnlessOverReleased
<1>1. Owned => LiveAccountedUnlessOverReleased
  <2> SUFFICES ASSUME Owned, overReleased = {} PROVE RamMB * Cardinality(Live) <= allocatedRam
    BY DEF LiveAccountedUnlessOverReleased
  <2>1. Live \subseteq ledger /\ ledger \subseteq Tenants
    BY DEF Owned, RamRows, Live, Deletable, TInv, TypeOK
  <2>2. /\ Cardinality(Live) \in Nat /\ Cardinality(ledger) \in Nat
        /\ Cardinality(Live) <= Cardinality(ledger)
    BY <2>1, FS_Subset, FS_CardinalityType
  <2>3. RamMB * Cardinality(Live) <= RamMB * Cardinality(ledger)
    BY <2>2, TimesMonotone
  <2>4. RamMB * Cardinality(ledger) <= allocatedRam /\ allocatedRam \in Nat
    BY DEF Owned, Counted, TInv, TypeOK
  <2>5. RamMB * Cardinality(Live) \in Nat /\ RamMB * Cardinality(ledger) \in Nat
    BY <2>2
  <2> QED
    BY <2>3, <2>4, <2>5
<1> QED
  BY <1>1, OwnedCorrect, PTL

-----------------------------------------------------------------------------
(***************************************************************************)
(* Containers.  Why the container behind a live tenant is its own although *)
(* Proxmox ids are handed out without being reserved and are reused after  *)
(* a delete.  Containers says who owns the container a job, a row or a     *)
(* delete is about to touch; it rests on Owned.                            *)
(***************************************************************************)

\* A job at one of these points has cloned its container.
HasContainer == {"network", "configure", "start", "activate", "cleanup"}

\* A container that exists was cloned for someone.
Proxmox == \A v \in VMIDs : ctState[v] = "absent" <=> ctOwner[v] = None

\* From its clone to SetActive a job works on the container of its tenant.
JobContainers == \A t \in Tenants :
    job[t].pc \in HasContainer => ctOwner[job[t].vmid] = t

\* A row that names a container, and is not being deleted, names its own.
RowContainers == \A t \in Tenants :
    status[t] \in Deletable /\ lxcId[t] # None => ctOwner[lxcId[t]] = t

\* A delete stops and destroys the container of its tenant.
ReqContainers == \A r \in Requests :
    req[r].pc \in {"stop", "destroy", "setError"} => ctOwner[req[r].lxc] = req[r].tenant

Containers == Proxmox /\ JobContainers /\ RowContainers /\ ReqContainers

(* No container exists when the control plane starts.                      *)
LEMMA InitContainers == Init => Containers
  BY DEF Init, StoresInit, ProvisionerInit, RequestsInit, NoJob, Idle, Containers,
         Proxmox, JobContainers, RowContainers, ReqContainers, HasContainer

(* A provision goroutine clones, starts, hands over and cleans up only a   *)
(* container of its own tenant.                                            *)
LEMMA JobContainersStep ==
    ASSUME Owned, Containers, "panic" \notin Faults, "late" \notin Faults,
           NEW t \in Tenants, JobStep(t) \/ Expire(t) \/ Panic(t)
    PROVE Containers'
<1> USE DEF rowVars, ramVars, ctVars, jobVars
<1>0. TInv
  BY DEF Owned
<1>a. ASSUME UNCHANGED <<ctVars, status, lxcId, req>>,
             \A u \in Tenants : u # t => job'[u] = job[u],
             job'[t].pc \in HasContainer =>
                job[t].pc \in HasContainer /\ job'[t].vmid = job[t].vmid
      PROVE Containers'
  BY <1>a DEF Containers, Proxmox, JobContainers, RowContainers, ReqContainers
<1>1. CASE AcquireSlot(t)
  BY <1>0, <1>1, <1>a, AcquireFacts DEF AcquireSlot, HasContainer
<1>2. CASE LookupAndGetNextID(t)
  BY <1>0, <1>2, <1>a, LookupFacts DEF LookupAndGetNextID, HasContainer
<1>3. CASE Clone(t)
  <2>1. CASE Goto(t, "setError") /\ UNCHANGED ctVars
    BY <1>0, <1>3, <2>1, <1>a, GotoFacts DEF Clone, HasContainer, JobPCs
  <2>2. CASE CloneContainer(job[t].vmid, t) /\ Goto(t, "network")
    <3>1. /\ job'[t].pc = "network" /\ job'[t].vmid = job[t].vmid
          /\ \A u \in Tenants : u # t => job'[u] = job[u]
          /\ UNCHANGED <<status, lxcId, req>>
          /\ job[t].vmid \in VMIDs /\ ctOwner[job[t].vmid] = None
      BY <1>0, <1>3, <2>2, GotoFacts
         DEF Clone, At, JobPCs, Owned, JobRows, Containers, Proxmox, CloneContainer
    <3>2. /\ ctOwner'[job[t].vmid] = t /\ ctState'[job[t].vmid] = "stopped"
          /\ \A v \in VMIDs : v # job[t].vmid => ctOwner'[v] = ctOwner[v] /\ ctState'[v] = ctState[v]
      BY <1>0, <2>2, <3>1 DEF CloneContainer, TInv, TypeOK
    <3>3. Proxmox'
      BY <3>1, <3>2 DEF Containers, Proxmox
    <3>4. JobContainers'
      BY <1>0, <3>1, <3>2, JobFields DEF Containers, JobContainers, Owned, JobRows, HasContainer
    <3>5. RowContainers'
      BY <1>0, <3>1, <3>2 DEF Containers, RowContainers, TInv, TypeOK
    <3>6. ReqContainers'
      BY <1>0, <3>1, <3>2, ReqFields DEF Containers, ReqContainers, Owned, ReqRows
    <3> QED
      BY <3>3, <3>4, <3>5, <3>6 DEF Containers
  <2> QED
    BY <1>3, <2>1, <2>2 DEF Clone
<1>4. CASE AllocateIP(t)
  BY <1>0, <1>4, <1>a, AllocateFacts DEF AllocateIP, At, HasContainer
<1>5. CASE ConfigureNetwork(t)
  BY <1>0, <1>5, <1>a, GotoFacts DEF ConfigureNetwork, SetLXCIP, At, HasContainer, JobPCs
<1>6. CASE MountAndStart(t)
  <2>1. /\ job'[t].pc \in HasContainer /\ job'[t].vmid = job[t].vmid /\ job[t].pc \in HasContainer
        /\ \A u \in Tenants : u # t => job'[u] = job[u]
        /\ UNCHANGED <<ctOwner, status, lxcId, req>>
    BY <1>0, <1>6, GotoFacts DEF MountAndStart, StartContainer, At, HasContainer, JobPCs
  <2>2. Proxmox'
    BY <1>0, <1>6, <2>1 DEF MountAndStart, StartContainer, Containers, Proxmox, TInv, TypeOK
  <2> QED
    BY <2>1, <2>2 DEF Containers, JobContainers, RowContainers, ReqContainers
<1>7. CASE Activate(t)
  <2>1. CASE Goto(t, "cleanup") /\ UNCHANGED rowVars
    BY <1>0, <1>7, <2>1, <1>a, GotoFacts DEF Activate, At, HasContainer, JobPCs
  <2>2. CASE SetActive(t, job[t].vmid) /\ Goto(t, "addRoute")
    <3>1. /\ job'[t].pc = "addRoute" /\ \A u \in Tenants : u # t => job'[u] = job[u]
          /\ \A u \in Tenants : u # t => status'[u] = status[u] /\ lxcId'[u] = lxcId[u]
          /\ lxcId'[t] = job[t].vmid /\ ctOwner[job[t].vmid] = t
          /\ UNCHANGED <<ctVars, req>>
      BY <1>0, <1>7, <2>2, GotoFacts
         DEF Activate, At, SetActive, CAS, JobPCs, HasContainer, TInv, TypeOK, Containers, JobContainers
    <3> QED
      BY <3>1 DEF Containers, Proxmox, JobContainers, RowContainers, ReqContainers, HasContainer
  <2> QED
    BY <1>7, <2>1, <2>2 DEF Activate
<1>8. CASE DeployAndAddRoute(t)
  BY <1>0, <1>8, <1>a, GotoFacts DEF DeployAndAddRoute, HasContainer, JobPCs
<1>13. CASE CheckHealth(t)
  BY <1>0, <1>13, <1>a, JobReturnFacts DEF CheckHealth, NoJob, HasContainer
<1>9. CASE Cleanup(t)
  <2>1. CASE UNCHANGED ctVars
    BY <1>0, <1>9, <2>1, <1>a, GotoFacts DEF Cleanup, HasContainer, JobPCs
  <2>2. CASE DeleteContainer(job[t].vmid)
    <3> DEFINE w == job[t].vmid
    <3>1. /\ job'[t].pc = "setError" /\ \A u \in Tenants : u # t => job'[u] = job[u]
          /\ UNCHANGED <<status, lxcId, req>>
          /\ w \in VMIDs /\ ctOwner[w] = t /\ status[t] = "provisioning"
      BY <1>0, <1>9, GotoFacts
         DEF Cleanup, At, JobPCs, HasContainer, PreActive, Owned, JobRows, Containers, JobContainers
    <3>2. /\ ctOwner'[w] = None /\ ctState'[w] = "absent"
          /\ \A v \in VMIDs : v # w => ctOwner'[v] = ctOwner[v] /\ ctState'[v] = ctState[v]
      BY <1>0, <2>2, <3>1 DEF DeleteContainer, TInv, TypeOK
    <3> HIDE DEF w
    <3>3. Proxmox'
      BY <3>1, <3>2 DEF Containers, Proxmox
    <3>4. JobContainers'
      BY <3>1, <3>2 DEF Containers, JobContainers, Owned, JobRows, HasContainer
    <3>5. RowContainers'
      BY <1>0, <3>1, <3>2 DEF Containers, RowContainers, TInv, TypeOK, Deletable
    <3>6. ReqContainers'
      BY <1>0, <3>1, <3>2, ReqFields DEF Containers, ReqContainers, Owned, ReqRows, DeleteOwns
    <3> QED
      BY <3>3, <3>4, <3>5, <3>6 DEF Containers
  <2> QED
    BY <1>9, <2>1, <2>2 DEF Cleanup
<1>10. CASE JobSetError(t)
  <2>1. /\ job'[t].pc = "release" /\ \A u \in Tenants : u # t => job'[u] = job[u] /\ status'[u] = status[u]
        /\ UNCHANGED <<ctVars, lxcId, req>> /\ lxcId[t] = None
    BY <1>0, <1>10, GotoFacts
       DEF JobSetError, At, SetError, CAS, JobPCs, TInv, TypeOK, Owned, JobRows, RamRows, PreActive
  <2> QED
    BY <2>1 DEF Containers, Proxmox, JobContainers, RowContainers, ReqContainers, HasContainer
<1>11. CASE JobReleaseRAM(t)
  BY <1>0, <1>11, <1>a, JobReturnFacts DEF JobReleaseRAM, NoJob, HasContainer
<1>12. CASE Expire(t)
  BY <1>0, <1>12, <1>a, ExpireFacts DEF Expire
<1> QED
  BY <1>1, <1>2, <1>3, <1>4, <1>5, <1>6, <1>7, <1>8, <1>9, <1>10, <1>11, <1>12, <1>13
     DEF JobStep, Panic

(* A delete, suspend or resume keeps who owns which container.             *)
LEMMA RequestContainersStep ==
    ASSUME Owned, Containers, "late" \notin Faults,
           NEW r \in Requests, Arrive(r) \/ RequestStep(r) \/ Cancel(r)
    PROVE Containers'
<1> USE DEF rowVars, ramVars, ctVars, jobVars
<1> DEFINE t == req[r].tenant
           Touching == {"stop", "destroy", "setError"}
<1>0. TInv /\ (req[r].pc # "idle" => t \in Tenants)
  BY ReqFields DEF Owned
\* Nothing but the request changes.
<1>a. ASSUME UNCHANGED <<ctVars, status, lxcId, job>>,
             \A q \in Requests : q # r => req'[q] = req[q],
             req'[r].pc \in Touching =>
                /\ req[r].pc \in Touching
                /\ req'[r].tenant = req[r].tenant /\ req'[r].lxc = req[r].lxc
      PROVE Containers'
  BY <1>a DEF Containers, Proxmox, JobContainers, RowContainers, ReqContainers
\* The status of the tenant moves between statuses in which it is left alone.
<1>b. ASSUME UNCHANGED <<ctVars, lxcId, job>>, t \in Tenants,
             \A q \in Requests : q # r => req'[q] = req[q],
             \A u \in Tenants : u # t => status'[u] = status[u],
             req'[r].pc \notin Touching,
             status'[t] \in Deletable /\ lxcId[t] # None => ctOwner[lxcId[t]] = t
      PROVE Containers'
  BY <1>b DEF Containers, Proxmox, JobContainers, RowContainers, ReqContainers
\* A container is started or stopped.
<1>c. ASSUME NEW v, StartContainer(v) \/ StopContainer(v) \/ UNCHANGED ctVars,
             UNCHANGED <<status, lxcId, job>>,
             \A q \in Requests : q # r => req'[q] = req[q],
             req'[r].pc \in Touching =>
                /\ req[r].pc \in Touching
                /\ req'[r].tenant = req[r].tenant /\ req'[r].lxc = req[r].lxc
      PROVE Containers'
  <2>1. ctOwner' = ctOwner
    BY <1>c DEF StartContainer, StopContainer
  <2>2. Proxmox'
    BY <1>0, <1>c, <2>1 DEF StartContainer, StopContainer, Containers, Proxmox, TInv, TypeOK
  <2> QED
    BY <1>c, <2>1, <2>2 DEF Containers, JobContainers, RowContainers, ReqContainers
<1>1. CASE Arrive(r)
  <2> PICK u \in Tenants : CreateReserve(r, u) \/ DeleteBegin(r, u) \/ SuspendBegin(r, u) \/ ResumeBegin(r, u)
    BY <1>1 DEF Arrive
  <2>1. /\ req'[r].pc \in {"insert", "setDeleting", "toggle"}
        /\ \A q \in Requests : q # r => req'[q] = req[q]
        /\ UNCHANGED <<ctVars, status, lxcId, job>>
    BY <1>0, EnterFacts DEF CreateReserve, DeleteBegin, SuspendBegin, ResumeBegin, ReqPCs
  <2> QED
    BY <2>1, <1>a
<1>2. CASE CreateInsert(r)
  <2>1. CASE ReqGoto(r, "unreserve") /\ UNCHANGED <<jobVars, rowVars>>
    BY <1>0, <1>2, <2>1, <1>a, ReqGotoFacts DEF CreateInsert, ReqPCs
  <2>2. CASE InsertRow(t) /\ Provision(t) /\ Respond(r)
    <3> HIDE DEF t
    <3>1. t \in Tenants
      BY <1>0, <1>2 DEF CreateInsert, ReqAt
    <3>2. /\ req'[r] = Idle /\ \A q \in Requests : q # r => req'[q] = req[q]
          /\ \A u \in Tenants : u # t => status'[u] = status[u] /\ job'[u] = job[u]
          /\ status'[t] = "provisioning" /\ job'[t].pc = "queued"
          /\ UNCHANGED <<ctVars, lxcId>>
      BY <1>0, <1>2, <2>2, <3>1, RespondFacts, ProvisionFacts, GotoFacts
         DEF CreateInsert, InsertRow, JobPCs, TInv, TypeOK
    <3> QED
      BY <3>2 DEF Containers, Proxmox, JobContainers, RowContainers, ReqContainers,
                  HasContainer, Deletable, Idle
  <2> QED
    BY <1>2, <2>1, <2>2 DEF CreateInsert
<1>3. CASE CreateUnreserve(r)
  BY <1>0, <1>3, <1>a, RespondFacts DEF CreateUnreserve, Idle
<1>4. CASE DeleteSetDeleting(r)
  <2>1. CASE Respond(r) /\ UNCHANGED rowVars
    BY <1>0, <1>4, <2>1, <1>a, RespondFacts DEF DeleteSetDeleting, Idle
  <2>2. CASE SetDeleting(t) /\ ReqGoto(r, IF req[r].lxc # None THEN "stop" ELSE "release")
    <3>1. /\ req'[r].tenant = t /\ req'[r].lxc = lxcId[t]
          /\ req'[r].pc \in Touching => lxcId[t] # None
          /\ \A q \in Requests : q # r => req'[q] = req[q]
          /\ UNCHANGED <<ctVars, lxcId, job>>
          /\ t \in Tenants /\ status[t] \in Deletable /\ status'[t] = "deleting"
          /\ \A u \in Tenants : u # t => status'[u] = status[u]
      BY <1>0, <1>4, <2>2, ReqGotoFacts
         DEF DeleteSetDeleting, ReqAt, ReqPCs, SetDeleting, CAS, TInv, TypeOK, Owned, ReqRows, Creating
    <3> QED
      BY <3>1 DEF Containers, Proxmox, JobContainers, RowContainers, ReqContainers, Deletable
  <2> QED
    BY <1>4, <2>1, <2>2 DEF DeleteSetDeleting
<1>5. CASE DeleteStop(r)
  BY <1>0, <1>5, <1>c, ReqGotoFacts DEF DeleteStop, ReqAt, ReqPCs
<1>6. CASE DeleteDestroy(r)
  <2>1. CASE UNCHANGED ctVars
    BY <1>0, <1>6, <2>1, <1>a, ReqGotoFacts DEF DeleteDestroy, ReqAt, ReqPCs
  <2>2. CASE DeleteContainer(req[r].lxc) /\ ReqGoto(r, "release")
    <3> DEFINE w == req[r].lxc
    <3>1. /\ req'[r].pc = "release" /\ \A q \in Requests : q # r => req'[q] = req[q]
          /\ UNCHANGED <<status, lxcId, job>>
          /\ t \in Tenants /\ w \in VMIDs /\ ctOwner[w] = t /\ status[t] = "deleting"
          /\ \A q \in Requests : req[q].pc \in Touching /\ q # r => req[q].tenant # t
      BY <1>0, <1>6, <2>2, ReqGotoFacts, ReqFields
         DEF DeleteDestroy, ReqAt, ReqPCs, Owned, ReqRows, OneEach, DeleteOwns, Containers, ReqContainers
    <3>2. /\ ctOwner'[w] = None /\ ctState'[w] = "absent"
          /\ \A v \in VMIDs : v # w => ctOwner'[v] = ctOwner[v] /\ ctState'[v] = ctState[v]
      BY <1>0, <2>2, <3>1 DEF DeleteContainer, TInv, TypeOK
    <3> HIDE DEF w, t
    <3>3. Proxmox'
      BY <3>1, <3>2 DEF Containers, Proxmox
    <3>4. JobContainers'
      BY <3>1, <3>2 DEF Containers, JobContainers, Owned, JobRows, HasContainer, PreActive
    <3>5. RowContainers'
      BY <1>0, <3>1, <3>2 DEF Containers, RowContainers, TInv, TypeOK, Deletable
    <3>6. ReqContainers'
      BY <1>0, <3>1, <3>2, ReqFields DEF Containers, ReqContainers, Owned, ReqRows
    <3> QED
      BY <3>3, <3>4, <3>5, <3>6 DEF Containers
  <2> QED
    BY <1>6, <2>1, <2>2 DEF DeleteDestroy
<1>7. CASE DeleteSetError(r)
  <2>1. CASE UNCHANGED rowVars
    BY <1>0, <1>7, <2>1, <1>a, RespondFacts DEF DeleteSetError, Idle
  <2>2. CASE SetError(t)
    <3>1. lxcId[t] # None => ctOwner[lxcId[t]] = t
      BY <1>7 DEF DeleteSetError, ReqAt, Owned, ReqRows, Creating, Containers, ReqContainers
    <3> QED
      BY <1>0, <1>7, <2>2, <3>1, <1>b, RespondFacts
         DEF DeleteSetError, ReqAt, Idle, SetError, CAS, TInv, TypeOK
  <2> QED
    BY <1>7, <2>1, <2>2 DEF DeleteSetError
<1>8. CASE DeleteReleaseRAM(r)
  BY <1>0, <1>8, <1>a, ReqGotoFacts DEF DeleteReleaseRAM, ReqPCs
<1>9. CASE DeleteRemoveRoute(r)
  BY <1>0, <1>9, <1>a, ReqGotoFacts DEF DeleteRemoveRoute, ReqPCs
<1>10. CASE DeleteSetDeleted(r)
  <2>1. CASE UNCHANGED rowVars
    BY <1>0, <1>10, <2>1, <1>a, RespondFacts DEF DeleteSetDeleted, Idle
  <2>2. CASE SetDeleted(t)
    BY <1>0, <1>10, <2>2, <1>b, RespondFacts
       DEF DeleteSetDeleted, ReqAt, Idle, SetDeleted, CAS, TInv, TypeOK, Deletable
  <2> QED
    BY <1>10, <2>1, <2>2 DEF DeleteSetDeleted
<1>11. CASE ToggleStatus(r)
  <2>1. CASE Respond(r) /\ UNCHANGED rowVars
    BY <1>0, <1>11, <2>1, <1>a, RespondFacts DEF ToggleStatus, Idle
  <2>2. CASE Forward(r) /\ ReqGoto(r, "power")
    BY <1>0, <1>11, <2>2, <1>b, ReqGotoFacts
       DEF ToggleStatus, ReqAt, ReqPCs, Forward, SetSuspended, SetResumed, CAS, TInv, TypeOK,
           Deletable, Containers, RowContainers
  <2> QED
    BY <1>11, <2>1, <2>2 DEF ToggleStatus
<1>12. CASE TogglePower(r)
  <2>1. StartContainer(req[r].lxc) \/ StopContainer(req[r].lxc) \/ UNCHANGED ctVars
    BY <1>12 DEF TogglePower, PowerCall
  <2> QED
    BY <1>0, <1>12, <2>1, <1>c, RespondFacts, ReqGotoFacts DEF TogglePower, Idle, ReqPCs
<1>13. CASE ToggleRollback(r)
  <2>1. CASE UNCHANGED rowVars
    BY <1>0, <1>13, <2>1, <1>a, RespondFacts DEF ToggleRollback, Idle
  <2>2. CASE Backward(r)
    BY <1>0, <1>13, <2>2, <1>b, RespondFacts
       DEF ToggleRollback, ReqAt, Idle, Backward, SetSuspended, SetResumed, CAS, TInv, TypeOK,
           Deletable, Containers, RowContainers
  <2> QED
    BY <1>13, <2>1, <2>2 DEF ToggleRollback
<1>14. CASE Cancel(r)
  BY <1>0, <1>14, <1>a, CancelFacts DEF Cancel
<1> QED
  BY <1>1, <1>2, <1>3, <1>4, <1>5, <1>6, <1>7, <1>8, <1>9, <1>10, <1>11, <1>12, <1>13, <1>14
     DEF RequestStep

(* Container ownership is inductive on top of Owned.                       *)
LEMMA NextContainers ==
    ASSUME "panic" \notin Faults, "late" \notin Faults
    PROVE Owned /\ Containers /\ [Next]_vars => Containers'
<1> SUFFICES ASSUME Owned, Containers, [Next]_vars PROVE Containers'
  OBVIOUS
<1>1. CASE \E t \in Tenants : JobStep(t) \/ Expire(t) \/ Panic(t)
  BY <1>1, JobContainersStep
<1>2. CASE \E r \in Requests : Arrive(r) \/ RequestStep(r) \/ Cancel(r)
  BY <1>2, RequestContainersStep
<1>3. CASE UNCHANGED <<ctVars, status, lxcId, job, req>>
  BY <1>3 DEF Containers, Proxmox, JobContainers, RowContainers, ReqContainers, ctVars
<1>4. CASE Crash
  BY <1>4 DEF Crash, rowVars, ctVars, NoJob, Idle, HasContainer,
              Containers, Proxmox, JobContainers, RowContainers, ReqContainers
<1> QED
  BY <1>1, <1>2, <1>3, <1>4 DEF Next, Work, AtRest, UpdateNode, vars, rowVars, jobVars, ctVars

(* GetNextID reserves nothing and ids are reused, yet no clone, cleanup or *)
(* delete of another tenant ever takes the container of a live one: what   *)
(* the API calls active or suspended has a container of its own.  Excluded *)
(* are panics, and Proxmox tasks that take effect although they are        *)
(* reported as failed.                                                     *)
THEOREM OwnContainerCorrect ==
    ASSUME "panic" \notin Faults, "late" \notin Faults
    PROVE Spec => []LiveHasOwnContainer
<1>1. Owned /\ Containers => LiveHasOwnContainer
  BY DEF Owned, RamRows, Containers, RowContainers, LiveHasOwnContainer, Live, Deletable
<1> QED
  BY <1>1, OwnedCorrect, InitContainers, NextContainers, PTL DEF Spec
=============================================================================
