--------------------------- MODULE StationsProofs ---------------------------
(***************************************************************************)
(* Stations and the poller, for any number of tenants, addresses, slugs    *)
(* and creates in flight; the public list, for any number of stations,     *)
(* listeners, page size and scan limit.                                    *)
(***************************************************************************)
EXTENDS Stations, StationList, FiniteSetTheorems, SequenceTheorems, TLAPS

USE NobodyAssumption

\* The address a tenant has: the one its row tells, or the one its job has chosen.
Holds(t) == IF row[t].ip # None THEN row[t].ip ELSE net[t]

\* A row tells the address of its container; before its job there is none.
StoredAddress ==
    \A t \in Tenants :
        /\ row[t].ip # None => net[t] = row[t].ip \/ (net[t] = None /\ row[t].status # "provisioning")
        /\ row[t].status = "absent" => row[t].ip = None

\* A container that has another tenant's address makes that tenant one of shared.
ApartUnlessShared ==
    \A t, u \in Tenants :
        t # u /\ row[t].status # "deleted" /\ net[u] # None /\ Holds(t) = net[u] => t \in shared

\* The list of a poll cycle may be old, but not wrong about an address: a row
\* keeps the one it got, even when it is deleted.
ListedAddress == \A e \in poll.todo : row[e.tenant].ip = e.ip

SInv == TypeOK /\ StoredAddress /\ ApartUnlessShared /\ ListedAddress /\ OwnStatus

\* Creates of a tenant that are to insert.
CreatesOf(t) == {c \in creating : c.tenant = t}

Finite == IsFiniteSet(creating) /\ \A t \in Tenants : IsFiniteSet(StationsOf(t))

-----------------------------------------------------------------------------
(* Types. *)

Statuses == {"absent", "provisioning", "active", "suspended", "error", "deleted"}
RowType == [Tenants -> [status : Statuses, ip : IPs \cup {None}, lxc : BOOLEAN]]
TableType == [Slugs -> StationRow \cup {None}]
PollType == [todo : SUBSET [tenant : Tenants, ip : IPs], cur : Tenants \cup {None}, online : BOOLEAN]

LEMMA InitSInv == Init => SInv /\ Finite /\ StationLimit
<1> SUFFICES ASSUME Init PROVE SInv /\ Finite /\ StationLimit
  OBVIOUS
<1>1. TypeOK
  BY DEF Init, TypeOK, IdlePoll
<1>2. StoredAddress /\ ApartUnlessShared /\ ListedAddress /\ OwnStatus
  BY DEF Init, StoredAddress, ApartUnlessShared, Holds, ListedAddress, OwnStatus, IdlePoll
<1>3. creating = {} /\ \A t \in Tenants : StationsOf(t) = {} /\ {c \in creating : c.tenant = t} = {}
  BY DEF Init, StationsOf
<1>4. IsFiniteSet({}) /\ Cardinality({}) = 0
  BY FS_EmptySet
<1>5. Finite
  BY <1>3, <1>4 DEF Finite
<1>6. StationLimit
  <2> SUFFICES ASSUME NEW t \in Tenants
               PROVE  Cardinality(StationsOf(t)) + Cardinality({c \in creating : c.tenant = t})
                          < MaxStations[t] + MaxCreates
    BY DEF StationLimit
  <2>1. MaxStations[t] \in Nat \ {0} /\ MaxCreates \in Nat \ {0}
    BY LimitAssumption, BoundAssumption
  <2> QED BY <1>3, <1>4, <2>1
<1> QED BY <1>1, <1>2, <1>5, <1>6 DEF SInv

(* A cycle's entry is replaced by the answer in hand, or just dropped.     *)
LEMMA FetchTyped ==
    ASSUME poll \in PollType, NEW e \in poll.todo, NEW b \in BOOLEAN
    PROVE  /\ [todo |-> poll.todo \ {e}, cur |-> e.tenant, online |-> b] \in PollType
           /\ [poll EXCEPT !.todo = @ \ {e}] \in PollType
           /\ [poll EXCEPT !.cur = None, !.online = FALSE] \in PollType
           /\ e \in [tenant : Tenants, ip : IPs]
  BY DEF PollType

LEMMA StepTypeOK == TypeOK /\ [Next]_vars => TypeOK'
<1> SUFFICES ASSUME TypeOK, [Next]_vars PROVE TypeOK'
  OBVIOUS
<1>0. row \in RowType /\ station \in TableType /\ poll \in PollType
  BY DEF TypeOK, RowType, Statuses, TableType, PollType
<1>r. ASSUME row' \in RowType, net' \in [Tenants -> IPs \cup {None}],
             job' \subseteq Tenants, shared' \subseteq Tenants, UNCHANGED <<station, creating, cache, poll>>
      PROVE  TypeOK'
  BY <1>r DEF TypeOK, RowType, Statuses
<1>s. ASSUME NEW t \in Tenants, NEW to \in Statuses PROVE [row EXCEPT ![t].status = to] \in RowType
  BY <1>0 DEF RowType
<1> USE DEF TypeOK, tenantVars
<1>1. ASSUME NEW t \in Tenants, ChooseIP(t) \/ SetLXCIP(t) \/ Activate(t) PROVE TypeOK'
  <2>1. CASE ChooseIP(t)
    BY <1>0, <1>r, <2>1 DEF ChooseIP, FreeIPs, Unseen
  <2>2. CASE SetLXCIP(t)
    <3>1. row' \in RowType
      BY <1>0, <2>2 DEF SetLXCIP, RowType
    <3> QED BY <1>r, <2>2, <3>1 DEF SetLXCIP
  <2>3. CASE Activate(t)
    <3>1. row' \in RowType
      <4>1. row' = [row EXCEPT ![t] = [row[t] EXCEPT !.status = "active", !.lxc = TRUE]]
        BY <1>0, <2>3 DEF Activate, RowType
      <4>2. [row[t] EXCEPT !.status = "active", !.lxc = TRUE] \in [status : Statuses, ip : IPs \cup {None}, lxc : BOOLEAN]
        <5>1. row[t] \in [status : Statuses, ip : IPs \cup {None}, lxc : BOOLEAN] /\ "active" \in Statuses
          BY <1>0 DEF RowType, Statuses
        <5> QED BY <5>1
      <4> QED BY <1>0, <4>1, <4>2 DEF RowType
    <3> QED BY <1>r, <2>3, <3>1 DEF Activate
  <2> QED BY <1>1, <2>1, <2>2, <2>3
<1>2. ASSUME NEW t \in Tenants, NEW from, NEW to \in Statuses, SetStatus(t, from, to)
      PROVE  TypeOK'
  BY <1>2, <1>r, <1>s DEF SetStatus
<1>2a. ASSUME NEW t \in Tenants, CreateTenant(t) \/ Fail(t) \/ SetDeleted(t) PROVE TypeOK'
  <2>1. row' \in RowType
    <3>1. {"provisioning", "error", "deleted"} \subseteq Statuses
      BY DEF Statuses
    <3>2. PICK to \in {"provisioning", "error", "deleted"} : row' = [row EXCEPT ![t].status = to]
      BY <1>2a DEF CreateTenant, Fail, SetDeleted
    <3> QED BY <1>s, <3>1, <3>2
  <2> QED BY <1>2a, <1>r, <2>1 DEF CreateTenant, Fail, SetDeleted
<1>3. ASSUME NEW t \in Tenants, AutoCheck(t) PROVE TypeOK'
  BY <1>3, SlugAssumption DEF AutoCheck, BeginCreate
<1>4. ASSUME NEW t \in Tenants, NEW s \in Slugs, CreateCheck(t, s) PROVE TypeOK'
  BY <1>4 DEF CreateCheck, BeginCreate
<1>5. ASSUME NEW c \in creating, Insert(c) PROVE TypeOK'
  <2>a. c.tenant \in Tenants /\ c.slug \in Slugs
    OBVIOUS
  <2>b. [tenant |-> c.tenant, online |-> FALSE] \in StationRow
    BY <2>a DEF StationRow
  <2>1. station' \in TableType
    BY <1>5, <1>0, <2>a, <2>b DEF Insert, TableType
  <2> QED BY <1>5, <2>1 DEF Insert, TableType
<1>6. ASSUME NEW s \in Slugs, NEW to \in Slugs, NEW online \in BOOLEAN, Update(s, to, online) PROVE TypeOK'
  <2>1. [tenant |-> station[s].tenant, online |-> online] \in StationRow
    BY <1>6, <1>0 DEF Update, TableType, StationRow
  <2>2. station' \in TableType
    BY <1>6, <1>0, <2>1 DEF Update, TableType
  <2> QED BY <1>6, <2>2 DEF Update, TableType
<1>7. ASSUME NEW s \in Slugs, Delete(s) PROVE TypeOK'
  BY <1>7 DEF Delete
<1>8. CASE PollList
  <2>1. {[tenant |-> t, ip |-> row[t].ip] : t \in {u \in Tenants : Pollable(u)}} \subseteq [tenant : Tenants, ip : IPs]
    BY <1>0 DEF RowType, Pollable
  <2>2. poll' \in PollType
    BY <1>0, <1>8, <2>1 DEF PollList, PollType
  <2> QED BY <1>8, <2>2 DEF PollList, PollType
<1>9. ASSUME NEW e \in poll.todo, PollSkip(e) PROVE TypeOK'
  <2>1. poll' \in PollType
    BY <1>0, <1>9, FetchTyped DEF PollSkip
  <2> QED BY <1>9, <2>1 DEF PollSkip, PollType
<1>10. ASSUME NEW e \in poll.todo, PollFetch(e) PROVE TypeOK'
  <2>1. PICK a \in Answers(e) : /\ cache' = [cache EXCEPT ![e.tenant] = a.from]
                                /\ poll' = [todo |-> poll.todo \ {e}, cur |-> e.tenant, online |-> a.online]
    BY <1>10 DEF PollFetch
  <2>2. e.tenant \in Tenants
    BY <1>0, FetchTyped
  <2>3. a.from \in Tenants /\ a.online \in BOOLEAN
    <3>1. \/ a = [from |-> e.tenant, online |-> FALSE]
          \/ a \in [from : {t \in Tenants : net[t] = e.ip}, online : BOOLEAN]
      BY DEF Answers
    <3>2. a.from \in Tenants
      BY <2>2, <3>1
    <3>3. a.online \in BOOLEAN
      <4>1. CASE a = [from |-> e.tenant, online |-> FALSE]
        BY <4>1
      <4>2. ASSUME NEW S, a \in [from : S, online : BOOLEAN] PROVE a.online \in BOOLEAN
        BY <4>2
      <4> QED BY <3>1, <4>1, <4>2
    <3> QED BY <3>2, <3>3
  <2>4. poll' \in PollType
    BY <1>0, <2>1, <2>3, FetchTyped
  <2> QED BY <1>10, <2>1, <2>2, <2>3, <2>4 DEF PollFetch, PollType
<1>11. ASSUME NEW t \in Tenants, SetOnline(t) \/ SetOnlineFails(t) PROVE TypeOK'
  <2>1. poll' \in PollType
    <3>1. poll' = [poll EXCEPT !.cur = None, !.online = FALSE]
      BY <1>11 DEF SetOnline, SetOnlineFails
    <3> QED BY <1>0, <3>1 DEF PollType
  <2>2. poll.online \in BOOLEAN
    BY <1>0 DEF PollType
  <2>3. [tenant |-> t, online |-> poll.online] \in StationRow
    BY <2>2 DEF StationRow
  <2>4. station' \in TableType
    BY <1>0, <1>11, <2>3 DEF SetOnline, SetOnlineFails, TableType
  <2> QED BY <1>11, <2>1, <2>4 DEF SetOnline, SetOnlineFails, PollType, TableType
<1>12. CASE Restart
  BY <1>12 DEF Restart, IdlePoll
<1>13. CASE UNCHANGED vars
  BY <1>13 DEF vars
<1> QED BY <1>1, <1>2, <1>2a, <1>3, <1>4, <1>5, <1>6, <1>7, <1>8, <1>9, <1>10, <1>11, <1>12, <1>13
        DEF Next, TenantStep, PollStep, Statuses

-----------------------------------------------------------------------------
(* The poller. *)

(* Statuses, jobs and containers come and go, and addresses stay who has   *)
(* them.                                                                   *)
LEMMA RestOfTenantStep ==
    ASSUME SInv, TypeOK',
           UNCHANGED <<poll, cache, shared>>,
           \A u \in Tenants : /\ row'[u].ip = row[u].ip
                              /\ net'[u] \in {net[u], None}
                              /\ row'[u].status # "deleted" => row[u].status # "deleted"
                              /\ row'[u].status = "absent" => row[u].status = "absent"
                              /\ row'[u].status = "provisioning" =>
                                    net'[u] = net[u] /\ row[u].status \in {"absent", "provisioning"}
    PROVE  SInv'
<1>0. StoredAddress /\ ApartUnlessShared /\ ListedAddress /\ OwnStatus /\ \A e \in poll.todo : e.tenant \in Tenants
  BY FetchTyped DEF SInv, TypeOK, PollType
<1>1. StoredAddress'
  BY <1>0 DEF StoredAddress
<1>2. ApartUnlessShared'
  <2> SUFFICES ASSUME NEW t \in Tenants, NEW u \in Tenants, t # u, row'[t].status # "deleted",
                      net'[u] # None, Holds(t)' = net'[u]
               PROVE  t \in shared
    BY DEF ApartUnlessShared
  <2>1. net[u] = net'[u] /\ row[t].status # "deleted" /\ net[u] # None
    OBVIOUS
  <2>2. Holds(t) = Holds(t)'
    BY <2>1 DEF Holds
  <2> QED BY <1>0, <2>1, <2>2 DEF ApartUnlessShared
<1>3. ListedAddress'
  BY <1>0 DEF ListedAddress
<1>4. OwnStatus'
  BY <1>0 DEF OwnStatus
<1> QED BY <1>1, <1>2, <1>3, <1>4 DEF SInv

(* A job chooses an address: no row of a live tenant tells it, so whoever  *)
(* has it all the same becomes one of shared.                              *)
LEMMA ChooseIPApart ==
    ASSUME SInv, TypeOK', NEW t \in Tenants, ChooseIP(t)
    PROVE  SInv'
<1>0. TypeOK /\ StoredAddress /\ ApartUnlessShared /\ ListedAddress /\ OwnStatus
  BY DEF SInv
<1>1. /\ row[t].status = "provisioning" /\ net[t] = None
      /\ UNCHANGED <<row, poll, cache>> /\ net \in [Tenants -> IPs \cup {None}]
  BY <1>0 DEF ChooseIP, Provisioning, TypeOK
<1>2. PICK ip \in FreeIPs : /\ net' = [net EXCEPT ![t] = ip]
                            /\ shared' = IF Unseen(ip) = {} THEN shared ELSE shared \cup Unseen(ip) \cup {t}
  BY DEF ChooseIP
<1>3. net'[t] = ip /\ ip # None /\ \A u \in Tenants \ {t} : net'[u] = net[u]
  BY <1>1, <1>2 DEF FreeIPs
<1>4. shared \subseteq shared' /\ (\A u \in Unseen(ip) : u \in shared' /\ t \in shared')
  BY <1>2
<1>5. row[t].ip = None
  BY <1>0, <1>1 DEF StoredAddress
<1>6. ASSUME NEW u \in Tenants, row[u].status # "deleted", row[u].ip # None PROVE row[u].ip # ip
  <2>1. row[u].status # "absent"
    BY <1>0, <1>6 DEF StoredAddress
  <2> QED BY <1>6, <2>1 DEF FreeIPs, Live
<1>7. ApartUnlessShared'
  <2> SUFFICES ASSUME NEW v \in Tenants, NEW u \in Tenants, v # u, row[v].status # "deleted",
                      net'[u] # None, Holds(v)' = net'[u]
               PROVE  v \in shared'
    BY <1>1 DEF ApartUnlessShared
  <2>1. Holds(v)' = IF row[v].ip # None THEN row[v].ip ELSE net'[v]
    BY <1>1 DEF Holds
  <2>2. CASE u = t
    <3>1. row[v].ip = None /\ net[v] = ip
      BY <1>3, <1>6, <2>1, <2>2
    <3> QED BY <1>4, <3>1 DEF Unseen
  <2>3. CASE v = t
    <3>1. net[u] = ip
      BY <1>3, <1>5, <2>1, <2>3
    <3>2. row[u].ip = None \/ row[u].status = "deleted"
      BY <1>0, <1>3, <1>6, <3>1 DEF StoredAddress
    <3> QED BY <1>4, <2>3, <3>1, <3>2 DEF Unseen
  <2>4. CASE u # t /\ v # t
    <3>1. Holds(v) = Holds(v)' /\ net[u] = net'[u]
      BY <1>3, <2>1, <2>4 DEF Holds
    <3> QED BY <1>0, <1>4, <3>1 DEF ApartUnlessShared
  <2> QED BY <2>2, <2>3, <2>4
<1>8. StoredAddress'
  BY <1>0, <1>1, <1>3, <1>5 DEF StoredAddress
<1>9. ListedAddress' /\ OwnStatus'
  BY <1>0, <1>1, <1>4 DEF ListedAddress, OwnStatus
<1> QED BY <1>7, <1>8, <1>9 DEF SInv

(* The row comes to tell the address its container has.                    *)
LEMMA SetLXCIPApart ==
    ASSUME SInv, TypeOK', NEW t \in Tenants, SetLXCIP(t)
    PROVE  SInv'
<1>0. TypeOK /\ StoredAddress /\ ApartUnlessShared /\ ListedAddress /\ OwnStatus
  BY DEF SInv
<1>1. /\ row[t].status = "provisioning" /\ net[t] # None /\ row \in RowType /\ poll \in PollType
      /\ UNCHANGED <<net, shared, poll, cache>> /\ row' = [row EXCEPT ![t].ip = net[t]]
  BY <1>0 DEF SetLXCIP, Provisioning, TypeOK, RowType, Statuses, PollType
<1>2. /\ row'[t].ip = net[t] /\ row'[t].status = row[t].status
      /\ \A u \in Tenants \ {t} : row'[u] = row[u]
  BY <1>1 DEF RowType
<1>3. row[t].ip \in {None, net[t]}
  BY <1>0, <1>1 DEF StoredAddress
<1>4. \A u \in Tenants : Holds(u)' = Holds(u) /\ row'[u].status = row[u].status
  BY <1>1, <1>2, <1>3 DEF Holds
<1>5. ApartUnlessShared'
  BY <1>0, <1>1, <1>4 DEF ApartUnlessShared
<1>6. StoredAddress'
  BY <1>0, <1>1, <1>2 DEF StoredAddress
<1>7. ListedAddress'
  <2> SUFFICES ASSUME NEW e \in poll.todo PROVE row'[e.tenant].ip = e.ip
    BY <1>1 DEF ListedAddress
  <2>1. row[e.tenant].ip = e.ip /\ e.ip \in IPs /\ e.tenant \in Tenants
    BY <1>0, <1>1, FetchTyped DEF ListedAddress
  <2> QED BY <1>2, <1>3, <2>1
<1>8. OwnStatus'
  BY <1>0, <1>1, <1>4 DEF OwnStatus
<1> QED BY <1>5, <1>6, <1>7, <1>8 DEF SInv

(* Whose address is whose stays known, the list stays right about it, and  *)
(* what is cached for a tenant stays its own.                              *)
LEMMA StepSInv == SInv /\ [Next]_vars => SInv'
<1> SUFFICES ASSUME SInv, [Next]_vars PROVE SInv'
  OBVIOUS
<1>0. TypeOK /\ StoredAddress /\ ApartUnlessShared /\ ListedAddress /\ OwnStatus /\ TypeOK'
  BY StepTypeOK DEF SInv
<1>t. /\ row \in RowType /\ poll \in PollType /\ cache \in [Tenants -> Tenants \cup {None}]
      /\ net \in [Tenants -> IPs \cup {None}]
      /\ \A e \in poll.todo : e.tenant \in Tenants /\ e.ip \in IPs
  BY <1>0, FetchTyped DEF TypeOK, RowType, Statuses, PollType
<1>a. ASSUME UNCHANGED <<row, net, shared>>, poll'.todo \subseteq poll.todo, UNCHANGED cache PROVE SInv'
  BY <1>0, <1>a DEF SInv, StoredAddress, ApartUnlessShared, Holds, ListedAddress, OwnStatus
<1>1. ASSUME NEW t \in Tenants, TenantStep(t) PROVE SInv'
  <2>s. ASSUME NEW to \in Statuses, NEW u \in Tenants, row' = [row EXCEPT ![t].status = to]
        PROVE  row'[u].ip = row[u].ip /\ row'[u].status = IF u = t THEN to ELSE row[u].status
    BY <1>t, <2>s DEF RowType
  <2>1. CASE CreateTenant(t)
    BY <1>0, <2>1, <2>s, RestOfTenantStep DEF CreateTenant, Statuses
  <2>2. CASE ChooseIP(t)
    BY <1>0, <2>2, ChooseIPApart
  <2>3. CASE SetLXCIP(t)
    BY <1>0, <2>3, SetLXCIPApart
  <2>4. CASE Activate(t)
    <3>1. \A u \in Tenants : row'[u].ip = row[u].ip /\ row'[u].status = IF u = t THEN "active" ELSE row[u].status
      BY <1>t, <2>4 DEF Activate, RowType
    <3>2. UNCHANGED <<poll, cache, shared, net>> /\ row[t].status = "provisioning"
      BY <2>4 DEF Activate, Provisioning
    <3> QED BY <1>0, <3>1, <3>2, RestOfTenantStep
  <2>5. CASE Fail(t)
    <3>1. UNCHANGED <<poll, cache, shared>> /\ row[t].status = "provisioning"
      BY <2>5 DEF Fail, Provisioning
    <3>2. \A u \in Tenants : net'[u] \in {net[u], None} /\ (u # t => net'[u] = net[u])
      BY <1>t, <2>5 DEF Fail
    <3> QED BY <1>0, <2>5, <2>s, <3>1, <3>2, RestOfTenantStep DEF Fail, Statuses
  <2>6. CASE SetDeleted(t)
    <3>1. UNCHANGED <<poll, cache, shared>> /\ row[t].status = "error"
      BY <2>6 DEF SetDeleted
    <3>2. \A u \in Tenants : net'[u] \in {net[u], None} /\ (u # t => net'[u] = net[u])
      BY <1>t, <2>6 DEF SetDeleted
    <3> QED BY <1>0, <2>6, <2>s, <3>1, <3>2, RestOfTenantStep DEF SetDeleted, Statuses
  <2>7. ASSUME NEW from \in SUBSET {"active", "suspended"}, NEW to \in {"active", "suspended", "error"},
               SetStatus(t, from, to)
        PROVE  SInv'
    <3>1. UNCHANGED <<poll, cache, shared, net>> /\ row[t].status \in {"active", "suspended"}
      BY <2>7 DEF SetStatus
    <3>2. \A u \in Tenants : row'[u].ip = row[u].ip /\ row'[u].status = IF u = t THEN to ELSE row[u].status
      <4>1. to \in Statuses /\ row' = [row EXCEPT ![t].status = to]
        BY <2>7 DEF SetStatus, Statuses
      <4> QED BY <2>s, <4>1
    <3> QED BY <1>0, <3>1, <3>2, RestOfTenantStep
  <2> QED BY <1>1, <2>1, <2>2, <2>3, <2>4, <2>5, <2>6, <2>7 DEF TenantStep
<1>3. ASSUME NEW t \in Tenants, AutoCheck(t) \/ \E s \in Slugs : CreateCheck(t, s) PROVE SInv'
  BY <1>3, <1>a DEF AutoCheck, CreateCheck, BeginCreate
<1>4. ASSUME \/ \E c \in creating : Insert(c)
             \/ \E s, to \in Slugs, online \in BOOLEAN : Update(s, to, online)
             \/ \E s \in Slugs : Delete(s)
      PROVE  SInv'
  BY <1>4, <1>a DEF Insert, Update, Delete, tenantVars
<1>5. CASE PollList
  <2>1. poll'.todo = {[tenant |-> t, ip |-> row[t].ip] : t \in {u \in Tenants : Pollable(u)}}
    BY <1>5, <1>t DEF PollList, PollType
  <2>2. ListedAddress'
    BY <1>5, <2>1 DEF PollList, ListedAddress, tenantVars
  <2>3. StoredAddress' /\ ApartUnlessShared' /\ OwnStatus'
    BY <1>0, <1>5 DEF PollList, StoredAddress, ApartUnlessShared, Holds, OwnStatus, tenantVars
  <2> QED BY <1>0, <2>2, <2>3 DEF SInv
<1>6. ASSUME NEW e \in poll.todo, PollSkip(e) PROVE SInv'
  BY <1>6, <1>a, <1>t DEF PollSkip, PollType, tenantVars
<1>7. ASSUME NEW e \in poll.todo, PollFetch(e) PROVE SInv'
  <2>1. PICK a \in Answers(e) : /\ cache' = [cache EXCEPT ![e.tenant] = a.from]
                                /\ poll' = [todo |-> poll.todo \ {e}, cur |-> e.tenant, online |-> a.online]
    BY <1>7 DEF PollFetch
  <2>2. UNCHANGED <<row, net, shared>> /\ poll'.todo = poll.todo \ {e} /\ e.tenant \in Tenants
    BY <1>7, <1>t, <2>1 DEF PollFetch, tenantVars
  <2>3. row[e.tenant].status # "deleted" /\ e.tenant \notin shared => a.from = e.tenant
    <3>1. a.from = e.tenant \/ (a.from \in Tenants /\ net[a.from] = e.ip)
      BY DEF Answers
    <3>2. row[e.tenant].ip = e.ip /\ e.ip # None
      BY <1>0, <1>t DEF ListedAddress
    <3>3. Holds(e.tenant) = e.ip
      BY <3>2 DEF Holds
    <3> QED BY <1>0, <2>2, <3>1, <3>2, <3>3 DEF ApartUnlessShared
  <2>4. OwnStatus'
    <3>1. \A t \in Tenants : cache'[t] = IF t = e.tenant THEN a.from ELSE cache[t]
      BY <1>t, <2>1
    <3> QED BY <1>0, <2>2, <2>3, <3>1 DEF OwnStatus
  <2>5. StoredAddress' /\ ApartUnlessShared' /\ ListedAddress'
    BY <1>0, <2>2 DEF StoredAddress, ApartUnlessShared, Holds, ListedAddress
  <2> QED BY <1>0, <2>4, <2>5 DEF SInv
<1>8. ASSUME NEW t \in Tenants, SetOnline(t) \/ SetOnlineFails(t) PROVE SInv'
  BY <1>8, <1>a, <1>t DEF SetOnline, SetOnlineFails, PollType, tenantVars
<1>9. CASE Restart
  <2>1. UNCHANGED <<row, net, shared>> /\ poll'.todo = {} /\ cache' = [t \in Tenants |-> None]
    BY <1>9 DEF Restart, IdlePoll
  <2> QED BY <1>0, <2>1 DEF SInv, StoredAddress, ApartUnlessShared, Holds, ListedAddress, OwnStatus
<1>10. CASE UNCHANGED vars
  BY <1>10, <1>a DEF vars, tenantVars
<1> QED BY <1>1, <1>3, <1>4, <1>5, <1>6, <1>7, <1>8, <1>9, <1>10 DEF Next, PollStep

(* The addresses' owners, the poller's list and its cache.                 *)
LEMMA StationsCorrect == Spec => []SInv
  BY InitSInv, StepSInv, PTL DEF Spec

(* Rows, creates in flight, cache and poll cycle hold what they can hold.  *)
THEOREM StationsTyped == Spec => []TypeOK
<1>1. SInv => TypeOK
  BY DEF SInv
<1> QED BY <1>1, StationsCorrect, PTL

(* The poller asks an address that its list may have got long ago.  As a   *)
(* row keeps its address until it is deleted, what is cached for a tenant  *)
(* that is not deleted is its own, with any number of jobs choosing        *)
(* addresses before they store them, unless one of them chose this one.    *)
THEOREM OwnStatusCorrect == Spec => []OwnStatus
<1>1. SInv => OwnStatus
  BY DEF SInv
<1> QED BY <1>1, StationsCorrect, PTL

-----------------------------------------------------------------------------
(* The station limit. *)

LimitAt(t) == Cardinality(StationsOf(t)) + Cardinality(CreatesOf(t)) < MaxStations[t] + MaxCreates

(* The cardinalities that the limit compares are numbers.                  *)
LEMMA StationCounts ==
    ASSUME Finite, NEW t \in Tenants
    PROVE  /\ Cardinality(StationsOf(t)) \in Nat /\ IsFiniteSet(CreatesOf(t)) /\ Cardinality(CreatesOf(t)) \in Nat
           /\ Cardinality(CreatesOf(t)) <= Cardinality(creating) /\ Cardinality(creating) \in Nat
           /\ MaxStations[t] \in Nat \ {0} /\ MaxCreates \in Nat \ {0}
<1>1. CreatesOf(t) \subseteq creating
  BY DEF CreatesOf
<1>2. IsFiniteSet(CreatesOf(t)) /\ Cardinality(CreatesOf(t)) <= Cardinality(creating)
  BY <1>1, FS_Subset DEF Finite
<1> QED BY <1>2, FS_CardinalityType, LimitAssumption, BoundAssumption DEF Finite

(* A create that found its tenant under the limit, or without a station,   *)
(* while there was room for it.                                            *)
LEMMA BeginLimit ==
    ASSUME TypeOK, Finite, StationLimit, NEW t \in Tenants, NEW s \in Slugs,
           Cardinality(StationsOf(t)) < MaxStations[t], BeginCreate([tenant |-> t, slug |-> s])
    PROVE  Finite' /\ StationLimit'
<1> DEFINE c == [tenant |-> t, slug |-> s]
<1>1. creating' = creating \cup {c} /\ UNCHANGED station /\ Cardinality(creating) < MaxCreates
  BY DEF BeginCreate
<1>2. \A u \in Tenants : StationsOf(u)' = StationsOf(u)
  BY <1>1 DEF StationsOf
<1>3. IsFiniteSet(creating \cup {c}) /\ Cardinality(creating \cup {c}) <= Cardinality(creating) + 1
  <2>1. IsFiniteSet(creating) /\ Cardinality(creating) \in Nat
    BY FS_CardinalityType DEF Finite
  <2>2. Cardinality(creating \cup {c}) = IF c \in creating THEN Cardinality(creating) ELSE Cardinality(creating) + 1
    BY <2>1, FS_AddElement
  <2> QED BY <2>1, <2>2, FS_AddElement
<1>4. Finite'
  BY <1>1, <1>2, <1>3 DEF Finite
<1>5. ASSUME NEW u \in Tenants PROVE LimitAt(u)'
  <2>1. CASE u = t
    <3>1. CreatesOf(t)' \subseteq creating \cup {c}
      BY <1>1 DEF CreatesOf
    <3>2. IsFiniteSet(CreatesOf(t)') /\ Cardinality(CreatesOf(t)') <= Cardinality(creating \cup {c})
      BY <1>3, <3>1, FS_Subset
    <3>3. Cardinality(CreatesOf(t)') \in Nat /\ Cardinality(creating \cup {c}) \in Nat
      BY <1>3, <3>2, FS_CardinalityType
    <3>4. /\ Cardinality(StationsOf(t)) \in Nat /\ Cardinality(creating) \in Nat
          /\ MaxStations[t] \in Nat /\ MaxCreates \in Nat
      BY StationCounts
    <3>5. Cardinality(StationsOf(t)) + Cardinality(CreatesOf(t)') < MaxStations[t] + MaxCreates
      BY <1>1, <1>3, <3>2, <3>3, <3>4
    <3>6. Cardinality(StationsOf(t)') = Cardinality(StationsOf(t))
      BY <1>2
    <3> QED BY <2>1, <3>5, <3>6 DEF LimitAt
  <2>2. CASE u # t
    <3>1. CreatesOf(u)' = CreatesOf(u)
      BY <1>1, <2>2 DEF CreatesOf
    <3> QED BY <1>2, <3>1 DEF LimitAt, StationLimit, CreatesOf
  <2> QED BY <2>1, <2>2
<1> QED BY <1>4, <1>5 DEF StationLimit, LimitAt, CreatesOf

\* A step that adds no create, and no station to a tenant that it does not
\* take a create of.
Sheds(t) ==
    /\ IsFiniteSet(StationsOf(t)') /\ IsFiniteSet(CreatesOf(t)')
    /\ Cardinality(StationsOf(t)') + Cardinality(CreatesOf(t)')
          <= Cardinality(StationsOf(t)) + Cardinality(CreatesOf(t))

LEMMA ShedLimit ==
    ASSUME Finite, StationLimit, creating' \subseteq creating, \A t \in Tenants : Sheds(t)
    PROVE  Finite' /\ StationLimit'
<1>1. Finite'
  BY FS_Subset DEF Finite, Sheds
<1>2. ASSUME NEW t \in Tenants PROVE LimitAt(t)'
  <2>1. /\ Cardinality(StationsOf(t)) \in Nat /\ Cardinality(CreatesOf(t)) \in Nat
        /\ MaxStations[t] \in Nat /\ MaxCreates \in Nat
    BY StationCounts
  <2>2. Cardinality(StationsOf(t)') \in Nat /\ Cardinality(CreatesOf(t)') \in Nat
    BY FS_CardinalityType DEF Sheds
  <2>3. LimitAt(t)
    BY DEF StationLimit, LimitAt, CreatesOf
  <2> QED BY <2>1, <2>2, <2>3 DEF Sheds, LimitAt
<1> QED BY <1>1, <1>2 DEF StationLimit, LimitAt, CreatesOf

LEMMA ShedSubsets ==
    ASSUME Finite, NEW t \in Tenants, StationsOf(t)' \subseteq StationsOf(t), creating' \subseteq creating
    PROVE  Sheds(t)
<1>1. CreatesOf(t)' \subseteq CreatesOf(t)
  BY DEF CreatesOf
<1>2. IsFiniteSet(CreatesOf(t)) /\ IsFiniteSet(StationsOf(t))
  BY StationCounts DEF Finite
<1>3. /\ IsFiniteSet(StationsOf(t)') /\ Cardinality(StationsOf(t)') <= Cardinality(StationsOf(t))
      /\ IsFiniteSet(CreatesOf(t)') /\ Cardinality(CreatesOf(t)') <= Cardinality(CreatesOf(t))
  BY <1>1, <1>2, FS_Subset
<1>4. /\ Cardinality(StationsOf(t)') \in Nat /\ Cardinality(CreatesOf(t)') \in Nat
      /\ Cardinality(StationsOf(t)) \in Nat /\ Cardinality(CreatesOf(t)) \in Nat
  BY <1>2, <1>3, FS_CardinalityType
<1> QED BY <1>3, <1>4 DEF Sheds

(* No request, job, rename or restart takes a tenant further than its      *)
(* limit and the creates in flight allow.                                  *)
LEMMA StepLimit == TypeOK /\ Finite /\ StationLimit /\ [Next]_vars => Finite' /\ StationLimit'
<1> SUFFICES ASSUME TypeOK, Finite, StationLimit, [Next]_vars PROVE Finite' /\ StationLimit'
  OBVIOUS
<1>0. station \in TableType
  BY DEF TypeOK, TableType
<1>a. ASSUME creating' \subseteq creating, \A t \in Tenants : StationsOf(t)' \subseteq StationsOf(t)
      PROVE  Finite' /\ StationLimit'
  BY <1>a, ShedSubsets, ShedLimit
<1>1. ASSUME UNCHANGED <<creating, station>> PROVE Finite' /\ StationLimit'
  BY <1>1, <1>a DEF StationsOf
<1>2. ASSUME NEW t \in Tenants, TenantStep(t) PROVE UNCHANGED <<creating, station>>
  BY <1>2 DEF TenantStep, CreateTenant, ChooseIP, SetLXCIP, Activate, Fail, SetStatus, SetDeleted
<1>3. ASSUME NEW t \in Tenants, NEW s \in Slugs, CreateCheck(t, s) PROVE Finite' /\ StationLimit'
  BY <1>3, BeginLimit DEF CreateCheck, UnderLimit
<1>4. ASSUME NEW t \in Tenants, AutoCheck(t) PROVE Finite' /\ StationLimit'
  <2>1. CASE StationsOf(t) = {} /\ BeginCreate([tenant |-> t, slug |-> SubdomainOf[t]])
    <3>1. Cardinality(StationsOf(t)) < MaxStations[t]
      BY <2>1, FS_EmptySet, LimitAssumption
    <3>2. SubdomainOf[t] \in Slugs
      BY SlugAssumption
    <3> QED BY <2>1, <3>1, <3>2, BeginLimit
  <2>2. CASE UNCHANGED <<creating, station>>
    BY <1>1, <2>2
  <2> QED BY <1>4, <2>1, <2>2 DEF AutoCheck
<1>5. ASSUME NEW c \in creating, Insert(c) PROVE Finite' /\ StationLimit'
  <2>0. creating' = creating \ {c} /\ c.tenant \in Tenants /\ c.slug \in Slugs
    BY <1>5 DEF Insert, TypeOK
  <2>1. CASE UNCHANGED station
    BY <1>a, <2>0, <2>1 DEF StationsOf
  <2>2. CASE station[c.slug] = None /\ station' = [station EXCEPT ![c.slug] = [tenant |-> c.tenant, online |-> FALSE]]
    <3>1. /\ \A s \in Slugs \ {c.slug} : station'[s] = station[s]
          /\ station'[c.slug] # None /\ station'[c.slug].tenant = c.tenant
      <4>1. [tenant |-> c.tenant, online |-> FALSE] \in StationRow
        BY <2>0 DEF StationRow
      <4> QED BY <1>0, <2>0, <2>2, <4>1 DEF TableType
    <3>2. ASSUME NEW u \in Tenants, u # c.tenant PROVE Sheds(u)
      <4>1. StationsOf(u)' \subseteq StationsOf(u)
        BY <3>1, <3>2 DEF StationsOf
      <4> QED BY <2>0, <4>1, ShedSubsets
    <3>3. ASSUME NEW u \in Tenants, u = c.tenant PROVE Sheds(u)
      <4>1. StationsOf(u)' = StationsOf(u) \cup {c.slug} /\ c.slug \notin StationsOf(u)
        BY <2>0, <2>2, <3>1, <3>3 DEF StationsOf
      <4>2. CreatesOf(u)' = CreatesOf(u) \ {c} /\ c \in CreatesOf(u)
        BY <2>0, <3>3 DEF CreatesOf
      <4>3. IsFiniteSet(StationsOf(u)) /\ IsFiniteSet(CreatesOf(u))
        BY StationCounts DEF Finite
      <4>4. IsFiniteSet(StationsOf(u)') /\ Cardinality(StationsOf(u)') = Cardinality(StationsOf(u)) + 1
        BY <4>1, <4>3, FS_AddElement
      <4>5. IsFiniteSet(CreatesOf(u)') /\ Cardinality(CreatesOf(u)') = Cardinality(CreatesOf(u)) - 1
        BY <4>2, <4>3, FS_RemoveElement
      <4>6. Cardinality(StationsOf(u)) \in Nat /\ Cardinality(CreatesOf(u)) \in Nat
        BY <4>3, FS_CardinalityType
      <4> QED BY <4>4, <4>5, <4>6 DEF Sheds
    <3> QED BY <2>0, <3>2, <3>3, ShedLimit
  <2> QED BY <1>5, <2>1, <2>2 DEF Insert
<1>6. ASSUME NEW s \in Slugs, NEW to \in Slugs, NEW online \in BOOLEAN, Update(s, to, online)
      PROVE  Finite' /\ StationLimit'
  <2>0. station[s] # None /\ (to = s \/ station[to] = None) /\ UNCHANGED creating /\ station[s].tenant \in Tenants
    BY <1>0, <1>6 DEF Update, TableType, StationRow
  <2>1. [tenant |-> station[s].tenant, online |-> online] \in StationRow
    BY <2>0 DEF StationRow
  <2>2. /\ station'[to] # None /\ station'[to].tenant = station[s].tenant
        /\ to # s => station'[s] = None
        /\ \A x \in Slugs \ {s, to} : station'[x] = station[x]
    BY <1>0, <1>6, <2>1 DEF Update, TableType
  <2>3. ASSUME NEW u \in Tenants, u # station[s].tenant \/ to = s PROVE Sheds(u)
    <3>1. StationsOf(u)' \subseteq StationsOf(u)
      BY <2>0, <2>2, <2>3 DEF StationsOf
    <3> QED BY <2>0, <3>1, ShedSubsets
  <2>4. ASSUME NEW u \in Tenants, u = station[s].tenant, to # s PROVE Sheds(u)
    <3>1. /\ StationsOf(u)' = (StationsOf(u) \ {s}) \cup {to}
          /\ s \in StationsOf(u) /\ to \notin StationsOf(u) \ {s}
      BY <2>0, <2>2, <2>4 DEF StationsOf
    <3>2. IsFiniteSet(StationsOf(u)) /\ IsFiniteSet(CreatesOf(u)) /\ CreatesOf(u)' = CreatesOf(u)
      BY <2>0, StationCounts DEF Finite, CreatesOf
    <3>3. IsFiniteSet(StationsOf(u) \ {s}) /\ Cardinality(StationsOf(u) \ {s}) = Cardinality(StationsOf(u)) - 1
      BY <3>1, <3>2, FS_RemoveElement
    <3>4. IsFiniteSet(StationsOf(u)') /\ Cardinality(StationsOf(u)') = Cardinality(StationsOf(u) \ {s}) + 1
      <4>1. PICK rest : rest = StationsOf(u) \ {s}
        OBVIOUS
      <4>2. IsFiniteSet(rest \cup {to}) /\ Cardinality(rest \cup {to}) = Cardinality(rest) + 1
        BY <3>1, <3>3, <4>1, FS_AddElement
      <4> QED BY <3>1, <4>1, <4>2
    <3>5. Cardinality(StationsOf(u)) \in Nat /\ Cardinality(CreatesOf(u)) \in Nat
      BY <3>2, FS_CardinalityType
    <3>6. Cardinality(StationsOf(u)') = Cardinality(StationsOf(u))
      BY <3>3, <3>4, <3>5
    <3> QED BY <3>2, <3>4, <3>5, <3>6 DEF Sheds
  <2> QED BY <2>0, <2>3, <2>4, ShedLimit
<1>7. ASSUME NEW s \in Slugs, Delete(s) PROVE Finite' /\ StationLimit'
  <2>1. UNCHANGED creating /\ \A x \in Slugs : station'[x] = station[x] \/ station'[x] = None
    BY <1>0, <1>7 DEF Delete, TableType
  <2>2. \A t \in Tenants : StationsOf(t)' \subseteq StationsOf(t)
    BY <2>1 DEF StationsOf
  <2> QED BY <1>a, <2>1, <2>2
<1>8. ASSUME NEW t \in Tenants, SetOnline(t) PROVE Finite' /\ StationLimit'
  <2>1. UNCHANGED creating /\ \A x \in Slugs \ StationsOf(t) : station'[x] = station[x]
    BY <1>8 DEF SetOnline
  <2>2. \A x \in StationsOf(t) : station'[x].tenant = t
    BY <1>8 DEF SetOnline, StationsOf
  <2>3. ASSUME NEW u \in Tenants PROVE StationsOf(u)' \subseteq StationsOf(u)
    BY <2>1, <2>2 DEF StationsOf
  <2> QED BY <1>a, <2>1, <2>3
<1>9. ASSUME PollList \/ (\E e \in poll.todo : PollSkip(e) \/ PollFetch(e)) \/ (\E t \in Tenants : SetOnlineFails(t))
             \/ UNCHANGED vars
      PROVE  UNCHANGED <<creating, station>>
  BY <1>9 DEF PollList, PollSkip, PollFetch, SetOnlineFails, vars, tenantVars
<1>10. CASE Restart
  BY <1>10, <1>a DEF Restart, StationsOf
<1> QED BY <1>1, <1>2, <1>3, <1>4, <1>5, <1>6, <1>7, <1>8, <1>9, <1>10 DEF Next, PollStep

(* COUNT and INSERT are two statements: however many creates pass the      *)
(* check together, the limit is exceeded by less than their number.        *)
THEOREM StationLimitCorrect == Spec => []StationLimit
<1>1. TypeOK /\ Finite /\ StationLimit /\ [Next]_vars => (Finite /\ StationLimit)'
  BY StepLimit
<1> QED BY <1>1, InitSInv, StationsTyped, PTL DEF Spec
-----------------------------------------------------------------------------
(* The public list. *)

HIDE NobodyAssumption
USE ListAssumption

\* How many stations a client can be shown.
Total == AtMost(Pageable, Len(rows))

ListType ==
    /\ rows \in Seq([name : Nat, count : Nat])
    /\ byListeners \in BOOLEAN /\ more \in BOOLEAN
    /\ limit \in Nat \ {0} /\ offset \in Nat
    /\ shown \in Seq(Nat)

\* What is shown so far reaches up to the offset.
ListInv ==
    /\ ListType
    /\ Len(shown) = AtMost(offset, Total)
    /\ \A p \in 1..Len(shown) : MayStandAt(shown[p], p)
    /\ \A p, q \in 1..Len(shown) : p + limit > offset /\ p < q => shown[p] # shown[q]
    /\ ~more => offset >= Total
    /\ more /\ offset > 0 => offset < Total

\* A sequence in the order that was asked for, of stations some scan has, with
\* all that every scan has.
InOrder(items) ==
    /\ items \in Seq(Nat) /\ Len(items) = Total
    /\ \A p \in 1..Total : items[p] \in Maybe
    /\ \A i \in Sure : \E p \in 1..Total : items[p] = i
    /\ \A p, q \in 1..Total : p < q => items[p] # items[q] /\ ~Before(items[q], items[p])

(* n places that hold every element of a set: it has at most n.            *)
LEMMA ImageBound ==
    ASSUME NEW n \in Nat, NEW S, NEW f, \A x \in S : \E r \in 1..n : f[r] = x
    PROVE  IsFiniteSet(S) /\ Cardinality(S) \in Nat /\ Cardinality(S) <= n
<1> DEFINE g == [r \in 1..n |-> f[r]]
           I == {f[r] : r \in 1..n}
<1>1. g \in Surjection(1..n, I)
  BY DEF Surjection
<1>2. IsFiniteSet(1..n) /\ Cardinality(1..n) = n
  <2>1. n \in Int /\ 1 \in Int /\ (1 > n => n = 0)
    OBVIOUS
  <2>2. IsFiniteSet(1..n) /\ Cardinality(1..n) = IF 1 > n THEN 0 ELSE n - 1 + 1
    BY <2>1, FS_Interval
  <2> QED BY <2>1, <2>2
<1> HIDE DEF g
<1>3. IsFiniteSet(I) /\ Cardinality(I) <= n
  <2> HIDE DEF I
  <2> QED BY <1>1, <1>2, FS_Surjection
<1>4. S \in SUBSET I
  OBVIOUS
<1> HIDE DEF I
<1>5. IsFiniteSet(S) /\ Cardinality(S) <= Cardinality(I)
  BY <1>3, <1>4, FS_Subset
<1>6. Cardinality(S) \in Nat /\ Cardinality(I) \in Nat
  BY <1>3, <1>5, FS_CardinalityType
<1> QED BY <1>3, <1>5, <1>6

(* n places that hold n different elements of a set: it has at least n, and *)
(* when it has no more, they hold all.                                      *)
LEMMA InjectionBound ==
    ASSUME NEW n \in Nat, NEW S, IsFiniteSet(S), NEW f, \A r \in 1..n : f[r] \in S,
           \A p, q \in 1..n : p < q => f[p] # f[q]
    PROVE  /\ Cardinality(S) \in Nat /\ n <= Cardinality(S)
           /\ Cardinality(S) = n => \A x \in S : \E r \in 1..n : f[r] = x
<1> DEFINE g == [r \in 1..n |-> f[r]]
<1>1. g \in Injection(1..n, S)
  <2>1. \A p, q \in 1..n : g[p] = g[q] => p = q
    OBVIOUS
  <2>2. g \in [1..n -> S]
    OBVIOUS
  <2> HIDE DEF g
  <2> QED BY <2>1, <2>2 DEF Injection, IsInjective
<1>2. IsFiniteSet(1..n) /\ Cardinality(1..n) = n
  <2>1. n \in Int /\ 1 \in Int /\ (1 > n => n = 0)
    OBVIOUS
  <2>2. IsFiniteSet(1..n) /\ Cardinality(1..n) = IF 1 > n THEN 0 ELSE n - 1 + 1
    BY <2>1, FS_Interval
  <2> QED BY <2>1, <2>2
<1>3. Cardinality(S) \in Nat
  BY FS_CardinalityType
<1> HIDE DEF g
<1>4. /\ Cardinality(1..n) <= Cardinality(S)
      /\ Cardinality(1..n) = Cardinality(S) <=> g \in Surjection(1..n, S)
  BY <1>1, FS_Injection
<1>5. ASSUME g \in Surjection(1..n, S), NEW x \in S PROVE \E r \in 1..n : f[r] = x
  <2>1. PICK r \in 1..n : g[r] = x
    BY <1>5 DEF Surjection
  <2>2. g[r] = f[r]
    BY DEF g
  <2> QED BY <2>1, <2>2
<1> QED BY <1>2, <1>3, <1>4, <1>5

LEMMA MatchingFinite ==
    ASSUME ListType
    PROVE  /\ Matching = 1..Len(rows) /\ Len(rows) \in Nat
           /\ \A S \in SUBSET Matching : IsFiniteSet(S) /\ Cardinality(S) \in Nat
           /\ Cardinality(Matching) = Len(rows)
           /\ Pageable \in Nat /\ Total \in Nat /\ Total <= Len(rows) /\ Total <= Pageable
<1>1. Matching = 1..Len(rows) /\ Len(rows) \in Nat
  BY DEF Matching, ListType
<1>2. IsFiniteSet(Matching) /\ Cardinality(Matching) = Len(rows)
  <2>1. Len(rows) \in Int /\ 1 \in Int /\ (1 > Len(rows) => Len(rows) = 0)
    BY <1>1
  <2>2. IsFiniteSet(1..Len(rows)) /\ Cardinality(1..Len(rows)) = IF 1 > Len(rows) THEN 0 ELSE Len(rows) - 1 + 1
    BY <2>1, FS_Interval
  <2> QED BY <1>1, <2>1, <2>2
<1>3. \A S \in SUBSET Matching : IsFiniteSet(S) /\ Cardinality(S) \in Nat
  BY <1>2, FS_Subset, FS_CardinalityType
<1> QED BY <1>1, <1>2, <1>3 DEF Pageable, Total, AtMost

LEMMA RowTyped ==
    ASSUME ListType, NEW i \in Matching
    PROVE  rows[i].name \in Nat /\ rows[i].count \in Nat
<1>1. rows \in Seq([name : Nat, count : Nat]) /\ i \in 1..Len(rows)
  BY MatchingFinite DEF ListType
<1>2. rows[i] \in [name : Nat, count : Nat]
  BY <1>1, ElementOfSeq
<1> QED BY <1>2

(* An order that the database may return has every row once.               *)
LEMMA OrderOnto ==
    ASSUME ListType, NEW o \in NameOrders
    PROVE  /\ o \in [1..Len(rows) -> 1..Len(rows)]
           /\ \A i \in Matching : \E p \in 1..Len(rows) : o[p] = i
           /\ \A p, q \in 1..Len(rows) : p < q => o[p] # o[q] /\ rows[o[p]].name <= rows[o[q]].name
<1>1. Matching = 1..Len(rows) /\ Len(rows) \in Nat /\ IsFiniteSet(Matching) /\ Cardinality(Matching) = Len(rows)
  BY MatchingFinite
<1>2. /\ o \in [1..Len(rows) -> 1..Len(rows)]
      /\ \A p, q \in 1..Len(rows) : p < q => o[p] # o[q] /\ rows[o[p]].name <= rows[o[q]].name
  BY <1>1 DEF NameOrders
<1>3. \A r \in 1..Len(rows) : o[r] \in Matching
  BY <1>1, <1>2
<1>4. \A p, q \in 1..Len(rows) : p < q => o[p] # o[q]
  BY <1>2
<1>5. \A i \in Matching : \E p \in 1..Len(rows) : o[p] = i
  <2>1. PICK S, n : S = Matching /\ n = Len(rows)
    OBVIOUS
  <2>2. n \in Nat /\ IsFiniteSet(S) /\ Cardinality(S) = n /\ (\A r \in 1..n : o[r] \in S)
    BY <1>1, <1>3, <2>1
  <2>3. \A p, q \in 1..n : p < q => o[p] # o[q]
    BY <1>4, <2>1
  <2>4. \A i \in S : \E r \in 1..n : o[r] = i
    BY <2>2, <2>3, InjectionBound
  <2> QED BY <2>1, <2>4
<1> QED BY <1>2, <1>5

(* The scan: what comes within the limit may be there, and what is sure to *)
(* be there comes within the limit.                                        *)
LEMMA ScanWindow ==
    ASSUME ListType, NEW o \in NameOrders, NEW k \in 1..Len(rows)
    PROVE  /\ k <= Total => o[k] \in Maybe
           /\ o[k] \in Sure => k <= Total
<1>0. /\ Matching = 1..Len(rows) /\ Len(rows) \in Nat /\ Pageable \in Nat /\ Total \in Nat
      /\ Total <= Pageable /\ \A S \in SUBSET Matching : IsFiniteSet(S) /\ Cardinality(S) \in Nat
      /\ (k <= Pageable <=> k <= Total)
  BY MatchingFinite DEF Total, AtMost
<1>1. /\ o \in [1..Len(rows) -> 1..Len(rows)]
      /\ \A i \in Matching : \E p \in 1..Len(rows) : o[p] = i
      /\ \A p, q \in 1..Len(rows) : p < q => o[p] # o[q] /\ rows[o[p]].name <= rows[o[q]].name
  BY OrderOnto
<1>n. \A i \in Matching : rows[i].name \in Nat
  BY RowTyped
<1> DEFINE below == {j \in Matching : rows[j].name < rows[o[k]].name}
           upTo == {j \in Matching : rows[j].name <= rows[o[k]].name}
<1>2. k - 1 \in Nat /\ k \in Nat /\ o[k] \in Matching
  <2>1. o[k] \in 1..Len(rows)
    BY <1>1
  <2> QED BY <1>0, <2>1
<1>3. Cardinality(below) <= k - 1 /\ Cardinality(below) \in Nat
  <2>1. ASSUME NEW j \in below PROVE \E r \in 1..(k - 1) : o[r] = j
    <3>1. PICK p \in 1..Len(rows) : o[p] = j
      BY <1>1
    <3>2. rows[o[p]].name < rows[o[k]].name /\ rows[o[p]].name \in Nat /\ rows[o[k]].name \in Nat
      BY <1>2, <1>n, <3>1
    <3>3. ~(k < p) /\ p # k
      BY <1>1, <3>2
    <3>4. p \in 1..(k - 1)
      BY <1>0, <3>3
    <3> QED BY <3>1, <3>4
  <2> HIDE DEF below
  <2> QED BY <1>2, <2>1, ImageBound
<1>4. k <= Cardinality(upTo) /\ Cardinality(upTo) \in Nat
  <2>1. ASSUME NEW r \in 1..k PROVE o[r] \in upTo
    <3>1. r \in 1..Len(rows) /\ (r < k \/ r = k)
      BY <1>0
    <3>2. rows[o[r]].name <= rows[o[k]].name
      BY <1>1, <1>2, <1>n, <3>1
    <3> QED BY <1>0, <1>1, <3>1, <3>2
  <2>2. \A p, q \in 1..k : p < q => o[p] # o[q]
    BY <1>0, <1>1
  <2>3. IsFiniteSet(upTo)
    BY <1>0
  <2> HIDE DEF upTo
  <2> QED BY <1>2, <2>1, <2>2, <2>3, InjectionBound
<1>5. ASSUME k <= Total PROVE o[k] \in Maybe
  <2>1. Cardinality(below) < Pageable
    <3> HIDE DEF below
    <3> QED BY <1>0, <1>2, <1>3, <1>5
  <2> QED BY <1>2, <2>1 DEF Maybe
<1>6. ASSUME o[k] \in Sure PROVE k <= Total
  <2>1. Cardinality(upTo) <= Pageable
    BY <1>6 DEF Sure
  <2> HIDE DEF upTo
  <2> QED BY <1>0, <1>2, <1>4, <2>1
<1> QED BY <1>5, <1>6

(* In name order, the rows as the database returns them.                   *)
LEMMA ByNameInOrder ==
    ASSUME ListType, byListeners = FALSE, NEW o \in NameOrders
    PROVE  InOrder(o)
<1>0. /\ Matching = 1..Len(rows) /\ Len(rows) \in Nat /\ Total = Len(rows)
  BY MatchingFinite DEF Total, Pageable, AtMost
<1>1. /\ o \in [1..Len(rows) -> 1..Len(rows)]
      /\ \A i \in Matching : \E p \in 1..Len(rows) : o[p] = i
      /\ \A p, q \in 1..Len(rows) : p < q => o[p] # o[q] /\ rows[o[p]].name <= rows[o[q]].name
  BY OrderOnto
<1>2. o \in Seq(Nat) /\ Len(o) = Total
  <2>1. PICK n : n = Len(rows)
    OBVIOUS
  <2>2. n \in Nat /\ o \in [1..n -> Nat]
    BY <1>0, <1>1, <2>1
  <2>3. o \in Seq(Nat) /\ Len(o) = n
    BY <2>2
  <2> QED BY <1>0, <2>1, <2>3
<1>3. \A p \in 1..Total : o[p] \in Maybe
  BY <1>0, ScanWindow
<1>4. \A i \in Sure : \E p \in 1..Total : o[p] = i
  BY <1>0, <1>1 DEF Sure
<1>5. ASSUME NEW p \in 1..Total, NEW q \in 1..Total, p < q PROVE o[p] # o[q] /\ ~Before(o[q], o[p])
  <2>1. o[p] # o[q] /\ rows[o[p]].name <= rows[o[q]].name /\ o[p] \in Matching /\ o[q] \in Matching
    BY <1>0, <1>1, <1>5
  <2>2. rows[o[p]].name \in Nat /\ rows[o[q]].name \in Nat
    BY <2>1, RowTyped
  <2> QED BY <2>1, <2>2 DEF Before
<1> QED BY <1>2, <1>3, <1>4, <1>5 DEF InOrder

(* By listeners, the scanned rows in the stable order of their counts.     *)
LEMMA ByListenersInOrder ==
    ASSUME ListType, byListeners = TRUE, NEW o \in NameOrders,
           NEW q \in StableSorts(ListPublic(o, ScanLimit, 0))
    PROVE  InOrder(SortByListeners(ListPublic(o, ScanLimit, 0), q))
<1> DEFINE scan == ListPublic(o, ScanLimit, 0)
           T == Total
           items == SortByListeners(scan, q)
<1>0. /\ Matching = 1..Len(rows) /\ Len(rows) \in Nat /\ T \in Nat /\ T <= Len(rows)
      /\ T = AtMost(ScanLimit, Len(rows))
  BY MatchingFinite DEF Pageable, Total
<1>1. /\ o \in [1..Len(rows) -> 1..Len(rows)]
      /\ \A i \in Matching : \E p \in 1..Len(rows) : o[p] = i
      /\ \A i, j \in 1..Len(rows) : i < j => o[i] # o[j] /\ rows[o[i]].name <= rows[o[j]].name
  BY OrderOnto
<1>2. scan \in Seq(Nat) /\ Len(scan) = T /\ \A i \in 1..T : scan[i] = o[i]
  <2>1. scan = SubSeq(o, 1, T)
    <3>1. 0 + 1 = 1 /\ 0 + ScanLimit = ScanLimit
      OBVIOUS
    <3> QED BY <1>0, <3>1 DEF ListPublic
  <2> HIDE DEF scan, T
  <2>2. ASSUME NEW i \in 1..T PROVE o[i] \in Nat
    <3>1. i \in 1..Len(rows)
      BY <1>0
    <3>2. o[i] \in 1..Len(rows)
      BY <1>1, <3>1
    <3> QED BY <3>2
  <2>3. /\ SubSeq(o, 1, T) \in Seq(Nat) /\ Len(SubSeq(o, 1, T)) = IF 1 <= T THEN T - 1 + 1 ELSE 0
        /\ \A i \in 1..(T - 1 + 1) : SubSeq(o, 1, T)[i] = o[1 + i - 1]
    BY <1>0, <2>2, SubSeqProperties
  <2>4. Len(SubSeq(o, 1, T)) = T
    BY <1>0, <2>3
  <2>5. ASSUME NEW i \in 1..T PROVE SubSeq(o, 1, T)[i] = o[i]
    <3>1. i \in 1..(T - 1 + 1) /\ 1 + i - 1 = i
      BY <1>0
    <3> QED BY <2>3, <3>1
  <2> QED BY <2>1, <2>3, <2>4, <2>5
<1> HIDE DEF scan
<1>3. DOMAIN scan = 1..T
  BY <1>2
<1>4. /\ q \in [1..T -> 1..T]
      /\ \A i, j \in 1..T :
            i < j => \/ rows[scan[q[i]]].count > rows[scan[q[j]]].count
                     \/ rows[scan[q[i]]].count = rows[scan[q[j]]].count /\ q[i] < q[j]
  BY <1>3 DEF StableSorts, scan
<1> HIDE DEF T
<1>c. ASSUME NEW i \in 1..T
      PROVE  /\ q[i] \in 1..T /\ q[i] \in 1..Len(rows) /\ o[q[i]] \in Matching /\ q[i] \in Nat /\ o[q[i]] \in Nat
             /\ rows[o[q[i]]].count \in Nat /\ rows[o[q[i]]].name \in Nat
  <2>1. q[i] \in 1..T
    BY <1>4
  <2>2. q[i] \in 1..Len(rows) /\ q[i] \in Nat
    BY <1>0, <2>1
  <2>3. o[q[i]] \in 1..Len(rows)
    BY <1>1, <2>2
  <2>4. o[q[i]] \in Matching /\ o[q[i]] \in Nat
    BY <1>0, <2>3
  <2> QED BY <2>1, <2>2, <2>4, RowTyped
<1>5. items \in Seq(Nat) /\ Len(items) = T /\ \A i \in 1..T : items[i] = o[q[i]]
  <2>1. items = [i \in 1..T |-> scan[q[i]]]
    BY <1>3 DEF SortByListeners
  <2>2. \A i \in 1..T : scan[q[i]] = o[q[i]] /\ o[q[i]] \in Nat
    BY <1>2, <1>c
  <2> HIDE DEF items
  <2> QED BY <1>0, <2>1, <2>2
<1> HIDE DEF items
<1>6. ASSUME NEW i \in 1..T, NEW j \in 1..T, i < j
      PROVE  \/ rows[o[q[i]]].count > rows[o[q[j]]].count
             \/ rows[o[q[i]]].count = rows[o[q[j]]].count /\ q[i] < q[j]
  <2>1. scan[q[i]] = o[q[i]] /\ scan[q[j]] = o[q[j]]
    BY <1>2, <1>c
  <2> QED BY <1>4, <1>6, <2>1
<1>7. \A i, j \in 1..T : i < j => q[i] # q[j]
  BY <1>c, <1>6
<1>8. \A i \in 1..T : items[i] \in Maybe
  <2> SUFFICES ASSUME NEW i \in 1..T PROVE o[q[i]] \in Maybe
    BY <1>5
  <2>1. q[i] \in 1..Len(rows) /\ q[i] <= Total
    BY <1>c, <1>0 DEF T
  <2> QED BY <2>1, ScanWindow
<1>9. ASSUME NEW s \in Sure PROVE \E p \in 1..T : items[p] = s
  <2>1. PICK k \in 1..Len(rows) : o[k] = s
    BY <1>1 DEF Sure
  <2>2. k \in 1..T
    BY <1>0, <2>1, ScanWindow DEF T
  <2>3. \A x \in 1..T : \E r \in 1..T : q[r] = x
    <3>1. IsFiniteSet(1..T) /\ Cardinality(1..T) = T
      <4>1. T \in Int /\ 1 \in Int /\ (1 > T => T = 0)
        BY <1>0
      <4>2. IsFiniteSet(1..T) /\ Cardinality(1..T) = IF 1 > T THEN 0 ELSE T - 1 + 1
        BY <4>1, FS_Interval
      <4> QED BY <4>1, <4>2
    <3>2. \A r \in 1..T : q[r] \in 1..T
      BY <1>4
    <3>3. PICK S : S = 1..T
      OBVIOUS
    <3>4. IsFiniteSet(S) /\ Cardinality(S) = T /\ \A r \in 1..T : q[r] \in S
      BY <3>1, <3>2, <3>3
    <3>5. \A x \in S : \E r \in 1..T : q[r] = x
      <4>1. T \in Nat
        BY <1>0
      <4> QED BY <4>1, <1>7, <3>4, InjectionBound
    <3> QED BY <3>3, <3>5
  <2>4. PICK r \in 1..T : q[r] = k
    BY <2>2, <2>3
  <2> QED BY <1>5, <2>1, <2>4
<1>10. ASSUME NEW i \in 1..T, NEW j \in 1..T, i < j PROVE items[i] # items[j] /\ ~Before(items[j], items[i])
  <2>1. o[q[i]] # o[q[j]]
    <3>1. q[i] < q[j] \/ q[j] < q[i]
      BY <1>c, <1>7, <1>10
    <3> QED BY <1>1, <1>c, <3>1
  <2>2. q[i] < q[j] => rows[o[q[i]]].name <= rows[o[q[j]]].name
    BY <1>1, <1>c
  <2>3. ~Before(o[q[j]], o[q[i]])
    <3> DEFINE ci == rows[o[q[i]]].count  ni == rows[o[q[i]]].name
               cj == rows[o[q[j]]].count  nj == rows[o[q[j]]].name
    <3>1. ci \in Nat /\ cj \in Nat /\ ni \in Nat /\ nj \in Nat
      BY <1>c
    <3>2. ci > cj \/ (ci = cj /\ ni <= nj)
      BY <1>6, <1>10, <2>2
    <3> HIDE DEF ci, cj, ni, nj
    <3>3. ~(cj > ci) /\ ~(cj = ci /\ nj < ni)
      BY <3>1, <3>2
    <3> QED BY <3>3 DEF Before, ci, cj, ni, nj
  <2> QED BY <1>5, <2>1, <2>3
<1> QED BY <1>5, <1>8, <1>9, <1>10 DEF InOrder, T, items, scan

(* A station of a sequence in order may stand where it stands: those that  *)
(* are sure to come before it are among the places before, and the places  *)
(* up to it hold none that must come after it.                             *)
LEMMA InOrderStands ==
    ASSUME ListType, NEW items, InOrder(items), NEW p \in 1..Total
    PROVE  MayStandAt(items[p], p)
<1>0. Total \in Nat /\ \A S \in SUBSET Matching : IsFiniteSet(S) /\ Cardinality(S) \in Nat
  BY MatchingFinite
<1> DEFINE s == items[p]
           ahead == {j \in Sure : Before(j, s)}
           room == {j \in Maybe : ~Before(s, j)}
<1>1. /\ \A r \in 1..Total : items[r] \in Maybe
      /\ \A i \in Sure : \E r \in 1..Total : items[r] = i
      /\ \A r, t \in 1..Total : r < t => items[r] # items[t] /\ ~Before(items[t], items[r])
  BY DEF InOrder
<1>2. ~Before(s, s)
  <2>1. s \in Matching
    BY <1>1 DEF Maybe
  <2>2. rows[s].name \in Nat /\ rows[s].count \in Nat
    BY <2>1, RowTyped
  <2> HIDE DEF s
  <2> QED BY <2>2 DEF Before
<1>3. p \in Nat /\ p - 1 \in Nat
  BY <1>0
<1>4. Cardinality(ahead) \in Nat /\ Cardinality(ahead) <= p - 1
  <2>1. ASSUME NEW j \in ahead PROVE \E r \in 1..(p - 1) : items[r] = j
    <3>1. PICK r \in 1..Total : items[r] = j
      BY <1>1
    <3>2. r # p /\ ~(p < r)
      BY <1>1, <1>2, <3>1
    <3>3. r \in 1..(p - 1)
      BY <1>0, <3>2
    <3> QED BY <3>1, <3>3
  <2> HIDE DEF ahead
  <2> QED BY <1>3, <2>1, ImageBound
<1>5. p <= Cardinality(room)
  <2>1. ASSUME NEW r \in 1..p PROVE items[r] \in room
    <3>1. r \in 1..Total /\ (r < p \/ r = p)
      BY <1>0
    <3> QED BY <1>1, <1>2, <3>1
  <2>2. \A r, t \in 1..p : r < t => items[r] # items[t]
    BY <1>0, <1>1
  <2>3. IsFiniteSet(room)
    <3>1. room \in SUBSET Matching
      BY DEF Maybe
    <3> QED BY <1>0, <3>1
  <2> HIDE DEF room
  <2> QED BY <1>3, <2>1, <2>2, <2>3, InjectionBound
<1>6. Cardinality(ahead) < p
  <2> HIDE DEF ahead
  <2> QED BY <1>3, <1>4
<1> QED BY <1>1, <1>5, <1>6 DEF MayStandAt

(* A page is the part of such a sequence from the offset on.               *)
LEMMA PageInOrder ==
    ASSUME ListType, offset <= Total, NEW o \in NameOrders, NEW page \in Pages(o)
    PROVE  /\ page \in Seq(Nat)
           /\ Len(page) = AtMost(offset + limit, Total) - offset
           /\ \A p \in 1..Len(page) : MayStandAt(page[p], offset + p)
           /\ \A p, q \in 1..Len(page) : p < q => page[p] # page[q]
<1>0. Total \in Nat /\ offset \in Nat /\ limit \in Nat /\ Len(rows) \in Nat
  BY MatchingFinite DEF ListType
<1> DEFINE upTo == AtMost(offset + limit, Total)
<1>1. upTo \in Nat /\ offset <= upTo /\ upTo <= Total
  BY <1>0 DEF AtMost
<1>2. PICK items : InOrder(items) /\ page = SubSeq(items, offset + 1, upTo)
  <2>1. CASE byListeners = TRUE
    <3>0. PICK q \in StableSorts(ListPublic(o, ScanLimit, 0)) :
              page = pageOf(SortByListeners(ListPublic(o, ScanLimit, 0), q), offset, limit)
      BY <2>1 DEF Pages
    <3> DEFINE items == SortByListeners(ListPublic(o, ScanLimit, 0), q)
    <3>1. InOrder(items)
      BY <2>1, ByListenersInOrder
    <3>2. page = pageOf(items, offset, limit)
      BY <3>0
    <3> HIDE DEF items
    <3>3. Len(items) = Total
      BY <3>1 DEF InOrder
    <3>4. CASE offset >= Total
      <4>1. page = <<>>
        BY <3>2, <3>3, <3>4 DEF pageOf
      <4>2. offset + 1 \in Int /\ upTo \in Int /\ upTo < offset + 1
        BY <1>0, <1>1, <3>4
      <4> HIDE DEF upTo
      <4>3. SubSeq(items, offset + 1, upTo) = <<>>
        BY <4>2, SubSeqEmpty
      <4> QED BY <3>1, <4>1, <4>3
    <3>5. CASE ~(offset >= Total)
      <4>1. page = SubSeq(items, offset + 1, upTo)
        BY <3>2, <3>3, <3>5 DEF pageOf
      <4> QED BY <3>1, <4>1
    <3> QED BY <3>4, <3>5
  <2>2. CASE byListeners = FALSE
    <3>1. Total = Len(rows)
      BY <1>0, <2>2 DEF Total, Pageable, AtMost
    <3>2. page = SubSeq(o, offset + 1, upTo)
      BY <2>2, <3>1 DEF Pages, ListPublic
    <3> QED BY <2>2, <3>2, ByNameInOrder
  <2> QED BY <2>1, <2>2 DEF ListType
<1> HIDE DEF upTo
<1>3. \A i \in (offset + 1)..upTo : i \in 1..Total
  BY <1>0, <1>1
<1>4. /\ \A i \in 1..Total : items[i] \in Nat /\ MayStandAt(items[i], i)
      /\ \A i, j \in 1..Total : i < j => items[i] # items[j]
  BY <1>0, <1>2, InOrderStands DEF InOrder
<1>5. /\ page \in Seq(Nat)
      /\ Len(page) = IF offset + 1 <= upTo THEN upTo - (offset + 1) + 1 ELSE 0
      /\ \A i \in 1..(upTo - (offset + 1) + 1) : page[i] = items[(offset + 1) + i - 1]
  <2>1. offset + 1 \in Int /\ upTo \in Int /\ \A i \in (offset + 1)..upTo : items[i] \in Nat
    BY <1>0, <1>1, <1>3, <1>4
  <2> QED BY <1>2, <2>1, SubSeqProperties
<1>6. Len(page) = upTo - offset
  BY <1>0, <1>1, <1>5
<1>7. ASSUME NEW p \in 1..Len(page) PROVE offset + p \in 1..Total /\ page[p] = items[offset + p]
  <2>1. p \in 1..(upTo - (offset + 1) + 1) /\ offset + p \in 1..Total /\ (offset + 1) + p - 1 = offset + p
    BY <1>0, <1>1, <1>6
  <2> QED BY <1>5, <2>1
<1>8. ASSUME NEW p \in 1..Len(page), NEW q \in 1..Len(page), p < q PROVE page[p] # page[q]
  <2>1. offset + p < offset + q
    BY <1>0, <1>1, <1>6, <1>8
  <2> QED BY <1>4, <1>7, <2>1
<1> QED BY <1>4, <1>5, <1>6, <1>7, <1>8 DEF upTo

LEMMA InitListInv == ListInit => ListInv
<1> SUFFICES ASSUME ListInit PROVE ListInv
  OBVIOUS
<1>1. PICK n \in 0..MaxRows : rows \in [1..n -> [name : Names, count : Counts]]
  BY DEF ListInit
<1>2. rows \in Seq([name : Nat, count : Nat])
  <2>1. n \in Nat
    OBVIOUS
  <2>2. [name : Names, count : Counts] \subseteq [name : Nat, count : Nat]
    OBVIOUS
  <2>3. PICK R, Q : R = [name : Names, count : Counts] /\ Q = [name : Nat, count : Nat]
    OBVIOUS
  <2>4. rows \in [1..n -> R] /\ R \subseteq Q
    BY <1>1, <2>2, <2>3
  <2>5. rows \in [1..n -> Q]
    BY <2>4, Zenon
  <2>6. rows \in Seq(Q)
    BY <2>1, <2>5, SeqDef
  <2> QED BY <2>3, <2>6
<1>3. byListeners \in BOOLEAN /\ limit \in Nat \ {0} /\ offset = 0 /\ shown = <<>> /\ more = TRUE
  BY DEF ListInit
<1>4. ListType
  BY <1>2, <1>3 DEF ListType
<1>5. AtMost(0, Total) = 0
  BY <1>4, MatchingFinite DEF AtMost
<1> QED BY <1>3, <1>4, <1>5 DEF ListInv

(* A request appends the next page to what the client has.                 *)
LEMMA StepListInv == ListInv /\ [List]_listVars => ListInv'
<1> SUFFICES ASSUME ListInv, [List]_listVars PROVE ListInv'
  OBVIOUS
<1>0. /\ ListType
      /\ byListeners \in BOOLEAN /\ more \in BOOLEAN
      /\ limit \in Nat \ {0} /\ offset \in Nat /\ shown \in Seq(Nat)
      /\ Len(shown) = AtMost(offset, Total)
      /\ \A p \in 1..Len(shown) : MayStandAt(shown[p], p)
      /\ more /\ offset > 0 => offset < Total
  BY DEF ListInv, ListType
<1>1. Total \in Nat
  BY <1>0, MatchingFinite
<1>2. CASE UNCHANGED listVars
  <2>1. UNCHANGED <<rows, byListeners, limit, offset, shown, more>>
    BY <1>2 DEF listVars
  <2>2. Total' = Total /\ \A p \in 1..Len(shown) : MayStandAt(shown[p], p)' <=> MayStandAt(shown[p], p)
    BY <2>1 DEF Total, Pageable, MayStandAt, Maybe, Sure, Before, Matching, AtMost
  <2> QED BY <2>1, <2>2 DEF ListInv, ListType, AtMost
<1>3. CASE List
  <2>0. PICK o \in NameOrders : \E page \in Pages(o) : shown' = shown \o page
    BY <1>3 DEF List
  <2>p. PICK page \in Pages(o) : shown' = shown \o page
    BY <2>0
  <2>1. /\ more /\ more' = HasMore /\ offset' = offset + limit
        /\ rows' = rows /\ byListeners' = byListeners /\ limit' = limit
    BY <1>3 DEF List
  <2>2. offset <= Total
    BY <1>0, <1>1, <2>1
  <2>3. Len(shown) = offset
    BY <1>0, <1>1, <2>2 DEF AtMost
  <2>4. /\ page \in Seq(Nat)
        /\ Len(page) = AtMost(offset + limit, Total) - offset
        /\ \A p \in 1..Len(page) : MayStandAt(page[p], offset + p)
        /\ \A p, q \in 1..Len(page) : p < q => page[p] # page[q]
    BY <1>0, <2>2, PageInOrder
  <2>5. Total' = Total /\ \A i, p : MayStandAt(i, p)' <=> MayStandAt(i, p)
    BY <2>1 DEF Total, Pageable, MayStandAt, Maybe, Sure, Before, Matching, AtMost
  <2>6. HasMore <=> offset + limit < Total
    BY <1>0, MatchingFinite DEF HasMore, Total, Pageable, AtMost
  <2>7. HasMore \in BOOLEAN
    BY DEF HasMore
  <2> DEFINE upTo == AtMost(offset + limit, Total)
  <2>8. upTo \in Nat /\ offset <= upTo
    BY <1>0, <1>1, <2>2 DEF AtMost
  <2> HIDE DEF upTo
  <2>9. /\ shown' \in Seq(Nat) /\ Len(shown') = Len(shown) + Len(page)
        /\ \A p \in 1..(Len(shown) + Len(page)) :
              shown'[p] = IF p <= Len(shown) THEN shown[p] ELSE page[p - Len(shown)]
    BY <1>0, <2>p, <2>4, ConcatProperties
  <2>10. Len(shown') = upTo /\ Len(page) = upTo - offset
    BY <1>0, <2>3, <2>4, <2>8, <2>9 DEF upTo
  <2>a. ASSUME NEW p \in 1..upTo, p > offset
        PROVE  p - offset \in 1..Len(page) /\ shown'[p] = page[p - offset]
    BY <1>0, <2>3, <2>8, <2>9, <2>10, <2>a
  <2>11. ASSUME NEW p \in 1..upTo PROVE MayStandAt(shown'[p], p)
    <3>2. CASE p <= offset
      <4>1. p \in 1..Len(shown) /\ shown'[p] = shown[p]
        BY <1>0, <2>3, <2>8, <2>9, <2>10, <3>2
      <4> QED BY <1>0, <4>1
    <3>3. CASE p > offset
      <4>1. p - offset \in 1..Len(page) /\ shown'[p] = page[p - offset] /\ offset + (p - offset) = p
        BY <1>0, <2>8, <2>a, <3>3
      <4> QED BY <2>4, <4>1
    <3> QED BY <1>0, <2>8, <3>2, <3>3
  <2>12. (\A p \in 1..Len(shown) : MayStandAt(shown[p], p))'
    <3> SUFFICES ASSUME NEW p \in 1..Len(shown') PROVE MayStandAt(shown[p], p)'
      OBVIOUS
    <3>1. MayStandAt(shown'[p], p)
      BY <2>10, <2>11
    <3>2. MayStandAt(shown[p], p)' <=> MayStandAt(shown'[p], p)
      BY <2>1 DEF MayStandAt, Maybe, Sure, Before, Matching, Pageable
    <3> QED BY <3>1, <3>2
  <2>b. (\A p, q \in 1..Len(shown) : p + limit > offset /\ p < q => shown[p] # shown[q])'
    <3> SUFFICES ASSUME NEW p \in 1..Len(shown'), NEW q \in 1..Len(shown'), p + limit > offset + limit, p < q
                 PROVE  shown'[p] # shown'[q]
      BY <2>1
    <3>1. p \in 1..upTo /\ q \in 1..upTo /\ p > offset /\ q > offset /\ p - offset < q - offset
      BY <1>0, <2>8, <2>10
    <3> QED BY <2>4, <2>a, <3>1
  <2>13. (Len(shown) = AtMost(offset, Total))'
    BY <2>1, <2>5, <2>10 DEF upTo, AtMost
  <2>14. /\ ~more' => offset' >= Total'
         /\ more' /\ offset' > 0 => offset' < Total'
    BY <1>0, <1>1, <2>1, <2>5, <2>6
  <2>15. ListType'
    BY <1>0, <2>1, <2>7, <2>9 DEF ListType
  <2> QED BY <2>12, <2>b, <2>13, <2>14, <2>15 DEF ListInv
<1> QED BY <1>2, <1>3 DEF List

(* Whatever the number of stations, their names, listeners, the page size  *)
(* and the scan limit, and however the database orders equal names in each *)
(* request: every page Handler.List answers with holds, place by place,    *)
(* stations that may stand there in the whole list, none of them twice,    *)
(* and has_more ends the walk exactly when nothing is left.                *)
THEOREM PagesCorrect == ListSpec => []PagesHonest
<1>1. ListInv => PagesHonest
  <2> SUFFICES ASSUME ListInv PROVE PagesHonest
    OBVIOUS
  <2>1. Total \in Nat /\ Total = AtMost(Pageable, Len(rows))
    BY MatchingFinite DEF ListInv, Total
  <2>2. Len(shown) = AtMost(offset, Total) /\ offset \in Nat /\ DOMAIN shown = 1..Len(shown)
    BY DEF ListInv, ListType
  <2>3. Len(shown) <= Total /\ (~more => Len(shown) = Total)
    BY <2>1, <2>2 DEF ListInv, AtMost
  <2> QED BY <2>1, <2>2, <2>3 DEF ListInv, PagesHonest
<1> QED BY <1>1, InitListInv, StepListInv, PTL DEF ListSpec
=============================================================================
