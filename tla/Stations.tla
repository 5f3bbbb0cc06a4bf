------------------------------ MODULE Stations ------------------------------
(***************************************************************************)
(* The stations table, the requests and provision jobs that insert into    *)
(* it, and the poller that asks every active tenant's dashboard for its    *)
(* status, keeps the answer in a cache and writes is_online.  Tenant rows  *)
(* change while a poll cycle works on the list it has read.                *)
(***************************************************************************)
EXTENDS Naturals, FiniteSets

CONSTANTS
    Tenants,
    IPs,            \* addresses of tenants
    AllowedIPs,     \* those isAllowedIP lets through: 10.0.0.0/8
    Slugs,
    SubdomainOf,    \* the slug a tenant's job inserts its station under
    MaxStations,    \* station limit of each tenant's tier
    MaxCreates,     \* bound on the creates in flight at once
    None

ASSUME AddressAssumption == AllowedIPs \subseteq IPs
ASSUME SlugAssumption    == SubdomainOf \in [Tenants -> Slugs]
ASSUME LimitAssumption   == MaxStations \in [Tenants -> Nat \ {0}]
ASSUME BoundAssumption   == MaxCreates \in Nat \ {0}

\* What the columns of a station that matter here can hold.
StationRow == [tenant : Tenants, online : BOOLEAN]

ASSUME NobodyAssumption == None \notin Tenants \cup IPs \cup Slugs \cup StationRow

VARIABLES
    row,        \* tenants: status, lxc_ip and whether lxc_id is set
    net,        \* the address each tenant's container is configured with, if it has one
    job,        \* tenants whose provision job has yet to look for their station
    shared,     \* history: tenants whose address was chosen a second time unseen
    station,    \* stations: the row under each slug, None when there is none
    creating,   \* creates that have passed their check and have yet to insert
    cache,      \* the poller's map: whose dashboard gave the answer kept for a tenant
    poll        \* the poll cycle: tenants still to ask, and the answer in hand

tenantVars == <<row, net, job, shared>>
vars == <<tenantVars, station, creating, cache, poll>>

IdlePoll == [todo |-> {}, cur |-> None, online |-> FALSE]

Init ==
    /\ row = [t \in Tenants |-> [status |-> "absent", ip |-> None, lxc |-> FALSE]]
    /\ net = [t \in Tenants |-> None]
    /\ job = {}
    /\ shared = {}
    /\ station = [s \in Slugs |-> None]
    /\ creating = {}
    /\ cache = [t \in Tenants |-> None]
    /\ poll = IdlePoll

-----------------------------------------------------------------------------
(* Tenant rows, containers and provision jobs, as far as stations depend on *)
(* them: see Lifecycle.  A row that is being deleted is like one in error:  *)
(* not polled, its address taken.                                           *)

Live == {t \in Tenants : row[t].status \notin {"absent", "deleted"}}

\* A job at work on its tenant.
Provisioning(t) == t \in job /\ row[t].status = "provisioning"

CreateTenant(t) ==
    /\ row[t].status = "absent"
    /\ row' = [row EXCEPT ![t].status = "provisioning"]
    /\ job' = job \cup {t}
    /\ UNCHANGED <<net, shared, station, creating, cache, poll>>

\* Mutant: a suspended tenant's address is free.
FreeIPs_Suspended == IPs \ {row[t].ip : t \in {u \in Live : row[u].status # "suspended"}}

FreeIPs == IPs \ {row[t].ip : t \in Live}

\* Containers that have an address no row of a live tenant tells of: it is not
\* stored yet or its update failed, or the row, which has no lxc_id, was deleted
\* and the container left behind.
Unseen(ip) == {u \in Tenants : net[u] = ip /\ (row[u].ip = None \/ row[u].status = "deleted")}

\* GetNextAvailableIP, whose lock ends with it, and ConfigureNetwork.
ChooseIP(t) ==
    /\ Provisioning(t) /\ net[t] = None
    /\ \E ip \in FreeIPs :
           /\ net' = [net EXCEPT ![t] = ip]
           /\ shared' = IF Unseen(ip) = {} THEN shared ELSE shared \cup Unseen(ip) \cup {t}
    /\ UNCHANGED <<row, job, station, creating, cache, poll>>

\* An error of the update is logged, and the job goes on to SetActive.
SetLXCIP(t) ==
    /\ Provisioning(t) /\ net[t] # None
    /\ row' = [row EXCEPT ![t].ip = net[t]]
    /\ UNCHANGED <<net, job, shared, station, creating, cache, poll>>

\* SetActive; a project without a network gives no address.
Activate(t) ==
    /\ Provisioning(t)
    /\ row' = [row EXCEPT ![t].status = "active", ![t].lxc = TRUE]
    /\ UNCHANGED <<net, job, shared, station, creating, cache, poll>>

\* A step of the job fails; the cleanup of the container may fail as well.
Fail(t) ==
    /\ Provisioning(t)
    /\ row' = [row EXCEPT ![t].status = "error"]
    /\ job' = job \ {t}
    /\ net' \in {net, [net EXCEPT ![t] = None]}
    /\ UNCHANGED <<shared, station, creating, cache, poll>>

SetStatus(t, from, to) ==
    /\ row[t].status \in from
    /\ row' = [row EXCEPT ![t].status = to]
    /\ UNCHANGED <<net, job, shared, station, creating, cache, poll>>

\* The container goes if the row tells of it.  A deleted row stays, with its
\* address, and so do its stations.
SetDeleted(t) ==
    /\ row[t].status = "error"
    /\ row' = [row EXCEPT ![t].status = "deleted"]
    /\ net' = IF row[t].lxc THEN [net EXCEPT ![t] = None] ELSE net
    /\ UNCHANGED <<job, shared, station, creating, cache, poll>>

TenantStep(t) ==
    \/ CreateTenant(t) \/ ChooseIP(t) \/ SetLXCIP(t) \/ Activate(t) \/ Fail(t)
    \/ SetStatus(t, {"active"}, "suspended")
    \/ SetStatus(t, {"suspended"}, "active")
    \/ SetStatus(t, {"active", "suspended"}, "error")
    \/ SetDeleted(t)

-----------------------------------------------------------------------------
(* Creating a station: the check and the INSERT are two statements. *)

StationsOf(t) == {s \in Slugs : station[s] # None /\ station[s].tenant = t}

\* A create passes its check.
BeginCreate(c) ==
    /\ Cardinality(creating) < MaxCreates
    /\ creating' = creating \cup {c}
    /\ UNCHANGED <<row, net, shared, station, cache, poll>>

\* Mutant: a tenant at its limit gets one more.
UnderLimit_OffByOne(t) == Cardinality(StationsOf(t)) <= MaxStations[t]

UnderLimit(t) == Cardinality(StationsOf(t)) < MaxStations[t]

\* Handler.Create up to the limit.  The tenant's row must exist, deleted or not.
CreateCheck(t, s) ==
    /\ row[t].status # "absent"
    /\ UnderLimit(t)
    /\ BeginCreate([tenant |-> t, slug |-> s])
    /\ UNCHANGED job

\* AutoCreateStation: nothing to do for a tenant that has a station; an error of
\* the lookup is logged.
AutoCheck(t) ==
    /\ t \in job
    /\ row[t].status # "provisioning"
    /\ job' = job \ {t}
    /\ \/ /\ StationsOf(t) = {}
          /\ BeginCreate([tenant |-> t, slug |-> SubdomainOf[t]])
       \/ UNCHANGED <<row, net, shared, station, creating, cache, poll>>

\* The INSERT, refused when the slug is taken; is_online defaults to false.
Insert(c) ==
    /\ c \in creating
    /\ creating' = creating \ {c}
    /\ \/ /\ station[c.slug] = None
          /\ station' = [station EXCEPT ![c.slug] = [tenant |-> c.tenant, online |-> FALSE]]
       \/ UNCHANGED station
    /\ UNCHANGED <<tenantVars, cache, poll>>

\* Update of is_online, and of the slug if the new one is free.
Update(s, to, online) ==
    /\ station[s] # None
    /\ to = s \/ station[to] = None
    /\ station' = [[station EXCEPT ![s] = None] EXCEPT
                       ![to] = [tenant |-> station[s].tenant, online |-> online]]
    /\ UNCHANGED <<tenantVars, creating, cache, poll>>

Delete(s) ==
    /\ station[s] # None
    /\ station' = [station EXCEPT ![s] = None]
    /\ UNCHANGED <<tenantVars, creating, cache, poll>>

-----------------------------------------------------------------------------
(* The poller. *)

\* Mutant: tenants without an address are listed.
Pollable_NoIP(t) == row[t].status = "active"

Pollable(t) == row[t].status = "active" /\ row[t].ip # None

\* ListPollable.  A failed list ends the cycle before it has begun.
PollList ==
    /\ poll = IdlePoll
    /\ \E t \in Tenants : Pollable(t)
    /\ poll' = [poll EXCEPT !.todo = {[tenant |-> t, ip |-> row[t].ip] :
                                      t \in {u \in Tenants : Pollable(u)}}]
    /\ UNCHANGED <<tenantVars, station, creating, cache>>

\* Mutant: a disallowed address ends the cycle.
PollSkip_EndsCycle(e) ==
    /\ poll.cur = None
    /\ e \in poll.todo
    /\ e.ip \notin AllowedIPs
    /\ poll' = IdlePoll
    /\ UNCHANGED <<tenantVars, station, creating, cache>>

PollSkip(e) ==
    /\ poll.cur = None
    /\ e \in poll.todo
    /\ e.ip \notin AllowedIPs
    /\ poll' = [poll EXCEPT !.todo = @ \ {e}]
    /\ UNCHANGED <<tenantVars, station, creating, cache>>

\* What a request can bring back: the answer of a container that has the address
\* now, in any stream mode, or the zero status of a request that failed, which
\* says nothing and counts as the tenant's own.
Answers(e) ==
    {[from |-> e.tenant, online |-> FALSE]} \cup
    [from : {t \in Tenants : net[t] = e.ip}, online : BOOLEAN]

\* fetchStatus and the store into the cache; the list is in no order.
PollFetch(e) ==
    /\ poll.cur = None
    /\ e \in poll.todo
    /\ e.ip \in AllowedIPs
    /\ \E a \in Answers(e) :
           /\ cache' = [cache EXCEPT ![e.tenant] = a.from]
           /\ poll' = [todo |-> poll.todo \ {e}, cur |-> e.tenant, online |-> a.online]
    /\ UNCHANGED <<tenantVars, station, creating>>

\* SetOnline updates every station of the tenant; an error is logged.
SetOnline(t) ==
    /\ poll.cur = t
    /\ poll' = [poll EXCEPT !.cur = None, !.online = FALSE]
    /\ station' = [s \in Slugs |-> IF s \in StationsOf(t)
                                   THEN [tenant |-> t, online |-> poll.online]
                                   ELSE station[s]]
    /\ UNCHANGED <<tenantVars, creating, cache>>

SetOnlineFails(t) ==
    /\ poll.cur = t
    /\ poll' = [poll EXCEPT !.cur = None, !.online = FALSE]
    /\ UNCHANGED <<tenantVars, station, creating, cache>>

PollStep ==
    \/ \E e \in poll.todo : PollSkip(e) \/ PollFetch(e)
    \/ \E t \in Tenants : SetOnline(t) \/ SetOnlineFails(t)

\* The process restarts: the cache is empty, jobs and requests are gone, and the
\* first cycle starts at once.
Restart ==
    /\ job' = {}
    /\ creating' = {}
    /\ cache' = [t \in Tenants |-> None]
    /\ poll' = IdlePoll
    /\ UNCHANGED <<row, net, shared, station>>

Next ==
    \/ \E t \in Tenants : TenantStep(t) \/ AutoCheck(t) \/ \E s \in Slugs : CreateCheck(t, s)
    \/ \E c \in creating : Insert(c)
    \/ \E s, to \in Slugs, online \in BOOLEAN : Update(s, to, online)
    \/ \E s \in Slugs : Delete(s)
    \/ PollList \/ PollStep
    \/ Restart

Spec == Init /\ [][Next]_vars

\* The ticker never stops and every request of the poller has a timeout, so a
\* cycle starts and goes on.  A statement may fail any number of times in a
\* row, but not for ever: strong fairness of the update that succeeds.
PollerFairness ==
    /\ WF_vars(PollList)
    /\ WF_vars(PollStep)
    /\ \A t \in Tenants : SF_vars(SetOnline(t))

FairSpec == Spec /\ PollerFairness

-----------------------------------------------------------------------------
(* The variables have their types. *)
TypeOK ==
    /\ row \in [Tenants -> [status : {"absent", "provisioning", "active", "suspended", "error", "deleted"},
                            ip : IPs \cup {None}, lxc : BOOLEAN]]
    /\ net \in [Tenants -> IPs \cup {None}]
    /\ job \subseteq Tenants /\ shared \subseteq Tenants
    /\ station \in [Slugs -> StationRow \cup {None}]
    /\ creating \subseteq [tenant : Tenants, slug : Slugs]
    /\ cache \in [Tenants -> Tenants \cup {None}]
    /\ poll \in [todo : SUBSET [tenant : Tenants, ip : IPs],
                 cur : Tenants \cup {None}, online : BOOLEAN]

(* The list a cycle works on grows old while it runs, and addresses are     *)
(* given to other tenants meanwhile: what is shown of a tenant that is not  *)
(* deleted was nevertheless said by its own dashboard, however jobs choose, *)
(* store and give back addresses.  Only a tenant whose address was chosen a *)
(* second time before the row told of it (see DistinctIPs of Lifecycle), or *)
(* was left in use by a container without a row, may show what another says.*)
OwnStatus ==
    \A t \in Tenants :
        row[t].status # "deleted" /\ t \notin shared => cache[t] \in {t, None}

(* "Enforce tier station limits", with the race the code notes between COUNT*)
(* and INSERT: however requests, jobs, renames and restarts interleave, a   *)
(* tenant exceeds its limit by less than the number of creates that ran at  *)
(* once, and by nothing when they ran one at a time.                        *)
StationLimit ==
    \A t \in Tenants :
        Cardinality(StationsOf(t)) + Cardinality({c \in creating : c.tenant = t})
            < MaxStations[t] + MaxCreates

\* From now on the tenant stays pollable, and every answer says b.
Steady(t, b) ==
    /\ Pollable(t) /\ row[t].ip \in AllowedIPs
    /\ poll.cur = t => poll.online = b

(* All stations of a tenant show again and again what its dashboard keeps   *)
(* saying, once the process stays up: no other tenant of the list and no    *)
(* failed update keeps the poller from it.                                  *)
OnlineFollows ==
    \A t \in Tenants, b \in BOOLEAN :
        (<>[][~Restart]_vars /\ <>[]Steady(t, b))
            => []<>(\A s \in StationsOf(t) : station[s].online = b)
=============================================================================
