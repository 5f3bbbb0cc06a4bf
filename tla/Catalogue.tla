------------------------------ MODULE Catalogue ------------------------------
(***************************************************************************)
(* What operators edit while tenants come and go: nodes, projects, the     *)
(* Proxmox clients cached from the nodes' rows, and the RAM that creates   *)
(* reserve and deletes release by the figure of a project's row.           *)
(*                                                                         *)
(* A tenant's own life is told by Lifecycle; here it is only as long as    *)
(* the rows and the RAM figure it depends on.                              *)
(***************************************************************************)
EXTENDS Integers, FiniteSets, FiniteSetsExt

CONSTANTS
    Nodes,          \* node ids; one is never used again after its row is gone
    Projects,       \* project ids: numbers, given out in the order of creation
    Tenants,
    Ops,            \* operator requests that can be in flight at the same time
    NodeStatuses,   \* of nodes.status: "active" and others
    URLs,           \* values of nodes.proxmox_url
    ApiTokens,      \* values of nodes.api_token_encrypted
    Totals,         \* values of nodes.total_ram_mb
    RamValues,      \* values of projects.ram_mb
    MaxEdits,       \* bound on the updates and deletes operators ask for
    Absent,
    Gone

ASSUME ProjectAssumption == Projects \subseteq Nat
ASSUME ValueAssumption   == Totals \subseteq Nat \ {0} /\ RamValues \subseteq Nat
ASSUME EditsAssumption   == MaxEdits \in Nat
ASSUME StatusAssumption  == "active" \in NodeStatuses
ASSUME TenantAssumption  == IsFiniteSet(Tenants)

\* What the columns of a node, and the fields of a client, can hold.
NodeRow == [status : NodeStatuses, url : URLs, token : ApiTokens, total : Totals, allocated : Nat]
Client  == [url : URLs, token : ApiTokens]

ASSUME AbsentAssumption ==
    /\ Absent # Gone
    /\ {Absent, Gone} \cap (Nodes \cup Projects \cup URLs \cup ApiTokens \cup RamValues) = {}
    /\ \A x \in {Absent, Gone} : x \notin NodeRow /\ x \notin Client

VARIABLES
    node,       \* nodes: the row of each id, Absent before it is inserted, Gone after
    project,    \* projects: ram_mb of each id, or Absent, or Gone
    tenant,     \* tenants: the row and the request or job that works on it
    op,         \* what each operator request has still to do
    clients,    \* Provisioner.clients: the cached client of each node
    filling,    \* the getClient that holds Provisioner.mu, and what it has read
    edits,      \* updates and deletes asked for so far
    \* History, read by no action:
    movedAlone, \* nodes whose URL was changed without their token
    edited,     \* projects whose ram_mb was changed while a tenant used them
    failed      \* tenants whose job has failed

catVars == <<node, project, tenant, op, clients, filling, edits, movedAlone, edited, failed>>
historyVars == <<movedAlone, edited, failed>>

OpIdle == [kind |-> "idle"]
NotFilling == [node |-> Absent, url |-> Absent, token |-> Absent]

\* step is "new", then the statement a create, a job or a delete has still to
\* run ("project", "node", "reserve", "insert", "release", "running",
\* "failing", "deleting"), or how it ended ("refused", "active", "error",
\* "deleted").  ram is the figure in the hands of the create, job or delete.
Unborn == [step |-> "new", node |-> Absent, project |-> Absent, ram |-> 0]

CatInit ==
    /\ node = [n \in Nodes |-> Absent]
    /\ project = [p \in Projects |-> Absent]
    /\ tenant = [t \in Tenants |-> Unborn]
    /\ op = [r \in Ops |-> OpIdle]
    /\ clients = [n \in Nodes |-> Absent]
    /\ filling = NotFilling
    /\ edits = 0
    /\ movedAlone = {}
    /\ edited = {}
    /\ failed = {}

HasNode(n) == node[n] \notin {Absent, Gone}
HasProject(p) == project[p] \notin {Absent, Gone}

\* Tenants with a row, and those whose row says anything but 'deleted'.
Rows == {t \in Tenants : tenant[t].step \in
            {"running", "failing", "active", "error", "deleting", "deleted"}}
LiveRows == {t \in Rows : tenant[t].step # "deleted"}

-----------------------------------------------------------------------------
(* node.Store and project.Store, as the API and the admin pages call them. *)

Edit == edits < MaxEdits /\ edits' = edits + 1

CreateNode(n) ==
    /\ node[n] = Absent
    /\ \E u \in URLs, k \in ApiTokens, ram \in Totals :
          node' = [node EXCEPT ![n] = [status |-> "active", url |-> u, token |-> k,
                                       total |-> ram, allocated |-> 0]]
    /\ UNCHANGED <<edits, project, tenant, op, clients, filling, historyVars>>

\* Update sets the fields that are given; the total only when no less is
\* allocated.  With a new token the handler has still to drop the client.
UpdateNodeRow(n, status, total) ==
    /\ Edit
    /\ HasNode(n)
    /\ node[n].allocated <= total
    /\ node' = [node EXCEPT ![n].status = status, ![n].total = total]
    /\ UNCHANGED <<project, tenant, op, clients, filling, historyVars>>

UpdateNodeAccess(r, n, url, token) ==
    /\ Edit
    /\ op[r] = OpIdle
    /\ HasNode(n)
    /\ node' = [node EXCEPT ![n].url = url, ![n].token = token]
    /\ op' = [op EXCEPT ![r] = [kind |-> "invalidate", of |-> n]]
    /\ UNCHANGED <<project, tenant, clients, filling, historyVars>>

UpdateNodeURL(n, url) ==
    /\ Edit
    /\ HasNode(n)
    /\ url # node[n].url
    /\ node' = [node EXCEPT ![n].url = url]
    /\ movedAlone' = movedAlone \cup {n}
    /\ UNCHANGED <<project, tenant, op, clients, filling, edited, failed>>

\* Create puts the default for a figure of 0; Update stores what it is given.
CreateProject(p) ==
    /\ project[p] = Absent
    /\ \A q \in Projects : q < p => project[q] # Absent
    /\ \E ram \in RamValues \ {0} : project' = [project EXCEPT ![p] = ram]
    /\ UNCHANGED <<edits, node, tenant, op, clients, filling, historyVars>>

UpdateProject(p, ram) ==
    /\ Edit
    /\ HasProject(p)
    /\ ram # project[p]
    /\ project' = [project EXCEPT ![p] = ram]
    /\ edited' = edited \cup {q \in {p} : \E t \in Tenants : tenant[t].project = p}
    /\ UNCHANGED <<node, tenant, op, clients, filling, movedAlone, failed>>

\* CountTenants finds no tenant that is not deleted; the DELETE comes next.
DeleteNodeCheck(r, n) ==
    /\ Edit
    /\ op[r] = OpIdle
    /\ HasNode(n)
    /\ \A t \in LiveRows : tenant[t].node # n
    /\ op' = [op EXCEPT ![r] = [kind |-> "deleteNode", of |-> n]]
    /\ UNCHANGED <<node, project, tenant, clients, filling, historyVars>>

DeleteProjectCheck(r, p) ==
    /\ Edit
    /\ op[r] = OpIdle
    /\ HasProject(p)
    /\ \A t \in LiveRows : tenant[t].project # p
    /\ op' = [op EXCEPT ![r] = [kind |-> "deleteProject", of |-> p]]
    /\ UNCHANGED <<node, project, tenant, clients, filling, historyVars>>

\* Mutant: the tables have no foreign keys.
Referenced_Never(field, id) == FALSE

\* REFERENCES projects(id), REFERENCES nodes(id): deleted rows count too.
Referenced(field, id) == \E t \in Rows : tenant[t][field] = id

\* The DELETE is refused, or its row goes, or it is no longer there.
DeleteNode(r) ==
    /\ op[r].kind = "deleteNode"
    /\ node' = IF Referenced("node", op[r].of) THEN node
                                               ELSE [node EXCEPT ![op[r].of] = Gone]
    /\ op' = [op EXCEPT ![r] = OpIdle]
    /\ UNCHANGED <<edits, project, tenant, clients, filling, historyVars>>

DeleteProject(r) ==
    /\ op[r].kind = "deleteProject"
    /\ project' = IF Referenced("project", op[r].of) THEN project
                                                     ELSE [project EXCEPT ![op[r].of] = Gone]
    /\ op' = [op EXCEPT ![r] = OpIdle]
    /\ UNCHANGED <<edits, node, tenant, clients, filling, historyVars>>

-----------------------------------------------------------------------------
(* The cached clients.  getClient holds the lock over both reads. *)

\* Mutant: the client is dropped without the lock.
InvalidateClient_NoLock(r) ==
    /\ op[r].kind = "invalidate"
    /\ clients' = [clients EXCEPT ![op[r].of] = Absent]
    /\ op' = [op EXCEPT ![r] = OpIdle]
    /\ UNCHANGED <<edits, node, project, tenant, filling, historyVars>>

InvalidateClient(r) ==
    /\ op[r].kind = "invalidate"
    /\ filling = NotFilling
    /\ clients' = [clients EXCEPT ![op[r].of] = Absent]
    /\ op' = [op EXCEPT ![r] = OpIdle]
    /\ UNCHANGED <<edits, node, project, tenant, filling, historyVars>>

\* A job or request for a tenant of the node finds no client, locks, looks
\* again and reads the row.
GetClientLock(n) ==
    /\ filling = NotFilling
    /\ clients[n] = Absent
    /\ HasNode(n)
    /\ \E t \in LiveRows : tenant[t].node = n
    /\ filling' = [node |-> n, url |-> node[n].url, token |-> Absent]
    /\ UNCHANGED <<edits, node, project, tenant, op, clients, historyVars>>

\* It reads the token; when that fails it unlocks and returns the error.
GetClientToken ==
    /\ filling.node # Absent /\ filling.token = Absent
    /\ \/ /\ HasNode(filling.node)
          /\ filling' = [filling EXCEPT !.token = node[filling.node].token]
       \/ filling' = NotFilling
    /\ UNCHANGED <<edits, node, project, tenant, op, clients, historyVars>>

GetClientStore ==
    /\ filling.token # Absent
    /\ clients' = [clients EXCEPT ![filling.node] = [url |-> filling.url, token |-> filling.token]]
    /\ filling' = NotFilling
    /\ UNCHANGED <<edits, node, project, tenant, op, historyVars>>

-----------------------------------------------------------------------------
(* LifecycleService and the jobs, as far as they read nodes and projects. *)

Advance(t, step) == tenant' = [tenant EXCEPT ![t].step = step]

\* The API and admin creates name a node and a project and read them in this
\* order.
CreateReadNode(t, n) ==
    /\ tenant[t].step = "new"
    /\ HasNode(n) /\ node[n].status = "active"
    /\ tenant' = [tenant EXCEPT ![t].step = "project", ![t].node = n]
    /\ UNCHANGED <<edits, node, project, op, clients, filling, historyVars>>

CreateReadProject(t, p) ==
    /\ tenant[t].step = "project"
    /\ HasProject(p)
    /\ tenant' = [tenant EXCEPT ![t].step = "reserve", ![t].project = p, ![t].ram = project[p]]
    /\ UNCHANGED <<edits, node, project, op, clients, filling, historyVars>>

\* A user's create takes the oldest project, then the node with most RAM free.
GetDefault(t) ==
    /\ tenant[t].step = "new"
    /\ \E p \in {q \in Projects : HasProject(q)} :
          /\ \A q \in Projects : HasProject(q) => p <= q
          /\ tenant' = [tenant EXCEPT ![t].step = "node", ![t].project = p, ![t].ram = project[p]]
    /\ UNCHANGED <<edits, node, project, op, clients, filling, historyVars>>

Free(n) == node[n].total - node[n].allocated

GetLeastLoaded(t, n) ==
    LET Suitable == {m \in Nodes : HasNode(m) /\ node[m].status = "active"
                                              /\ Free(m) >= tenant[t].ram}
    IN  /\ tenant[t].step = "node"
        /\ n \in Suitable
        /\ \A m \in Suitable : Free(m) <= Free(n)
        /\ tenant' = [tenant EXCEPT ![t].step = "reserve", ![t].node = n]
        /\ UNCHANGED <<edits, node, project, op, clients, filling, historyVars>>

\* The row is guarded by its free RAM only: the node may be in maintenance by
\* now.  When no row matches, the create ends.
ReserveRAM(t) ==
    LET n == tenant[t].node
        ram == tenant[t].ram
    IN  /\ tenant[t].step = "reserve"
        /\ IF HasNode(n) /\ Free(n) >= ram
              THEN /\ node' = [node EXCEPT ![n].allocated = @ + ram]
                   /\ Advance(t, "insert")
              ELSE /\ Advance(t, "refused")
                   /\ UNCHANGED node
        /\ UNCHANGED <<edits, project, op, clients, filling, historyVars>>

\* The INSERT: its foreign keys need both rows, and a name in use or a lost
\* connection refuses it all the same.
CreateInsert(t) ==
    /\ tenant[t].step = "insert"
    /\ \/ /\ HasNode(tenant[t].node) /\ HasProject(tenant[t].project)
          /\ Advance(t, "running")
       \/ Advance(t, "release")
    /\ UNCHANGED <<edits, node, project, op, clients, filling, historyVars>>

\* Mutant: the counter is not kept at zero or above.
Release_NoFloor(n, ram) ==
    node' = IF HasNode(n) THEN [node EXCEPT ![n].allocated = @ - ram] ELSE node

\* ReleaseRAM; no row is affected when the node is gone.
Release(n, ram) ==
    node' = IF HasNode(n) THEN [node EXCEPT ![n].allocated = Max({@ - ram, 0})] ELSE node

\* Mutant: a create whose INSERT failed returns at once.
CreateRelease_Forgets(t) ==
    /\ tenant[t].step = "release"
    /\ Advance(t, "refused")
    /\ UNCHANGED <<edits, node, project, op, clients, filling, historyVars>>

CreateRelease(t) ==
    /\ tenant[t].step = "release"
    /\ Release(tenant[t].node, tenant[t].ram)
    /\ Advance(t, "refused")
    /\ UNCHANGED <<edits, project, op, clients, filling, historyVars>>

\* The job makes its tenant active, or writes 'error' and then releases the
\* figure it was started with (Lifecycle has the deletes that come in between).
JobEnds(t) ==
    /\ tenant[t].step = "running"
    /\ \/ Advance(t, "active") /\ UNCHANGED failed
       \/ Advance(t, "failing") /\ failed' = failed \cup {t}
    /\ UNCHANGED <<edits, node, project, op, clients, filling, movedAlone, edited>>

JobRelease(t) ==
    /\ tenant[t].step = "failing"
    /\ Release(tenant[t].node, tenant[t].ram)
    /\ Advance(t, "error")
    /\ UNCHANGED <<edits, project, op, clients, filling, historyVars>>

\* Delete reads the figure the project has now, 0 when it is gone.
DeleteRead(t) ==
    /\ tenant[t].step \in {"active", "error"}
    /\ tenant' = [tenant EXCEPT ![t].step = "deleting",
                                ![t].ram = IF HasProject(tenant[t].project)
                                              THEN project[tenant[t].project] ELSE 0]
    /\ UNCHANGED <<edits, node, project, op, clients, filling, historyVars>>

DeleteRelease(t) ==
    /\ tenant[t].step = "deleting"
    /\ Release(tenant[t].node, tenant[t].ram)
    /\ Advance(t, "deleted")
    /\ UNCHANGED <<edits, project, op, clients, filling, historyVars>>

-----------------------------------------------------------------------------
OperatorStep ==
    \/ \E n \in Nodes :
          \/ CreateNode(n)
          \/ \E s \in NodeStatuses, ram \in Totals : UpdateNodeRow(n, s, ram)
          \/ \E u \in URLs : UpdateNodeURL(n, u)
    \/ \E p \in Projects : CreateProject(p) \/ \E ram \in RamValues : UpdateProject(p, ram)
    \/ \E r \in Ops :
          \/ \E n \in Nodes : \/ DeleteNodeCheck(r, n)
                              \/ \E u \in URLs, k \in ApiTokens : UpdateNodeAccess(r, n, u, k)
          \/ \E p \in Projects : DeleteProjectCheck(r, p)
          \/ DeleteNode(r)
          \/ DeleteProject(r)
          \/ InvalidateClient(r)

ClientStep == GetClientToken \/ GetClientStore \/ \E n \in Nodes : GetClientLock(n)

TenantStep(t) ==
    \/ \E n \in Nodes : CreateReadNode(t, n) \/ GetLeastLoaded(t, n)
    \/ \E p \in Projects : CreateReadProject(t, p)
    \/ GetDefault(t)
    \/ ReserveRAM(t)
    \/ CreateInsert(t)
    \/ CreateRelease(t)
    \/ JobEnds(t)
    \/ JobRelease(t)
    \/ DeleteRead(t)
    \/ DeleteRelease(t)

CatNext == OperatorStep \/ ClientStep \/ \E t \in Tenants : TenantStep(t)

CatSpec == CatInit /\ [][CatNext]_catVars

-----------------------------------------------------------------------------
Maybe(S) == S \cup {Absent}

(* A node's counter stays within its total: ReserveRAM takes no more than   *)
(* is free, and Update accepts no total below what is allocated.            *)
Fits == \A n \in Nodes : HasNode(n) => node[n].allocated <= node[n].total

(* The rows, the requests and the cache hold what their columns and fields  *)
(* can hold; a counter is never below zero, since ReleaseRAM floors it, and *)
(* never above the node's total.                                            *)
CatTypeOK ==
    /\ node \in [Nodes -> NodeRow \cup {Absent, Gone}]
    /\ project \in [Projects -> RamValues \cup {Absent, Gone}]
    /\ tenant \in [Tenants -> [step : {"new", "project", "node", "reserve", "insert", "release",
                                       "running", "failing", "deleting", "refused", "active",
                                       "error", "deleted"},
                               node : Maybe(Nodes), project : Maybe(Projects), ram : RamValues \cup {0}]]
    /\ op \in [Ops -> [kind : {"idle"}]
                 \cup [kind : {"invalidate", "deleteNode"}, of : Nodes]
                 \cup [kind : {"deleteProject"}, of : Projects]]
    /\ clients \in [Nodes -> Client \cup {Absent}]
    /\ filling \in [node : Maybe(Nodes), url : Maybe(URLs), token : Maybe(ApiTokens)]
    /\ edits \in 0..MaxEdits
    /\ movedAlone \subseteq Nodes
    /\ edited \subseteq Projects
    /\ failed \subseteq Tenants
    /\ Fits

(* Once every change of a node's token has reached InvalidateClient, no     *)
(* getClient that read the row before the change can leave a client with    *)
(* the old token in the cache, nor one that mixes the old URL with the new  *)
(* token; only a URL that was changed without the token may be out of date. *)
CachedClientFresh ==
    \A n \in Nodes :
        /\ HasNode(n) /\ clients[n] # Absent
        /\ \A r \in Ops : op[r] # [kind |-> "invalidate", of |-> n]
        => /\ clients[n].token = node[n].token
           /\ n \in movedAlone \/ clients[n].url = node[n].url

\* Tenants whose RAM is part of the counter of a node.
Holders(n) == {t \in Tenants : tenant[t].node = n /\ tenant[t].step \in
                  {"insert", "release", "running", "failing", "active", "deleting"}}

(* The RAM that creates reserve by one read of the project, jobs give back  *)
(* by the same figure and deletes by a later read of it adds up: a node's   *)
(* counter is the RAM of the tenants that hold some, unless a job failed    *)
(* on the node or a project of its tenants had its ram_mb changed.          *)
ReservationsMatch ==
    \A n \in Nodes :
        /\ HasNode(n)
        /\ \A t \in Tenants : tenant[t].node = n => t \notin failed /\ tenant[t].project \notin edited
        => node[n].allocated = SumFunctionOnSet([t \in Tenants |-> tenant[t].ram], Holders(n))

(* Deleting a node or project counts its tenants first and deletes later;   *)
(* a tenant that was inserted in between, or that is deleted itself, still  *)
(* has both of its rows.                                                    *)
NoOrphans ==
    \A t \in Rows : HasNode(tenant[t].node) /\ HasProject(tenant[t].project)
=============================================================================
