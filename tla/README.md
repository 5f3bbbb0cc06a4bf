# A verification of the controlplane

This directory holds TLA+ models of the control plane, TLC configurations that
check them on small instances, and TLAPS proofs of their main properties for
instances of any size. `PROJECT.json` lists the runs, the mutants each property
was tried against, the source lines behind each definition, the findings and
the hazards.

## 1. The system

The control plane is one Go process beside a PostgreSQL database. It sells
tenants (LXC containers running an application), places them on Proxmox nodes,
routes their subdomains through Caddy, connects them by WireGuard and bills
them through Stripe. All durable state is in the database, in Proxmox, in Caddy
and at Stripe; the process keeps goroutines, a semaphore and some caches.

| Component | State | Operations | Interacts with |
|---|---|---|---|
| tenant status machine (`tenant/store.go`) | `tenants.status`, `lxc_id`, `lxc_ip` | `SetActive`, `SetError`, `SetDeleting`, ..., each one `UPDATE ... WHERE status IN (...)` | everything below |
| provisioner (`provisioner/provisioner.go`) | one goroutine per create, semaphore of 10, Proxmox client cache | `Provision`, `Deprovision`, `Suspend`, `Resume` | stores, Proxmox, Caddy, ssh |
| lifecycle service and handlers (`tenant/lifecycle.go`, `tenant/*handler.go`, `admin/handler_tenants.go`) | requests in flight | create, delete, suspend, resume | stores, provisioner |
| node RAM (`node/store.go`) | `total_ram_mb`, `allocated_ram_mb` | `ReserveRAM`, `ReleaseRAM`, `Update` | lifecycle, provisioner |
| IP allocation (`ipalloc`) | none; an advisory lock | `Next`, `Allocate` | tenant store, WireGuard store |
| Caddy client, reconciler (`caddy`) | routes in Caddy | `AddRoute`, `RemoveRoute`, `Reconcile` at start | provisioner |
| billing (`billing`) | billing columns of `tenants`; subscriptions at Stripe | checkout, webhooks, tier limits | tenant store, Stripe |
| sessions (`auth`) | users, refresh tokens, revoked access tokens, login limiter in memory | register, login, refresh, logout, password change, janitor | user store |
| WireGuard (`wireguard`, `admin/handler_network.go`) | `wireguard_peers`, the interface wg0 | create, update, enable, disable, delete, sync at start | IP allocation |
| stations and poller (`station`) | `stations`, a status map in memory | CRUD, poll | tenants |
| public station list (`station/handler.go`) | none | paging, ranking by listeners | poller's map |
| catalogue (`project`, `node`, `admin/handler_nodes.go`) | rows of nodes and projects | create, edit, delete | lifecycle, client cache |
| admin passkeys (`admin/webauthn.go`, `admin/webauthn_store.go`) | credentials, challenges in memory, cookies | register, log in, log out, delete | - |

What is hard here:

* **Interleaving.** A provision goroutine, several requests and an operator work
  on the same row, counter and container; a request reads the row once and acts
  on that snapshot until it answers.
* **Partial failure.** Every operation is a chain of SQL statements and remote
  calls. Any of them can fail, a remote task can fail after it has had its
  effect, and the clean-up is itself a chain that can fail.
* **Contexts.** A job runs under a ten minute context, a request under the
  context of its HTTP connection. When either is over, every later call of the
  chain fails, also the one that records the failure.
* **Crashes.** Goroutines and requests are lost; nothing at start looks for rows
  they left in a transitional status.
* **Counting.** RAM is a counter. Nothing ties a reservation to a tenant, so a
  release too many is indistinguishable from a correct one.
* **Ids that are not reserved.** The free container id and the free address are
  read first and taken later.
* **Webhooks.** Stripe delivers events more than once and in any order.
* **Lists that grow old.** The reconciler and the poller read a list of tenants and
  then work through it, while names and addresses pass on to other tenants.
* **Edits underneath.** An operator changes the figure a release is computed from, the
  token a client was built with, or deletes a row that a create has just read.

What makes each component correct is stated, as properties, in its module and in
section 3.

## 2. The modules

| Module | What it models |
|---|---|
| `TenantStatus` | abstract: the life cycle one status column promises |
| `Stores` | constants, state, and every single SQL statement, Proxmox task and Caddy call on it |
| `Provisioner` | the provision goroutine, one action per point at which others may run |
| `TenantRequests` | create, delete, suspend and resume requests, one action per statement or call |
| `Lifecycle` | all of these together, crashes, fairness, and the properties |
| `Billing` | subscriptions, webhooks, tiers and the tenant limit |
| `Auth` | accounts, the login limiter, refresh and access tokens, the janitor |
| `WireGuard` | the peers in the table and on the interface, the handlers and the sync at start |
| `Reconciler` | `Lifecycle` with the goroutine that rebuilds routes at each start |
| `Stations` | the stations table, the creates and the poller |
| `Passkeys` | the admin's credentials, challenges and cookies |
| `OneTimeChallenge` | abstract: what the challenge store promises |
| `Catalogue` | operators' edits of nodes and projects against tenants and the client cache |
| `IPAlloc`, `StationList` | two sequential algorithms: the loop of `ipalloc.Next`, the paging of the public list |
| `MCLifecycle`, `MCReconciler`, `MCBilling` | symmetry sets and small instances for TLC |
| `MCRedelivery` | `Billing` with a Stripe that makes the first delivery of each event in order |
| `MCStations` | instances of `Stations` and `StationList`, one per behaviour |
| `MCOperations` | instances of `Auth`, `Passkeys`, `Catalogue`, `WireGuard` and `IPAlloc`, one per behaviour |
| `LifecycleProofs`, `ReconcilerProofs`, `BillingProofs`, `AuthProofs`, `PasskeysProofs`, `CatalogueProofs` | theorems about the module of that name |
| `StationsProofs`, `NetworkProofs` | theorems about `Stations` and `StationList`, about `WireGuard` and `IPAlloc` |

### Lifecycle

`Stores` extends to `Provisioner`, `TenantRequests` and `Lifecycle`. The unit of
atomicity is one statement or one remote task together with the wait for it: two
programs can be interleaved between any two of them and never inside one.

State: `status`, `lxcId`, `lxcIp` are the columns of each row ("absent" before
the insert); `totalRam` and `allocatedRam` those of one node; `ctState` and
`ctOwner` what Proxmox has under each id; `route` what Caddy has under each
subdomain; `job` one record per tenant with the program counter, the local
variables `vmid` and `ip`, whether its context has expired and whether it holds
a slot; `sem` the number of occupied slots; `req` one record per request with
its program counter, the operation, the tenant, the snapshot of `lxc_id` and
whether its context is cancelled. `ledger` and `overReleased` are history: for
which tenants the counter holds a reservation, and for which it was released
without one. No action reads them.

Failures are switched on by `Faults`:

* `provision`, `request`: a Proxmox, ssh or lookup call of a job or a request fails without effect;
* `late`: a Proxmox task has its effect and then fails, or the wait for it does;
* `db`, `caddy`: a statement or a Caddy call fails without effect;
* `ctx`: the context of a job expires, that of a request is cancelled, between two calls (a call cut off in the middle is `late`);
* `panic`: the goroutine panics and `recover` runs `setError`;
* `reconcile`: the reconciler's list or one of its Caddy calls fails;
* `crash`: the process dies and starts again.

The steps of the API, user and admin handlers are the same, so one set of actions
models the three; the map points into all of them. Left out: audit log entries,
the dashboard token, deployment over ssh, station record and health status, none
of which is read by a step that is modelled and all of which are best effort; the
health check only matters for holding its slot, which `CheckHealth` keeps.
Abstractions: one node and one project, so RAM per tenant is the constant
`RamMB`; `AvailableIPs` allows any free address where the code takes the first,
which `IPAlloc` models.

### Billing

A row has owner, customer, subscription reference and tier; rows are numbered in
the order of `created_at`, which is what `tenants[0]` of a checkout depends on.
Stripe is external: a checkout passes an e-mail address and no customer, so each
one makes a new customer with one subscription, and each change of a
subscription appends an event with a snapshot of it to `log`. An event is
`pending` until a delivery of it is answered with 200. A webhook request is a
lookup and an update, and others run between them; a store error answers 500.
A request may handle any event that is pending, and a subscription event that is answered
may stay pending: Stripe promises neither order nor a single delivery. `paid` and `due`
are history: which tiers a user ever had a live subscription for, and what the
last resolved state of a subscription stands for. So is `shuffled`: customers an event of
whom was handled before an earlier one that was still pending, or whose checkout was handled
again after it had been answered. Checkout and portal sessions
change nothing in the control plane; invoice events and unknown ones are only
logged.

`TierSettled` is what the comment in `billing/handler.go` says of replays; it does not hold
(run `Redelivery`). `ReplaysConverge` is what does: it says the same of customers that are not
`shuffled`, whatever fails, is repeated in order, and happens to other customers and to tenants.

A create counts the user's tenants, reads their tiers and inserts, in three steps.
The limit is checked before the insert and the code says that two creates
of one user can pass it together ("there is a theoretical race (TOCTOU)",
`tenant/user_handler.go`). The model lets a user make one create at a time.

### Auth

`entries` is the limiter's map, `password` the users table, `pair` the rows of
`refresh_tokens` with the claims of the access token issued beside each, `revoked`
the table `revoked_tokens`, `req` the requests in flight. `now` is one clock for
process and database, advanced by `Tick`. A password is the number of the change
that set it, so that a token can be compared with the password it was issued under;
the outcome of a comparison is a choice. A request is a sequence of statements
(login: check, verify, issue; refresh: validate, rotate, issue; logout: revoke the
access token, then a refresh token; password change: begin, update, revoke all, issue)
and others run between any two. Any statement may fail: where the code only logs the
failure the request goes on, otherwise it ends. `Restart` loses the requests and the
limiter.

History, read by no action: `loggedOut` are the access tokens whose revocation was
stored; `unsettled` are the users whose last password change left, or may have left, a
token of an older password: its revocation failed, the process died before it, or a login
or refresh that had been let in under the older password was about to issue one.
`ReloginAfterChange` says what the comment in `auth/handler.go` says, without exception, and
does not hold (run `OldSession`). `ReloginIfRevoked` says that those cases are all: other
requests of the user, however they interleave with the change, leave nothing behind. There is no
property that a refresh token is used once: two refreshes that validate it side by
side are both answered.

### WireGuard

`row` says of each key whether its peer exists and is enabled, `wg` which keys the
interface has, `req` and `sync` where the requests and the goroutine of `SyncPeers`
are. A key pair is generated per peer and never reused. Handlers of the API and of
the admin pages differ only in that the API's create and update leave the interface
to the next sync. Left out: the address, where the unique index turns a clash into a
failed create, and keys, configuration text and QR codes, which nothing reads back.

`disturbed`, read by no action, are the peers that the last complete sync does not
account for: a call on them failed or was left out, two requests were at work on
them at once, or a request started while the sync ran. For these the table and the
interface may differ until the next start.

### Reconciler

`rec` is the goroutine `caddy.Reconcile` of the running process: its list, the element
between the DELETE and the POST of its upsert, and the two counts of its result, as sets.
`RecNext` is a step of `Lifecycle`, a step of the goroutine, or a crash, which starts the
next one; nothing else ever runs it. Several tenants may have one name one after the
other, so what the goroutine holds can belong to a tenant that is gone.

History: `cut` are the tenants that something was in flight for when the process died
(also an upsert that was half done or had failed), `raced` the names whose tenant a delete
claimed while its own job or the reconciler was still going to use what it had read. For
these a route can be missing or left over. The reconciler only ever upserts the
names of active tenants and removes no other route, so a route left over stays; `AddRoute`
of a new tenant with that name is refused until a restart after it is active.

`crossed` are the tenants whose container two requests were to start or stop at once, each
past its change of the row; also one whose container's id a request still holds for a tenant that
was deleted meanwhile. The CAS orders the rows and nothing orders the calls, so
`ContainerFollowsRow`, which has no exception, does not hold (run `SuspendCrossesResume`).
`RowMatchesContainer` excepts `crossed` and `cut` and nothing else: several requests work on one
tenant in its run and in its theorem, and only those whose steps between row and container
overlap count as crossed.

### Stations

`row` is what the poller and the creates read of a tenant, `net` the address its container is
configured with, `job` the provision jobs that have yet to look for their tenant's station,
`station` the table by slug,
`creating` the creates between COUNT and INSERT, `cache` the poller's map (whose dashboard
the answer kept for a tenant came from) and `poll` the cycle: list, then per tenant the
request and `SetOnline`. The poller is sequential. A job chooses a free address (`ChooseIP`),
stores it (`SetLXCIP`, which may fail or come to nothing) and makes its tenant active in three
steps, and any other job comes between, so two containers may have one address. A request to an
address is answered by a container that has it then, or fails. A deleted row keeps its address in
the table but not against allocation, which is how an address gets a second owner while an old
list is worked on. Left out: the other columns, which are only copied, and what the answer says
besides live or not.

History: `shared` are the tenants whose address was chosen a second time, because no row told of
it yet (the lock of `ipalloc.Allocate` ends before the address is stored) or because a
failed job's container was left behind with it: both the tenants that had it and the one that
chose it. For these a dashboard may answer for another tenant, and
`OwnStatus` excepts them; it also excepts deleted tenants, whose entry in the map stays.

### Passkeys

`creds` is the table, `sessions` the challenges in memory by token, `cookie` the browsers
with a valid cookie, `handling` the handler each browser waits for. Begin and finish of a
registration and the delete check first and act later; other browsers come between. Expiry
is a step of the clock, taken at any time. Taken as correct: the webauthn library, which
either verifies an answer or does not, the signature of the cookie, and the setup token.
`Phase` maps the state to `OneTimeChallenge`: a token is fresh until it is issued, open for
its flow while its entry is there and in time, closed for ever after. History: `raced`
records that two finishes of a registration were past their check at once, where the code
has no lock. `LastCredentialKept` has no exception and does not hold: two deletes that count side
by side may take the last two (run `LastCredential`).

### Catalogue

The rows of nodes and projects, the operator requests (delete is a count and a DELETE, an
edit of the token is an UPDATE and `InvalidateClient`), the cache of Proxmox clients with
`getClient` holding the lock over its two reads, and tenants as far as they read these
rows. Creates keep the RAM figure they have read; jobs release that same one, deletes read
it again. Crashes and failing statements of a tenant's life are in `Lifecycle` and left
out here; so is a negative `ram_mb`, which the admin pages refuse and the API does not. History:
`movedAlone` are nodes whose URL changed without the token, which does not drop the client;
`edited` projects whose figure changed while a tenant used them; `failed` tenants whose job
failed (their RAM is released twice, see `RamReleasedTwice`). In those cases the cache or the
counter is off. A deleted tenant keeps its row and with it its foreign keys, so a node or
project that ever had a tenant cannot be deleted.

### IPAlloc and StationList

Addresses are numbers below `SpaceSize` and a prefix is an address and the size
of its block. The zero `netip.Addr`, which is less than every address, is -1.

`StationList` is `Handler.List` and a client that follows `has_more`. In name order the
database pages; sorted by listeners the handler scans at most `listenersScanLimit` rows,
sorts them stably and pages itself. Only the slug of a station is unique, and `ORDER BY name`
has no tie-break, so each request may see equal names in another order (`NameOrders`). Two
pages may then repeat one of several stations with one name and miss another. `PagesHonest` allows
for that and for no more: every place holds a station that may stand there under some order of
the ties (`MayStandAt`), exactly one if no names are equal; no page repeats a station; and
`has_more` promises no empty page and misses none. (`station/store.go` says the handler depends on
the scan window being deterministic; it is for distinct names only.)

## 3. Runs

| Run | Checks | Instance |
|---|---|---|
| `LifecycleSafety` | `TypeOK`, `UniqueDeleter`, `ContainerRamReleasedOnce`, `LiveAccountedUnlessOverReleased`, `LiveHasOwnContainer` | 2 tenants, 2 requests, 2 ids, room for 2, no addresses; provision, request, db, ctx, crash |
| `LifecycleLive` | `WithinCapacity`, `SlotsAccounted`, `StatusMachine`, `StatusSettles` (under fairness) | 2 tenants, 1 request, 2 ids, 1 address, one slot, totals 3 and 4; provision, request, late, caddy, panic |
| `Reconciler` | `RecTypeOK`, `RowMatchesContainer`, `ActiveIsRouted`, `NoStrayRoutes` | 2 tenants under one name, 2 requests, 2 ids, 2 addresses, one slot, 2 starts; provision, request, reconcile, crash |
| `Billing` | `TypeOK`, `PaidForTier`, `WithinTierLimit`, `ReplaysConverge` | 3 rows, 3 events, 2 paid tiers; reordered, repeated, failing store; either 2 users with 1 subscription in all, 2 events and 1 delivery at a time, or 1 user with 2 subscriptions, 1 paid tier, 2 rows and 2 deliveries side by side |
| `Stations` | `TypeOK`, `OwnStatus`, `StationLimit`, `PagesHonest`, `OnlineFollows` (under fairness) | either 2 tenants with one subdomain, 2 addresses of which 1 is allowed, and one slug; or 1 tenant with 2 slugs and 2 creates at once; limit 1; or every list of up to 4 stations with 2 names, counts 0 to 2, pages of 1 to 3, scan limit 3 |
| `Operations` | the properties of `Auth`, `Passkeys`, `Catalogue`, `WireGuard` and `IPAlloc` | see below |
| `RamReleasedTwice` | `LiveAccounted`: violated | 2 tenants, 1 request; provision |
| `AddressGivenTwice` | `DistinctIPs`: violated | 2 tenants, two slots, 2 addresses; nothing fails |
| `SuspendCrossesResume` | `ContainerFollowsRow`: violated | 1 tenant, 2 requests; nothing fails and nothing restarts |
| `Redelivery` | `TierSettled`: violated | 1 user, 1 subscription, 3 events, first deliveries in order and one at a time, failing store |
| `OldSession` | `ReloginAfterChange`: violated | 1 user, 2 requests, 2 token pairs, 2 passwords |
| `LastCredential` | `LastCredentialKept`: violated | 2 browsers, 2 credentials, 2 challenges |

The modules of `Operations` share no state. A behaviour of the run chooses one of seven
instances at its start and holds the others still, so that one run, with one symmetry group,
covers them all:

* `logins`: 2 users, 2 requests, 2 attempts, one limiter entry, 3 instants, no token issued;
* `sessions`: 1 user who mistypes no password, 2 requests, 3 token pairs, 2 passwords, 3
  instants, lifetimes 1 (both check `TypeOK`, `LimiterBounded`, `LoggedOutStaysOut`, `ReloginIfRevoked`);
* `admin`: 2 browsers, 3 challenges, 3 credentials (`PkTypeOK`, `AnonymousOnce`, and `OneTimeUse`, a refinement);
* `clients`: 1 node, 2 projects, 1 tenant, 2 operator requests, 2 URLs, 2 tokens, totals 2 and 3, figures 0 to 2, 2 edits;
* `rows`: the same with 2 tenants and one URL and token (both check `CatTypeOK`, `CachedClientFresh`, `ReservationsMatch`, `NoOrphans`);
* `peers`: 2 keys, 2 requests (`WgTypeOK`, `InterfaceFollowsTable`);
* `addresses`: a 3-bit space, every prefix and every set of used addresses in it (`NextCorrect`).

The bounds are the least at which the cases happen: two tenants race for one id
or one slot, two requests race for one tenant, a container id is reused by the
next tenant after a failed one, a retried delete follows a failed one, a second
subscription follows a first and a second tenant the first, a limiter entry is evicted
for another address, a token expires and its revocation is dropped, a refresh and a
password change overlap, a name passes to a second tenant over a restart, a suspend and a resume
of one tenant overlap, an address is chosen twice or passes
to a second tenant during a poll cycle, a list is longer than the scan limit and equal names lie
on both sides of it, a token is changed and the node deleted while a client is being built. Node totals leave room for all, one or none. `MaxPairs`,
`MaxPasswords` and `MaxTime` bound what would grow for ever, and so do `MaxRows` and
`MaxEvents` in `Billing`, `MaxStarts` in `Reconciler`, `MaxCreates` in `Stations` and
`MaxEdits` in `Catalogue`. Space size and scan limit only scale the two algorithms: every
edge (empty block, full block, block at the end of the space, list at and past the limit)
is among the inputs.

Six runs are expected to fail. Each checks a statement of the repository, which `findings` in
`PROJECT.json` quotes with its line, that the code does not keep:

* `RamReleasedTwice`: a failed provision releases its RAM and the delete of the tenant it leaves
  releases it again; the counter falls below what live tenants use.
* `AddressGivenTwice`: the advisory lock is to keep two callers from the same address
  (`ipalloc/ipalloc.go`), but ends before the address is stored; two jobs store the same one.
* `SuspendCrossesResume`: "CAS guard ensures atomicity" (`admin/handler_tenants.go`), but a
  resume can run between the two steps of a suspend, and an active tenant ends up stopped.
* `Redelivery`: "Handlers are idempotent ... a replay converges" (`billing/handler.go`). A
  checkout whose first delivery fails is repeated after the update that followed it, and
  the older tier stays.
* `OldSession`: "force re-login on all devices" (`auth/handler.go`). A revocation that fails is
  only logged, and one that succeeds misses a refresh that is under way.
* `LastCredential`: "Prevent deleting the last credential" (`admin/handler_settings.go`). Two
  deletes both count two credentials and leave none.

For each of them but the last a passing run, and a theorem, state what remains true beside it:
`LiveAccountedUnlessOverReleased`, `OwnStatus`, `RowMatchesContainer`, `ReplaysConverge`,
`ReloginIfRevoked`.

Outside the instances of the passing runs some of their properties fail: under the ctx fault a job that expires
leaves its tenant in `provisioning` (`setError` uses the expired context), and a delete
whose client goes away leaves it in `deleting`; with as many creates of a tenant as run at
once its stations may exceed the limit by one less (`StationLimit` counts them, and the code
notes the race).

`CHECK_DEADLOCK` is on for the passing runs of `Lifecycle` and `Reconciler`: `AtRest` lets TLC tell
a system at rest from one in which a job or a request waits for ever. It is on for `Stations`
too, where only a client that has seen the last page of the list is done. It is off for `Billing`
and `Redelivery`, where the bounds end every behaviour, and for `Operations`, where the search for an address
returns and the bounds on edits and tokens end others.

Fairness (`FairSpec`): weak fairness of the steps of each job and of each request
in flight. The Go scheduler runs every runnable goroutine, the semaphore is a
channel that serves its waiters, and the HTTP clients and `Task.Wait` have
timeouts, so a step that stays possible is taken. Clients, operators, failures
and timeouts are not fair. Weak fairness of the semaphore is enough because a
freed slot is only taken by finitely many other jobs.

In `Stations`: weak fairness of starting a poll cycle and of its next step, since the ticker
never stops and each request has a timeout; strong fairness of the `SetOnline` that
succeeds, which says that the statement may fail repeatedly but not for ever. The property
speaks of behaviours in which restarts come to an end and the dashboard keeps giving the
same answer; nothing is assumed of other tenants, handlers or the database's order.

## 4. Proofs

`tlapm` checks these for every value of the constants that the named assumptions of the
modules allow. Most of those say that numbers are numbers and that `None` is no proper
value. Three say more: tenants, users and requests are finite sets where they are counted
or summed (`Stores`, `Auth`, `Catalogue`), limits on attempts and stations are at least 1,
and a process starts at least once (`Reconciler`). Hypotheses on faults or on concurrency
are part of the theorem and are given below.

### Lifecycle (`LifecycleProofs`)

* `TypeCorrect`, `SlotsCorrect`. `SlotsAccounted` needs to know that a job with a slot is
  past "queued" and one without a slot is before it or in the recover of a panic; `TInv`
  adds this to the types.
* `StatusRefinement`: `Lifecycle` implements `TenantStatus`, with no assumption on faults.
  `CapacityCorrect`: the counter is within the total.
* `TeardownCorrect`, `ReleasedOnceCorrect`, `LiveAccountedCorrect`, assuming no panics. The
  inductive invariant `Owned` says who answers for a tenant at each moment: a job only
  before its row is active or after it failed (`JobRows`), a delete only while the row is
  in "deleting" (`ReqRows`, `OneEach`), and for which of them the reservation is still in
  the ledger (`RamRows`, `Counted`). With panics the last two fail: a panic after
  `SetActive` releases the RAM of an active tenant.
* `OwnContainerCorrect`, assuming no panics and no late failures. `Containers` adds to
  `Owned` that the id a job holds past its clone, and the id a live row has, is that of its
  own container, and that no two hold the same one. With late failures it does not hold: a
  delete that fails after the container is gone keeps its id, which the next tenant gets.

### Reconciler (`ReconcilerProofs`)

* `ReconcilerTyped`, with every fault: on top of the types, the reconciler has one entry at
  hand exactly between the two calls of an upsert, and none that is at hand or has failed is
  still to do.
* `NoStrayRoutesCorrect`, `ActiveIsRoutedCorrect`, assuming no panics, no failing Caddy
  calls of jobs and deletes, and no contexts that end early; the reconciler's own calls may
  fail and the process may die anywhere. `Routes` has eight parts: a name belongs to one
  tenant at work (`UniqueName`); a row's address comes from its job and does not change
  (`JobAddresses`); a job adds the route of a live tenant unless a delete overtook it
  (`JobLive`); the route of a name nobody raced for leads to its tenant (`RoutesOwned`);
  what the reconciler has still to write is about live tenants (`Listed`), what it has
  written stays (`Upserted`); a live tenant is routed or its job is about to see to it
  (`Reached`); and no context is over (`InTime`). A step of a job or request is first reduced to the edges it
  can take on status, row, route, job and request (`Edges`), and each part is shown from
  those. Failing Caddy calls break both properties, since the code
  logs them and goes on; panics and ended contexts break `ActiveIsRouted`. Whether
  `NoStrayRoutes` survives those two is open: TLC has found no counterexample, but the
  proof rests on `Owned` and `InTime`.
* `RowMatchesContainerCorrect`, for any number of requests, assuming no panics, no failing SQL, no
  late failures and no contexts that end early. `Powered`, on top of `Owned` and
  `Containers`: of a tenant that is not in `crossed` at most one request is between its change of
  the row and the container call or the rollback, and its row is switched exactly while one is
  (`RowsSwitched`); otherwise row and container agree (`RowsPowered`). Late failures,
  failing SQL and ended contexts break it, as each can keep a rollback from undoing
  what was done; panics are excluded because `Owned` needs it.

### Billing (`BillingProofs`)

* `BillingTyped`, `PaidForTierCorrect`, `TierLimitCorrect`. An update applies an old
  event to a row looked up earlier; `Entitled` says that the user of an event is that of
  its customer, that a row and its customer have the same owner, and that a live event
  was paid for. `Limited` counts a create that has passed its check as a tenant, and
  says that a count that was read is not too low.
* `ReplaysConvergeCorrect`, for any order, number and interleaving of deliveries. Of a
  customer that is not `shuffled`, `Convergent` says that only the oldest open event is at work
  or still to come, that its checkout comes first, that it has one row, and that what is due is
  what the last event to come will write, or is written already.

### Auth (`AuthProofs`)

* `AuthTyped`, `LogoutCorrect`, `ReloginCorrect` (of `ReloginIfRevoked`). `SInv` adds to the types: a token and a
  request past its checks belong to a registered user (`Registered`); a logged out access
  token is still listed or has expired (`Out`), which is what makes dropping a revocation
  safe; and for a settled user no token that is live, nor any a request in flight is about
  to issue, is from an older password (`Settled`). Without the requests the last one is not
  inductive: a refresh carries the old password across the revocation.
* `LimiterCorrect`. The bound on failures alone is not inductive: `Throttled` bounds the sum
  of the failures counted for an address and the logins let in and not yet answered.

### Passkeys (`PasskeysProofs`)

* `PasskeysTyped`, `AnonymousCorrect`. `Alone`: a registration let in
  without a session finds no credential until it writes its own, unless two finishes
  overlapped.
* `ChallengeRefinement`: `Passkeys` implements `OneTimeChallenge`. Each handler is one step
  of the abstract store or a stutter; a collection of expired entries is a stutter because
  an expired token is closed already.

### Catalogue (`CatalogueProofs`)

* `CatalogueTyped`, which includes that a node's counter is between 0 and its total;
  `ClientFreshCorrect`, `OrphansCorrect`, `ReservationsCorrect`. `CInv`: a create has chosen
  rows that exist or existed (`Chosen`); a client is made for a node that had a row
  (`Known`); what is cached, and what `getClient` has read under its lock, is what the row
  says or an invalidation is still to come (`Fresh`); the figure of a tenant is its
  project's unless that was edited (`Figures`).
* The sum over the tenants of a node is a fold of the community modules. That it follows
  its recursion and is changed by one summand when one tenant comes or goes is proved by
  induction on the size of the set, as an argument by the least counterexample (`WFMin`),
  since the induction rules proper cannot be instantiated.

### Stations and the public list (`StationsProofs`)

* `StationsTyped`, `OwnStatusCorrect`, `StationLimitCorrect`. `StoredAddress` ties the address of a
  row to that of its container; `ApartUnlessShared`: a container that is configured with another
  tenant's address makes that tenant one of `shared`, which needs what a job has chosen and not
  stored as well as what rows tell. `ListedAddress`: an entry of the poller's list may be old, but
  its tenant still has that address in its row, since a row keeps the one it got.
* `PagesCorrect`, with a new order of equal names at every request. `InOrder` says of a sequence
  that it is in the order that was asked for, holds no station twice, all that every scan has and
  only such as some scan has; the database's answer (`ByNameInOrder`) and the sorted scan
  (`ByListenersInOrder`) are `InOrder`, and each of its stations may stand at its place
  (`InOrderStands`, by counting those before and behind it). `ListInv` then says how far what was
  shown reaches.

### Network (`NetworkProofs`)

* `PeersTyped`, `InterfaceCorrect`. `Known`: the interface, the sync's lists and the
  requests only name peers that exist or existed. `Accounted` says for each undisturbed
  peer where the difference between table and interface still to be made is kept: in the
  list to apply or to remove while a sync runs, in the request at work on it after that.
* `AllocationCorrect`, for every space, block and set of used addresses: every address below
  the candidate is taken.

### Only model-checked

The liveness properties and the refinement with fairness: fairness and ENABLED are beyond
the prover. Every invariant of a passing run also has a theorem; the theorems say which
faults they exclude, and the runs exclude the same or more. The six violations are
counterexamples and need no proof.

## 5. Plan

1. The orderly shutdown: which goroutines it waits for and in which order.
2. One WireGuard peer per tenant (`createTenantPeer` checks before it inserts).

Not modelled, and not planned: configuration, encryption, JSON responses, the health
endpoint, the audit log, ssh, templates, filters of lists, and the migration tool. They keep
no state that another component's correctness depends on, or are single statements. Of
`admin/handler.go` and `server/server.go` what is left are routes, middleware, pages and
wiring.
