# TLA+ models of the VPS service

This directory models `services/vps`, the part of the portal that sells and
runs virtual servers on OpenStack and other hypervisors. Paths below are
relative to `src/services/vps/` unless they say otherwise.

    tlc -config FloatingIPs_race.cfg MCFloatingIPs     one run
    tlapm FloatingIPsSafety.tla                        the proofs of a module

`PROJECT.json` lists the runs, the lines each definition models, a mutant of the
code for every property, the hazards, the findings and the theorems.

## 1. The system

The repository holds an extract of the service: the OpenStack adapter, the
region router, the customers' HTTP handler, the node store and two of the
worker's loops. The rest of the store, the job queue, the provisioning and
destroy jobs, billing and the other hypervisor drivers are used by this code
but not part of it. They are modelled by how they are used, and marked external
in `PROJECT.json`.

    customer --> handler.InstanceAction --\               /--> Nova
                     |                     > hvinit router > openstack adapter
    worker loops ----+--> store (rows) ---/               \--> Neutron
      sync_instances, sync_nodes        outbox --> provisioning, reinstall, destroy jobs

| component | state | operations | hard behaviour | what makes it correct |
|---|---|---|---|---|
| Floating IPs: `openstack/adapter.go`, `ip.go`, `floatingip.go` | none of its own; Nova's servers, Neutron's ports and floating IPs | get, build, reinstall, delete a server; add primary, add extra and remove an IPv4; probe the pool | each method is a sequence of HTTP requests, concurrent with the others, working on listings that go stale; requests fail halfway or lose their answer; the pool runs out | no customer loses an address to somebody else's call; nothing in use is deleted; nothing leaks; a running server gets an address in the end |
| Instance sync: `cmd/worker/sync_instances.go` | the rows' state, miss counter, address, provision error | one pass over a batch of rows | works on a snapshot of the rows while requests, jobs and the hypervisor go on; any store or hypervisor call fails; restarts | a row is orphaned only after enough consecutive misses, and then certainly; billing is enforced; the shown state converges |
| Power and delete requests: `handler/handler.go` `InstanceAction`, `runPowerWithRetry` | the row and the outbox | start, stop, reboot, delete | row read once, acted on later; two transactions for a deletion; retries against a busy hypervisor | no start of a blocked server unless the block came later; no deleted row with a server nobody will destroy |
| Catalog and orders: `handler/handler.go` | plans, templates, regions, orders | the lists shown; `CreateOrder`, admission of an order | lists fall back when a query fails; what is shown and what is accepted are computed differently | an order that is accepted can be provisioned unless the configuration moved; what is off the market is not sold; what is shown is accepted |
| Resize: `openstack/resize.go` | Nova's server | resize, wait, confirm | a time-out in the middle and a retry; auto-confirmation; rejection looks like confirmation | success means the server got the flavor, or somebody else ended or holds the resize; no call confirms a move nobody looked at; no server is left waiting for a confirmation |
| Region router: `hvinit/`, `hypervisor/regions.go`, `permanent.go` | configuration | choose an adapter by region, then by the shape of an ID; classify errors | two routing rules that must agree; a changed configuration | a server is addressed in the cloud that made it, by every process that has that cloud |
| Node placement: `store/nodes.go`, `cmd/worker/sync_nodes.go` | the nodes table: status, maintenance, tiers | pick a node for an order; set its tiers; refresh the nodes from the hypervisors | counting without a lock, and a row written later; one query that reports all hypervisors, probes, restarts with another environment | a node is oversold only to orders that meet; a node goes off sale only with its hypervisor, and comes back with it |
| Configuration: `openstack/config.go`, `client.go` | flavor, image and network maps, tokens | look up, authenticate | fallbacks of the lookups | the flavor ordered is the flavor built |
| Console, metrics, passwords, user data, snapshots, networks, TLS | none | one request or one string each | none | not modelled: pure I/O and formatting |

### How they interact

- The sync pass calls `GetServer`, which is not a read: it *ensures* a floating
  IP (`adapter.go:165`). So the worker's loop allocates addresses while the
  jobs and requests of other parts release them.
- `InstanceAction` and the pass share rows only through the store: the pass may
  write over a request's result and the reverse.
- A deletion is a row in state `deleted` plus a destroy event in the outbox; the
  destroy job calls the adapter's `DeleteServer`.

## 2. The modules

| module | models |
|---|---|
| `AddressPool` | the abstract promise of the floating-IP code: free, idle, held by one server, and the four moves between them |
| `FloatingIPs` | every method of the adapter that touches ports or floating IPs, one HTTP request per step |
| `MCFloatingIPs` | instances: which methods are called concurrently, symmetries |
| `FloatingIPsProofs` | type correctness, proved |
| `FloatingIPsSafety` | the inductive invariant, the safety properties and the refinement, proved |
| `FloatingIPsLeaks` | that no address leaks while requests answer and deletions are left alone, proved |
| `FloatingIPsEnsures` | that an ensure attaches only where none is attached while it has its server to itself, proved |
| `Orders` | what the catalog shows, the checks of `CreateOrder`, and the worker's job for the order, routed by region and configured by an environment of its own |
| `MCOrders` | an instance of it: the catalog and four environments |
| `OrdersProofs` | its inductive invariant, type correctness and four safety properties, proved |
| `InstanceSync` | the sync pass, the power and delete requests, and the events around them |
| `MCInstanceSync` | instances of it |
| `InstanceSyncProofs` | its inductive invariant and its three safety properties, proved |
| `Resize` | `SyncServerPlan` against Nova's two-phase resize, several calls at a time |
| `MCResize`, `ResizeProofs` | an instance; its inductive invariant and two action properties, proved |
| `Placement` | which node an order is counted on, and what takes nodes on and off sale |
| `MCPlacement`, `PlacementProofs` | an instance; its inductive invariant, two action properties and how far a node can be oversold, proved |

Operators called `X_Something` next to an operator `X` are mutants: `X` with a
plausible mistake, used to see that the properties notice it.

### FloatingIPs

*State.* `status` is Nova's view of each server, `owner` the server of each
port, `fip` the floating IP at each address. `call[c]` is a method in progress:
its name `op`, its place `pc`, and its local variables (the ports and floating
IPs it has listed, the port it works on, the loop counter). `deleted`, `replaced`
and `faults` are bookkeeping: servers whose deletion was requested, addresses that a
swap left for its caller to remove, and the failures used up.

*Steps.* An entry point (`GetServer`, `DeleteServer`, ...) starts a call; each
request of the method is one action, named after what it asks for; `AfterList`,
`AfterDetach`, `AfterDrop` and `AfterCreate` are the code between two requests. A
request is refused when Nova or Neutron would refuse it (`Refused`), may fail
before it is executed (`ApiError`), and may be executed and lose its answer
(second disjunct of `Answer`). `Failed` is what a method does with an error:
return it, retry (`serverPortIDWithRetry`), or log it and go on (`DeleteServer`).
A step of the environment (`Cloud`) plugs or removes a port, or changes a server's
status. A deleted server's ports go one at a time.

*Identity.* The code names a floating IP by its UUID. Here an identity is an
address and a tag, and a new allocation takes a tag that no call in progress
remembers for the address. That is exactly what can be observed of a fresh UUID,
and keeps the state space finite without bounding how often an address is
recycled. With three tags and two calls a fresh one is always there. Ports are
treated the same way.

*Abstracted.* The 600 s of `waitServerActive` are a choice between "it is active
now" and "it gave up"; the latter is possible whenever the server does not look
active. Pagination, descriptions and subnets are left out. Nova reports a server
as `ACTIVE` while it deletes it, which is what lets an ensure run into a deletion.

### InstanceSync

*State.* `row` is the portal's row of each server (state, miss counter, whether it
shows an address, billing block, hold, provision error, whether its external ID is no
valid ID), `vm` the server on
the hypervisor, `worker` the pass (its batch, the current item, what
`GetServer` returned, its place), `req` the requests in progress, `destroy` the
outbox. `streak`, `unread`, `overtaken` and `unchecked` are history: the number of
consecutive "not found" answers, the rows whose external ID a deletion could not read,
whether a block was set after a request had read the row, and whether the request's
query for holds failed.

*Steps.* `ListRows` takes the snapshot, at most `BatchLimit` rows (30 in the code), of
more any that many, for their order is the store's; each later action is one call of the
loop body, in the order of the code; `Decision` is the chain of conditions after a
successful `GetServer`. A request runs `Receive`, `Check`, then the power action
with its retries or `Enqueue`, then `SetState`.

*The store* is not in the repository. A call whose result tells whether it
changed the row (`MarkInstanceOrphaned`, `ClearInstanceIPDuringReinstall`) is a
conditional update; one that only returns an error (`SetInstanceState`,
`MarkInstanceStopped`, `UpdateInstanceFromHypervisor`) writes the row whatever
has happened to it since.

*Events* is a parameter: which of the other things that happen in the system happen in
an instance. Failures (`hverror`, `dberror`, `clearerror`, `iderror`, `crash`,
`apicrash`) are bounded together by `MaxFaults`; `notfound`, a hypervisor
that wrongly answers "not found", is not bounded.

### Orders

*State.* `api` and `worker` are the environments the two processes were started with:
whether OpenStack is configured and for which regions, the flavor and image maps
(`openstack/config.go`), the VirtFusion regions, packages and templates. `lines`,
`open` and `active` are the admin's tables. `order` is the request in `CreateOrder`
and then the order it became, with `gate`, the environment it was checked against, and
`used`, the one it was last allocated with. `missed` and `shut` are history: the
environment in which the last call for the order's server went to the wrong cloud, and
which of its line, region and template have been off the market ever since the request
came.

*Steps.* `Receive` is everything `CreateOrder` decides from the catalog and the
environment; each read of the database is a step (`CheckTier`, `CheckRegion`,
`CheckTemplate`), with what the code does when it fails (`CheckFails`,
`CheckRegionBlind`). `Accept` is `CreateOrderWithBilling`. `Allocate` and `Build` are
the worker's job as the router and the adapter see it; a failed one may be tried
again. `Reach` is any later call for the server, made by either process and routed by
the server's ID. `AdminChange` flips one row; a restart chooses another environment, and one
of the API drops its request.

*One request at a time.* No order writes what another one reads here (the places on a
node are not part of this module), so the model follows one request, then the next.
What the storefront shows (`PlanAvailable`, `ShownTemplates`) is computed from the
same state. An ID is its shape, for `byServerID` looks at nothing else; that Nova's are
UUIDs and VirtFusion's are numbers (`ServerID`) is assumed of the clouds.

### Resize

*State.* `srv` is Nova's server: the phase of its resize, its power state, the flavor
it shows, the one it would return to, the one it is moved to and the call that asked.
`call[c]` is a call of `SyncServerPlan`: its place, and the flavor its plan resolves
to. `met` (the server has had the flavor at some moment of the call) and `own`
(what became of the resize the call asked for) are history.

*Steps.* One request is one action: `Compare` reads the server, `Accepted`,
`Conflict` and `Refused` are the three answers to the resize, `WaitVerify`,
`WaitActive` and `WaitFinal` end a wait, `Confirm` confirms. Nova finishes, rejects or
fails a move; operators revert and reset; `AutoConfirmed` is Nova's confirm window.
`isResizePendingError` recognises a conflict by its wording, which differs between
clouds, so `Conflict` has both outcomes. A wait that ends too early for a move which
still succeeds counts as a fault, like a failed request.

### Placement

*State.* `node` is the nodes table (on line, maintenance, tiers), `row` the instances by
what counts: free, queued, active (the five states of `activeInstancesOnNode`), in
error; `erred` is history, that the row has been in error. `Linked` are the nodes with
an external ID, without which none is provisionable. `order` is an order or a promotion
between its query and its row, `worker` the node sync, `env` the worker's
`OPENSTACK_PROVISION_REGIONS`, `hv` VirtFusion's hypervisors. `joined` (a row began to
count on the picked node since the query) and `down` (nodes that were not up at some
moment of this pass) are history.

*Steps.* `PickNodeForRegion` is the query, with the order by load and name, for a line
or, without one, for any node of the region (`Sells`);
`Place` is the transaction of its caller, which is not in the repository: nothing in
`store/nodes.go` locks the node or counts again (`s.pool.QueryRow`, not the
caller's transaction). `ListNodesForSync`, `Fetch`, `TakeNode`, `MarkNodeSyncMissing`
and `ApplyNodeSync` are the node sync; the last two are also used with their error,
which is logged. The probe of a node happens in `TakeNode`, its result is written in
`ApplyNodeSync`. What the two write to `nodes.status` is the store's and not in the
repository: here the first miss takes the node off line, the next success puts it back.
The events are bounded together by `MaxChanges`.

## 3. The runs

Deadlock is checked in every run.

| run | instance | shows |
|---|---|---|
| `fip_race` | 2 servers, 3 ports, 2 addresses, 3 tags; a deletion, a first or a second installation next to any removal, swap or ensure | `NoForeignDetach`, `DropsOnlyIdle`, `ImplementsPool`, and the inductive invariant `IInv` of the proofs |
| `fip_careful` | 2 servers, 3 ports, 2 addresses; two callers, between them every method; callers that are `Orderly` and `Apart`; no failures, no late calls | `NoLeak`, `EnsureOnlyWhenNone`, and the inductive invariants `LeakInv` and `ApartInv` of their proofs |
| `fip_heals` | 1 server, 2 ports, the sync loop next to swaps, extra addresses, removals, probes of the pool and deletions, one failure, with fairness | `SyncHeals`, `CallsReturn` |
| `fip_ensure` | the sync loop next to `AddExtraIPv4` | finding 1 |
| `sync_requests` | 2 requests and the pass on 1 row, 3 misses to orphan, blocks, holds, one failed store call or restart of the API | `OrphanAfterMisses`, `DeletedIsDestroyed`, `StartsOnlyUnblocked`, and the inductive invariant `IInv` of the proofs |
| `sync_billing` | 1 row, power requests, billing, a server that changes on its own, a failure, with fairness | `BillingPowersOff`, `RunningShown`, `ProvisionErrorHeals`, `RequestsEnd` |
| `sync_settles` | 1 row, its ID valid or not, lost servers, reinstalls, every kind of failure, with fairness | `MissingSettles`, `StaleIPReleased`, `AddressShown`; `DeletedIsDestroyed` also where an ID cannot be read, `OrphanAfterMisses` and `IInv` also where counts are not cleared |
| `sync_refund` | 1 row, a reinstall next to the pass | finding 2 |
| `orders_gate` | 2 regions, an ordinary and a waitlist plan, a template and its alias, every pair of 4 environments; 1 restart, 2 changes by the admin, 1 failed read | `FailsOnlyByDrift`, `MissedOnlyUnconfigured`, `ShutIsRefused`, `ShownIsAccepted`, and `IInv` of the proofs |
| `orders_catalog` | 4 changes by the admin, no restarts or failures | finding 3 |
| `resize_calls` | 2 calls, plans for 2 flavors and one without, everything Nova and its operators do, one failure or slow move, with fairness | `SuccessMeansFlavor`, `ConfirmsOwn`, `CallsReturn`, `ResizesAreEnded`, and `IInv` of the proofs |
| `placement` | 2 nodes of one place each, one of them probed, 2 rows, 2 orders; one change by the admin, a hypervisor, a row's error, a failure or a restart with another environment; with fairness | `OversoldOnlyByRace`, `OfflineOnlyIfDown`, `LostStopsSelling`, `NodeReturns`, and `IInv` and `CrowdInv` of the proofs |

*Why the bounds are enough.* The races of `FloatingIPs` need a victim, an
offender and an address that passes between them: two servers and two calls, with
a second address so that a deletion has more than one to release and a third
port so that a server may have two. `fip_careful` checks two conditions on callers in
one run to keep it small; the theorems need one each. The proofs remove the bounds for the
safety properties. `MissLimit` is 3 where orphaning is the question, as in the
code, and 2 where it is not. Rows meet only in the pass's batch, so one row is
enough for the properties of `InstanceSync`, and `BatchLimit` is never exceeded; the
safety proofs hold for any number of rows and any limit. `PortAttempts`
and `PowerAttempts` are 2 where the retry matters, so that a first, a repeated and a
last attempt exist (the code has 30 and 5). One failure
at any place is enough for the partial failures listed as hazards. The four
environments of `Orders` differ in every field it reads (OpenStack absent, in one
region or in both; an explicit, a default or no flavor; the image mapped under its
name, its alias or both), and the API and the worker start with any two of them, so
one restart reaches every pair of before and after; two changes by the admin switch
something off and on again during a request, and four switch all lines off.
Servers share nothing in `Resize`, so one is enough; two calls and two flavors make
them conflict, confirm for each other and move back and forth. In `Placement` a node
with one place is oversold by the second order, and every event is tried against
every step of the sync and of the orders, one per behaviour: the two liveness properties see
a lost node or a failed write, never both, since two events are out of TLC's reach here.
`OfflineOnlyIfDown` and the other safety properties are proved for any number.

*Fairness.* `WF(Request(c))`: HTTP clients have time-outs, so every request is
answered or fails. Weak fairness of the environment steps: Nova finishes what it
started (building, plugging, removing ports). `WF(GetServer(c, s))` for the sync
loop's calls: the worker runs one pass after the other, and every pass asks for every
listed server. `WF(Pass)`: the pass goes on, and
each pass reaches every row it lists; of rows beyond `BatchLimit` nothing is claimed, for
which of them are listed is up to the store. `WF(Handle(h))`: a handler goes on
with its request. In `Resize`, `WF(Nova)`: a move ends some way; `WF(Answered(c))`: a
request is answered; `SF` of the two waits: they end after 600 s however often the
status changes meanwhile. In `Placement`, `WF` of the node sync without failures: the
worker runs pass after pass. Nothing is assumed of customers, of billing or of failures, except
that the latter are bounded.

## 4. What is proved

For every number of servers, ports, addresses, calls, attempts and failures, under
the assumptions named in `FloatingIPs` (`None` is not a server, port, address,
tag, method or record; tags are numbers; the names `AddressPool` uses are not servers):

| theorem | states |
|---|---|
| `FloatingIPsProofs!TypeCorrect` | `Spec => []TypeOK` |
| `FloatingIPsSafety!Safe` | `Spec => []IInv` |
| `FloatingIPsSafety!DropsIdle` | `Spec => []DropsOnlyIdle` |
| `FloatingIPsSafety!DetachesOnlyOwn` | `Spec => NoForeignDetach` |
| `FloatingIPsSafety!Implements` | `Spec => ImplementsPool`, that is, the adapter implements `AddressPool` |
| `FloatingIPsLeaks!LeakSafe` | `OrderlySpec => []LeakInv`, if `Reliable` |
| `FloatingIPsLeaks!OrderlyLeaksNothing` | `OrderlySpec => []NoLeak`, if `Reliable` |
| `FloatingIPsEnsures!ApartSafe` | `ApartSpec => []ApartInv` |
| `FloatingIPsEnsures!ApartEnsures` | `ApartSpec => EnsureOnlyWhenNone` |

*The argument.* `NoForeignDetach` speaks of a listing made many steps before it is
used, so it is not inductive. `IInv` says what remains true of a listing: a
floating IP on it, if it still exists, is attached where it was seen or nowhere
(`KnownInv`); the ports listed by a deletion are still its server's or gone
(`DeleteInv`); a swap has only floating IPs of its own port left to detach
(`SwapInv`); a removal only the address it was given (`RemoveInv`); what is about to
be deleted is unattached (`StepInv`); and a port carries at most one floating IP
(`AttachedInv`, which the refinement needs when a port goes).

`IInv` is stated again as an operator `CallOK(f, o, k)` of the floating IPs,
the port owners and a call's record, so that lemmas about it hold before and
after a step. A step keeps it because (a) it is *tame* for every call
(`PlugKeeps`, `AllocateKeeps`, `LoseKeeps`): floating IPs lose their port or
disappear but never move, a recycled address gets an identity nobody
remembers, and ports never change server; `KeepCall` says that tame changes keep a
call's part; and (b) the call that took the step goes on with a record that
keeps its part, or fails (`FailedKeeps`). `StepKeeps` combines both, and there is
one lemma per action or group of actions below it.

The property fails if floating IPs are named by address instead of UUID (the
mutant `Live_ByAddress`): identities are what the argument turns on.

*Leaks.* `NoLeak` is not true of all behaviours, and the proof says of which.
`Reliable`: no request fails (`releaseServerFloatingIPs` gives up at its first error,
which `DeleteServer` only logs) and no call names a server whose row is deleted (an
ensure would give it an address again). `Orderly`, in every state of `OrderlySpec`:
while a deletion runs no other call is about its server, and no removal has been given
an address that the deletion has listed or still has to list, for it would make the
deletion fail halfway. Everything else may run at the same time, other deletions
included.

Besides the calls, only Nova detaches addresses, with the ports of a server that
goes; so the argument is about deletions. `ListedInv`: a deletion past its listing
has on it every address its server holds, and none is left when it asks Nova to delete
the server. `ReleaseInv`: what it has listed is still there, is listed once, and is on
no other deletion's or probe's list (`ListedApart`: their ports belong to other
servers). `GoingInv`: only its own deletion is about a deleted server, and a server that
is going holds nothing. `PlaceInv` and `PortInv`: who can be where, and that an address is
put on a port of the call's own server. `HandsInv` is `NoLeak` with the call named that has
the address in its hands. `AddrCases` lists what a step can do to one address, and by
whom; `RequestPlace` what a request makes of its call's record; there is one lemma
per conjunct (`PlaceNext`, `PortNext`, `ReleaseNext`, `ListedNext`, `GoingNext`,
`HandsNext`).

*Ensures.* `EnsureOnlyWhenNone` is what finding 1 refutes, and the proof says of which
behaviours it is true: those in which no other call is about a server while one ensures
its address (`Apart`), requests failing, answers getting lost and calls coming late as
they may. `EnsureInv`: the ports an ensure has listed carry all that its server holds,
and once it has seen that they carry nothing, the server holds nothing until the
ensure's own address is attached. A listing can only become too long, for ports never
change server and an address is attached only to a port of the call's own server
(`PortInv`), which is another server for every other call. `AddrCases`, `OwnerCases` and
`CallCases` of `FloatingIPsSafety` list what a step can do to an address, a port and
a call's record; both proofs rest on them. So the missing second look is the only way
to a second address, and a lock per server would close it.

*Orders.* For every catalog, set of environments and number of restarts, failures and
changes by the admin, under `CatalogAssumption`, `EnvAssumption` and
`BoundAssumption`:

| theorem | states |
|---|---|
| `OrdersProofs!OrdersSafe` | `Spec => []IInv` |
| `OrdersProofs!OrdersTypeCorrect` | `Spec => []TypeOK` |
| `OrdersProofs!FailsByDrift` | `Spec => []FailsOnlyByDrift` |
| `OrdersProofs!ShutRefused` | `Spec => []ShutIsRefused` |
| `OrdersProofs!MissedUnconfigured` | `Spec => []MissedOnlyUnconfigured` |
| `OrdersProofs!ShownAccepted` | `Spec => []ShownIsAccepted` |

`ShownAccepted` compares two code paths and follows from the types and their
definitions. The other three speak of the end of a chain of separate steps, so `IInv`
records what each leaves for the rest: `GateInv` that the environment checked maps the
plan and the template if it sends the region to OpenStack; `ShutInv` that `shut` is
really off the market while the request runs, and that the line, the region and the
template leave it one check after the other; `NamedInv` that the API has not been
restarted since (`gate = api`), without which the template check would speak of another
environment than the plan's; `MadeInv` that the worker still routes to the cloud it
allocated in, unless it was restarted, and of the call that missed the server, that the
server was made in OpenStack, by a worker with it. An allocation that fails contradicts
`GateInv` unless the worker's environment is another one. There is one lemma per action
or group of actions (`ReceiveKeeps`, `CheckKeeps`, `BlindKeeps`, `JobKeeps`,
`AdminKeeps`, `RestartKeeps`).

*InstanceSync.* For any number of rows and requests and any `MissLimit`,
`PowerAttempts` and `MaxFaults`:

| theorem | states |
|---|---|
| `InstanceSyncProofs!SyncSafe` | `Spec => []IInv` |
| `InstanceSyncProofs!NoServerLeft` | `Spec => []DeletedIsDestroyed` |
| `InstanceSyncProofs!OrphanedLate` | `Spec => OrphanAfterMisses`, whatever fails |
| `InstanceSyncProofs!StartsUnblocked` | `Spec => StartsOnlyUnblocked` |

`IInv` contains the types and what the steps rely on. `HeldInv`: who holds a row has
seen it provisioned, and provisioning happens once, so the ID in a batch or a
request stays the ID of the row. `MissInv`: the count in the database is no higher than
the number of misses in a row, the one being counted included, except between an
answer and the clearing of the count. A restart there, like a count that cannot be
cleared, leaves it too high; `Remembers` says that neither can have happened, and
without it `MissInv` keeps what the property then states: a miss is counted, and a row
orphaned, only when the server has been missed since it was last found. `GoneInv`: the
event precedes the state, also for a request that has yet to write it, unless the ID
could not be read. `BlockInv`: what a request still has to find
out at `Check` and what it has found out at `power`. The worker writes what the
requests do not read and the reverse, so its steps are proved from what they share
(`WorkerShares`) and what they keep to themselves (`WorkerHas`, with `ItemStep` and
`PlainStep` for the steps that work on an item); a request's from `RequestKeeps`, the
environment's from `EnvironmentKeeps`.

*Resize.* For any number of calls, plans, flavors and failures:

| theorem | states |
|---|---|
| `ResizeProofs!ResizeSafe` | `Spec => []IInv` |
| `ResizeProofs!SuccessFlavor` | `Spec => SuccessMeansFlavor` |
| `ResizeProofs!ConfirmOwn` | `Spec => ConfirmsOwn` |

Success is reported long after the request it depends on, so `IInv` says of every
wait that its call has met the flavor, has lost its resize, or the server is still
moving to that flavor for this call (`WaitInv`), and whose resize is under way
(`OpenInv`).

*Placement.* For any nodes, capacities, rows, orders and events:

| theorem | states |
|---|---|
| `PlacementProofs!PlacementSafe` | `Spec => []IInv` |
| `PlacementProofs!OversoldByRace` | `Spec => OversoldOnlyByRace` |
| `PlacementProofs!OfflineIfDown` | `Spec => OfflineOnlyIfDown` |
| `PlacementProofs!CrowdSafe` | `Spec => []CrowdInv` |
| `PlacementProofs!OversoldByMeetings` | `Spec => [](Active(n) < Capacity[n] + Cardinality(Orders) + Cardinality(Erred(n)))` for every node `n` |

`RoomInv` says that the place an order has picked is there until a row joins the
node: rows leave a node freely, and all that joins it marks the orders that picked it.
The proof counts with `FS_AddElement`, `FS_Subset` and the like on the rows of a node.
`CrowdInv` bounds how far a node can be oversold by those that meet: a query leaves room
for one, and the others in progress, at most all of `Orders`, may have picked the node too. It
counts them with the rows on the node, for an order that writes its row goes over from
the one to the other (`CrowdMoves`), and leaves out the rows that have been in error
(`erred`), which the query did not count while they were. They come on top in
`OversoldByMeetings`, only those that are on the node. It assumes that orders are
finitely many.
`VerdictInv` ties the worker's verdict about a node to `down`, which is about this pass.

*Only model-checked.* Everything under fairness, which is out of the prover's reach:
`SyncHeals`, `CallsReturn`, `BillingPowersOff`, `RunningShown`, `ProvisionErrorHeals`,
`RequestsEnd`, `MissingSettles`, `StaleIPReleased`, `AddressShown`, `ResizesAreEnded`,
`LostStopsSelling`, `NodeReturns`.

## 5. Findings

1. `ensureServerFloatingIP` is documented to assign an address when "none is
   attached yet" (`openstack/floatingip.go:30`). It lists, waits up to 600 s for the
   server to be active and then creates without looking again: a second
   address is given to a server that got one in between (`fip_ensure`). There is no other
   way to it (`ApartEnsures`).
2. `syncReinstallingInstance` is documented to orphan missing servers "without
   refund" (`cmd/worker/sync_instances.go:88`). Which branch runs depends on the
   state in the batch: a row whose reinstall started after the batch was read is
   orphaned while reinstalling, with a refund (`sync_refund`).

3. `ListPlans` is documented to answer "available=false when admin disabled the
   region+tier line" (`handler/handler.go:65`). It looks lines up only if one is
   enabled (`:89`): with all of them disabled every plan is shown as available, and
   `CreateOrder` refuses each one (`orders_catalog`).

What the model shows and no document contradicts:

- *Floating IPs.* `releaseServerFloatingIPs` gives up at its first error and
  `DeleteServer` only logs it, so the remaining addresses stay allocated for good; a
  sync pass that read its batch before a deletion gives a server in deletion an address
  that outlives it; a removal by address that meets a deletion makes it give up (why
  `NoLeak` is proved of `Reliable` and `Orderly` calls).
- *Instance sync.* An ignored error of `ClearInstanceSyncMiss`, or a restart between
  `GetServer`'s answer and that call, lets a row be orphaned after misses that were not
  consecutive (the second case of `OrphanAfterMisses`); an unreadable external ID makes
  a deletion skip the destroy event (the exception of `DeletedIsDestroyed`); a failing
  hold query lets a start through (the second case of `StartsOnlyUnblocked`).
- *Orders.* With an empty flavor map `CreateOrder` checks no plan, and charges for
  orders no flavor can be found for; with `OPENSTACK_DEFAULT_FLAVOR` alone it refuses
  plans that could be built; a template the admin switched off is hidden but still sold
  in OpenStack regions; while no template is active, VirtFusion regions show a list of
  which `CreateOrder` accepts nothing (the exceptions in `FailsOnlyByDrift`,
  `ShutIsRefused` and `ShownIsAccepted`); `BuildServer` follows the region, not the
  server.
- *Resize.* A rejected or reverted resize is taken for an automatically confirmed one,
  and a call that meets the resize of another flavor reports success (the second and
  third case of `SuccessMeansFlavor`). After a failed request or a slow move the retry
  finds the flavor already there and leaves the server in `VERIFY_RESIZE` (why
  `ResizesAreEnded` speaks of `faults = 0`). A server that is off is resized and
  confirmed, and the call then fails, for it waits for `ACTIVE`.
- *Placement.* Rows in error do not count (`nodes.go:18`), so a node is full twice when
  they recover; `OversoldByMeetings` says how far it goes. A worker restarted without an
  OpenStack region in its environment takes that region's nodes off line, and no code
  brings them back (`src/infra/openstack/sql/11-fi-node-online.sql` does it by hand).
  The pattern for UUIDs in `nodeProvisionableWhere` is stricter than
  `LooksLikeOpenStackServerID`. A request without tiers wipes a node's lines, one with
  unknown tiers only is refused.

## 6. What is not modelled

Time (time-outs are choices), the read-only address reports (`serverPublicIPs`,
`primaryIPv4`), the dedicated-server providers in `InstanceAction`, the money of a
refund, the dedicated servers and mock mode of `CreateOrder`, the classification of
provisioning errors (`hypervisor/permanent.go`), the host load that the node sync
copies, the store's queries that only list, the pure helpers of one argument
(`prefixToNetmask`, `cidrPrefix`, `dedupeStrings`, which a table test covers), and the
components that keep no state: console, metrics, passwords, user data, snapshots, TLS.
The scripts in `src/infra/` are one-off operations; they were read to learn which
states rows may be put in.

The modules are not composed further. `Orders` and `Placement` meet in
`CreateOrderWithBilling`, `InstanceSync` and `FloatingIPs` in `GetServer`; the first is
not in the repository, and the second would only multiply two state spaces that share
one fact, whether a server has an address (`ip` of `vm`, which `Readdress` changes at
any time).

## 7. Plan

What is left is proof: abstract specifications of `InstanceSync` (what may happen to a
row) and `Resize` (a plan that is asked for, reached or given up), and that the
modules implement them.
