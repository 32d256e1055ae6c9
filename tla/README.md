# TLA+ specifications of MikroLB

MikroLB is a Kubernetes controller that gives `LoadBalancer` services addresses
from `IPPool` objects and has a MikroTik router (RouterOS) advertise the
addresses and forward their traffic. These modules specify its core: the
bookkeeping of addresses under a stale cache, the controllers around it, the
arithmetic of address ranges, and the synchronisation of the router's tables.

Paths below are relative to `src/`.

## 1. The system

| component | state | operations | talks to |
|---|---|---|---|
| IPAllocation expectations (`internal/controller/ip_allocation_expectations.go`) | pending allocations (owner, time) and pending releases (time), by address; in memory | stage, unstage, resolve, confirm | called by the allocation controller |
| IPAllocation controller (`ip_allocation_reconciler.go`) | status, phase and finalizer of every `IPAllocation`, in the API server; a work queue | one `Reconcile`: clean up, add the finalizer, choose an address, program the router, update the status | API server (patch, status update), informer cache, router |
| IP ranges (`internal/core/ip_range.go`, `ip_range_set.go`) | none; pure | parse, contains, count, iterate, merge, subtract, intersect | used by both controllers and the webhook |
| Pool addresses (`internal/controller/ip_pool.go`) | none; pure | `ParseIPPoolAddresses` | as above |
| IPPool controller (`ip_pool_reconciler.go`) | status and finalizer of every `IPPool`; the trigger annotation on allocations | `Reconcile`: add the finalizer, trigger allocations, count, patch the status or drop the finalizer | API server, two informer caches; the annotation wakes the allocation controller |
| IPPool webhook (`ip_pool_webhook.go`) | none | validate a create or an update | called by the API server, lists pools directly |
| RouterOS client (`internal/routeros/api`) | cached policies | `Sync`: read a table, match, delete, patch, create | router (REST) |
| RouterOS backend (`internal/routeros/backend.go`) | the router's tables, a mutex | ensure and delete advertisements and services, choose an interface | client |
| Service controller (`service_reconciler.go`) | finalizer and ingress status of a `Service`; its allocations | `Reconcile`: clean up, add the finalizer, delete and create allocations, patch the ingress, `EnsureService` | API server (patches, a direct list), three informer caches, backend |
| Start-up, types, generated code, mock server | | | |

What is hard to test here:

* the allocation controller chooses addresses from a cache that lags behind
  its own writes, and corrects it with an in-memory table that is compared by
  time, in two different resolutions, and that is lost in a crash;
* every handler is a sequence of calls that may fail one by one, also after
  they took effect, while users and the other controllers write in between;
* the watch streams of different kinds are not ordered among each other;
* the router's table is changed in place by several calls, while an
  administrator may edit it;
* the loops over ranges work with "next" and "previous" addresses that do not
  exist at the ends of the address space.

What makes each component correct:

* *allocation*: no address is held twice; a Programmed allocation is
  advertised; an unfinished allocation is never forgotten; deletions complete;
  a free address is granted in the end; an advertisement has an owner;
* *ranges*: merge, subtract and intersection compute union, difference and
  intersection, leave canonical lists and end; the iteration offers every
  address once; Contains agrees with the range;
* *pool controller*: counters are right once it is quiet, an edit moves the
  allocations that name the pool and were never triggered before, a deleted pool
  goes away;
* *webhook*: pools stay disjoint;
* *Sync*: it ends in exactly the requested rules, leaves foreign rules alone,
  leaves what is right alone when it is repeated, and converges after failures;
* *backend*: a call that returns without an error has brought the router to
  exactly what it is for, whatever failed calls left and whatever other
  services do; nothing is forwarded that is not guarded; an advertisement is on
  the right interface and a withdrawal leaves foreign entries alone;
* *service controller*: a quiet Service has exactly the allocations, the ingress
  and the rules its spec asks for, a Service that is gone leaves nothing behind,
  and the controller comes to rest.

## 2. Modules

| module | models |
|---|---|
| `IPAllocationExpectations` | the two maps and each operation on them, as operators |
| `IPAllocationController` | `Reconcile` of allocations with API server, watch stream, cache, queue, router, clock and crashes |
| `AddressLedger` | abstract specification: a ledger with one owner per address |
| `IPAllocationInvariant` | the inductive invariant and the refinement mapping to the ledger |
| `IPAllocationLiveness` | the same controller with a history of the addresses that moved or failed allocations left behind, and when a free address is granted |
| `IPRange` | `netip.Addr.Next/Prev`, `ParseIPRange`, `Contains`, `Count` |
| `IPPoolAddresses` | `ParseIPPoolAddresses`, merge, subtract, intersection, iteration by iteration |
| `IPRangeIter` | `IPRange.Iter` |
| `IPPoolSearch` | composition of the two: the allocation controller's search through a pool |
| `IPPoolController` | `Reconcile` of pools with both streams and caches, composed with a one-step allocation controller |
| `IPPoolWebhook` | admission and storing of pools, as two steps |
| `ClientSync` | `Client.Sync`, one REST call at a time |
| `RouteSelection` | `determineInterfaceForIP` |
| `IPAdvertisement` | `EnsureIPAdvertisement` and `DeleteIPAdvertisement` around it, with `Policies` |
| `RouterOSBackend` | `Setup`, `EnsureService` and `DeleteService`, one Sync at a time |
| `ServiceController` | `Reconcile` of services with caches, queue, API server and crashes, composed with the promises of allocation controller and backend |
| `MC...` | constants for TLC |
| `..._proofs` | theorems |

### IPAllocationController

`api` is what the API server has, `events` the watch stream, `cache` the
informer's store, `queue` the work queue and `rec` the handler's local
variables; `rec.pc` tells which call of `Reconcile` is next. The actions follow
the handler: `Start` (Get from the cache and the early returns),
`CleanupAdvertisement` and `RemoveFinalizer` (deletion), `AddFinalizer`,
`Decide` (lists, `Confirm`, `Resolve`, the choice, `StageAllocation`),
`Program` (`EnsureIPAdvertisement` or `DeleteIPAdvertisement`) and
`UpdateStatus` (`Status().Update` with unstaging on an error). A call fails at
the price of a `Fault`; a failed patch or router call may have taken effect.
`Crash` loses `rec`, the queue and the expectations and starts over from a list.
`Create`, `Delete`, `Annotate` and `SetPool` are the other writers.

Data is abstracted as follows. An address is a number; a pool is one interval of
one family (the arithmetic of real pools is in `IPPoolAddresses`); an offset is
`Hash`, the order of candidates is `Rank`, which `IPRangeIter` shows to be that
of `IPRange.Iter`. A condition is its time, kept while its status does not
change (`meta.SetStatusCondition`) and rounded down to whole seconds when
stored (`metav1.Time`); staged times are exact. An object is created with an
empty phase, because the API server drops the status of a new object, and nobody
stores the phase Pending later. Validation of the resource
allows one of address, pool name and family in a request. `InterfaceName`,
messages and events are left out.

Two things that the code does not rule out happen here, and make the controller
lose track of an address: it reconciles an allocation from a copy that its own
last write has not reached (`Misread`; in practice the watch is faster than the
next reconciliation, but nothing enforces it), or a status update is applied
although the client sees an error. The history variable `doubtful` collects the
addresses concerned, `Known` are all others; `UniqueAddress`, `ProgrammedIsAdvertised`
and `ImplementsLedger` speak of the known ones. `IPAllocationLiveness` adds `abandoned`: the
addresses whose pending entry outlives the grant, because the holder moved or
failed. No step of the controller reads a history variable.

### IPPoolAddresses, IPRange, IPRangeIter and IPPoolSearch

Addresses are `0..MaxAddr`; `Next` of the last and `Prev` of the first one are
the invalid address, which compares less than all others, as in `net/netip`.
An entry of `Spec.Addresses` is a range, a CIDR or malformed text, of the
pool's family or not, excluded ("!") or not; with `avoidBuggyIPs` the edges of a
CIDR are trimmed. `Parse`, `MergeExtend`, `MergeEmit`, `Subtract`, `Intersect`
are the iterations of the loops, with the code's indices and its `current`
range. `slices.SortFunc` is not stable: any sorted order is considered.
In `IPPoolSearch` the ranges that come out of this are iterated one after the
other, from every offset; the consumer, who knows which addresses are free, may
stop at any of them.

### IPPoolController

The same scheme as above with two streams. `Enqueues` is
`GenerationChangedPredicate`; any allocation event queues all pools.
`MergePatch` is what a merge patch computed against a cached copy does to the
stored status. `FormatCount` is modelled with its rounding. `ReconcileAlloc`
is the allocation controller reduced to one step: it keeps or chooses an
address of the pools that exist, and does not look at a deletion timestamp.
The history variable `early` has the pools whose last reconciliation started
before the cache showed the controller's own last write to them.

### IPPoolWebhook, ClientSync, RouteSelection

`Validate` and `Store` are separate because the API server stores an object
after the webhook has answered; `raced` remembers whether two admitted requests
ever waited for their write together.

A rule of `ClientSync` is what `compareObjs` compares; `key` is the value of
`idFunc`, `own` the verdict of `filterFunc`. `MatchNext` is the matching loop
(one object a step), `SortOut` the loop that turns superfluous objects to patch into
conflicts, then come deletes, patches and puts, one call per step, with
`Administrate` in between. `synced` says whether a Sync has returned without an error
since others changed the table or the requests, and whether there was another
Get since; `SingleKeys` are the keys of requests that share theirs with none. `MCClientSync` builds the rules of
`ensureLBServicePortDNATRules`: an `nth` on every rule but the last.

`RouteSelection` is the loop over the routes with its two criteria, prefix
length and distance.

### IPAdvertisement

The calls for one address. `entries` is the part of the router's address table
for it, `own` says whether the comment is the controller's. `Select` is the
loop of `RouteSelection`; `SyncEntries` is one Sync (with its states after a
failure); `Announce` is `triggerGratuitousAdvertisement`, which needs two
policies of the user and the traffic generator. `cached` is the policy cache of
the client, which may be out of date. The bytes of the packet are left out.

### RouterOSBackend

`rows` are the objects that carry a service's UID, `base` the rules of `Setup`,
`call` the running call with the Syncs it has still to make (`todo`; `left` are
the port chains of the current one). The mutex makes a call the only one. A Sync
is what `ClientSync` shows of it: the selected objects become the requested
ones, or the call fails with part of it done (`HalfSynced`). `GoOn`, `Logged` and
`Collected` are the three ways in which the code treats an error. The steps are
named after the tables:

| step | code | step | code |
|---|---|---|---|
| dnat | `ensureLBServicePortDNATRules` | unlist | `cleanupLBIPsList` |
| ports, stale | `ensureLBServicePortRules` | unrule | `deleteLBServiceRules` |
| jump | `ensureLBServiceRule` | unsnat | `deleteSNATServiceRule` |
| list | `ensureLBIPsList` | unsrcs | `deleteSNATSrcIPsList` |
| srcs | `ensureSNATSrcIPsList` | reject, accept, mangle, dstnat, srcnat | `Setup` |
| snat | `ensureSNATServiceRule` | | |

`want` is what the service controller will ask for; an address changes hands
between two services before the old one's rules are removed. The properties are
stated with `Forwards`, which follows a connection through list, jumps and
chains.

### ServiceController

`svc`, `alloc` and `eps` are the API server's objects, `cache`, `cachedAllocs` and
`cachedEps` the informers' copies. Versions of a Service reach the cache one by
one (`log`), those of allocations and endpoints may be skipped. `rec` is the
reconciliation with the copy it read; a phase is one call that changes
something. Every patch is a merge patch against that copy: what the copy
already has is not sent; the second patch of a cleanup carries the
resourceVersion of the first one's answer, so it is refused when the Service
changed in between (`rec.same`). Loops over allocations are one step, because
nothing between their calls is read again. The allocation controller is reduced
to what `AddressLedger` says: it grants free addresses, withdraws and releases
them; the backend to what `RouterOSBackend` shows. A configuration holds the
valid entries of the annotations; the annotations that disable load balancing
or SNAT only set fields nobody reads. A Service that is deleted and created again
has another UID and is another Service.

Two history variables mark what the code does not protect against: `early`,
services that were reconciled before the caches showed the controller's own
writes about them, and `slipped`, services whose last reconciliation only
logged a failed create or delete.

## 3. Runs

All runs use small sets; every counter has a named bound (`MaxOps` external
operations, `MaxFaults` failing calls and crashes, `MaxClock` ticks, `MaxId` the
`.id`s a router gives out).

| run | result | shows |
|---|---|---|
| `alloc_safety` | pass, 2.6 M states | `UniqueAddress`, `ProgrammedIsAdvertised`, `NeverForgotten` for two allocations, one that names the pool and one that takes any, and a pool that is halved and then neither advertised nor auto-assigned |
| `alloc_live` | pass, 403 k | `UniqueInv`, `ImplementsLedger`, `DeletionCompletes`, `FreedAddressIsGranted` for one allocation that takes any address, one that insists on the only one, and a pool that may stop auto-assigning, so that its holder fails |
| `alloc_orphan` | `WithdrawnBeforeForgotten` violated | an allocation whose pool is deleted fails and leaves its advertisement |
| `pool_addresses` | pass, 1.5 M | merge, subtract, intersection, `Contains`, the order and completeness of the search (`InOrder`, `OffersEveryAddress`), and termination |
| `pool_added` | `NothingIsAdded` violated | an exclusion in front of the pool adds addresses |
| `sync_scaled` | pass, 1.9 M | `SyncedExactly`, `ForeignKept`, `RepeatedSyncIsQuiet`, `Converges`; endpoints come and go, and one is listed twice for a while |
| `sync_fallback` | `FallbackIsLast` violated | reordered endpoints |
| `pool_status` | pass, 701 k | `StatusIsCurrent`, `UnmarkedIsMoved`, `PoolDeletionCompletes` |
| `webhook` | pass, 3 k | `PoolsDisjoint` |
| `routes` | pass, 5.0 M | `LongestPrefixWins`, `AdvertisementIsExact`, `AnnouncedIsAdvertised` |
| `backend` | pass, 416 k | `ForwardedExactly`, `TranslatedExactly`, `DeletedLeavesNothing`, `GuardedBeforeListed`, `Converges` |
| `services` | pass, 508 k | `QuietIsExact`, `NothingLeftBehind`, `StrayRouteIsBusy`, `GuardedByFinalizer`, `ComesToRest` |

Every module states its type invariant. Three runs list theirs; the others hold
in their instances as well (add `TypeOK`, `SearchTypeOK` or `AdvTypeOK` to the cfg).

Why the bounds are enough to be interesting:

* *allocations*: a double grant needs two allocations and one address; the
  second address lets an allocation move. A second has three ticks and the
  timeout is one, so a staged time and a stored one fall into the same second,
  and pending releases expire. Four operations are a creation of each
  allocation and two more of deletion, re-creation or a pool change; one
  fault reaches every error return and a crash at every step. For the liveness
  properties one address is enough: the second allocation waits for the address
  that the first one gives back, moves away from or loses.
* *ranges*: over four addresses two entries show every relation of two
  intervals, at both ends of the address space; lists of three ranges make
  each loop advance one index several times before the other. Lists of three
  are only taken in sorted order, because merge sorts its argument and treats
  inclusions and exclusions separately.
* *Sync*: two endpoints give rules that differ in key, in body and in both, and one
  listed twice gives rules that share a key; two operations are a change of the
  requests and an edit, or two of either, and two faults stop a Sync and its
  repetition. Seven `.id`s are enough for all of that.
* *pools*: one pool and two allocations, one that names the pool and one that does
  not; the contents {1}, {2} and {1, 2} let a pool grow, shrink and be replaced.
* *webhook*: three pools and two addresses, three requests, two of them between
  check and write.

* *routes*: three routes show every order of better, equal and worse ones; the
  table starts with any set of entries of two interfaces and two owners, which
  is more than earlier calls with other routes can leave.
* *backend*: two services and six values of a service: one port, two ports, both
  families, endpoints of one family behind addresses of the other, another
  address with no endpoint ready, SNAT only; three changes let an address go from one
  service to the other and a service change again before its call; one fault
  stops a call at any Sync, or the process. With two faults (without the
  liveness property) TLC finds no error either.
* *services*: one Service, because services share nothing but the worker and the
  addresses: another one would only delay it and take addresses away, and the
  model may wait and withhold addresses anyway. Two events are two operations,
  or one and a failing call or crash at any step. Larger instances that TLC
  finished without an error: three events (2.2 M states, safety only), and two
  IPv4 addresses instead of one of each family (848 k).

`CHECK_DEADLOCK FALSE` is used because these systems may stop: the environment's
operations are bounded, a reconciler with nothing to do waits, a loop ends.

**Fairness.** `WF(Worker)`: the worker's goroutine runs and its calls return, with
an answer or an error. `WF(Deliver)`: the informers keep their watches up.
`SF(Start(a))`: the work queue is first in, first out, so a queued name gets its
turn although others keep failing; `Start` is disabled while another name is
worked on, hence strong fairness. `WF(Sync)`: a reconciliation comes again after
an error and from the periodic resync; `SF` of `Begin(s)` in `RouterOSBackend` is the
same for a call that waits for the mutex, and `WF(Work)` for the calls of a
running one. In `ServiceController`, `WF(Reconcile)`, `WF(Watches)` and `SF(Start(s))`
are these assumptions again; deleted allocations are released, which is
`DeletionCompletes` of the allocation controller; that a free address is granted
is not assumed. A loop of `IPPoolSearch` goes on (`WF`). Faults, crashes and operations get no
fairness, and are bounded. The liveness properties of the allocation controller
only speak of behaviours in which the bound of the clock does not stop it
(`WithinClock`), and `Converges` of Sync of those in which the `.id`s last (`WithinIds`); TLC checks that such behaviours reach the conclusion, and the
mutants of these properties show that they are not empty.

## 4. Disagreements between the code and what it says

Kept as runs:

1. `alloc_orphan`: the pool of a Programmed allocation is deleted, the allocation is
   reconciled again, gets no address and fails; its status forgets the address
   without withdrawing the advertisement (`ip_allocation_reconciler.go:303`), and its deletion
   finds nothing to withdraw. The comment at `:96` says the finalizer is there "to
   guarantee that we get a chance to clean up RouterOS resources".
2. `pool_added`: subtracting [1-3] from [10-20] gives [4-20]
   (`ip_range_set.go:204`); the test "subtract disjoint no change" only has a
   subtracted range behind the base.
3. `sync_fallback`: patching in place does not keep the order of the requests,
   so the fallback rule can come first (`api/client.go:231`,
   `backend.go:755`).

Seen with variants of the instances, and not kept as runs:

* an address given twice after a lost reply: any error of the status update
  unstages the address, even when the update was stored; until the watch event
  arrives the address looks free (`ip_allocation_reconciler.go:419`). TLC finds it when
  `UniqueAddress` is stated for all of `IP` instead of `Known`;
* the same after a reconciliation from a copy that lacks the controller's own last
  write, which granted an address: the status update is refused as outdated, and the
  address is unstaged although the allocation has it. TLC finds it with one failing call
  when `Misread` is not counted;
* an allocation that moves to another address also leaves its old advertisement, and
  so does a status update that fails after the router was programmed;
* a Service deleted shortly after its creation: `cleanupService` lists the
  allocations from the cache (`service_reconciler.go:501`), which may not have the
  ones the previous reconciliation created. They stay, with their addresses,
  and the finalizer is gone. TLC finds it with one deletion and no fault when
  `NothingLeftBehind` is stated for all services instead of those outside `early`;
* likewise `GuardedByFinalizer`: a Service that is unmanaged for a moment loses its
  finalizer, and a reconciliation from the copy before that creates rules and
  allocations without one (`service_reconciler.go:150`; the comment at `:148` says
  the finalizer is there "to guarantee that we get a chance to clean up");
* a failed create or delete of an allocation is only logged, and the
  reconciliation succeeds (`service_reconciler.go:335`); hence `slipped`;
* the ingress of a Service that is no longer managed stays when the second
  patch of the cleanup fails or is refused (`service_reconciler.go:139`), or when
  the cached copy did not show it yet;
* `LBEnabled` and `SNATEnabled` are set from annotations and never read by the
  backend, so the annotations do not disable anything
  (`docs/guide/services.md:35` and `:60`);
* a port whose last endpoint of a family disappears while another family keeps
  one: its jump rule stays and its chain is not synchronised, so traffic keeps
  going to the old endpoint (`backend.go:733`); `ForwardedExactly` leaves such a port
  out;
* every `EnsureService` of a service with SNAT and without an LB address first
  deletes its SNAT rule and then creates it again (`backend.go:976`);
  `TranslatedExactly` leaves the running call of such a service out;
* `EnsureIPAdvertisement` takes over an administrator's entry for the address,
  which `DeleteIPAdvertisement` then deletes as its own (`backend.go:310`);
* a pool's counter that stays wrong: after a crash and an edit, a pool is reconciled
  from the old copy while the controller's own write is under way, and the merge
  patch omits a counter that has changed back (`ip_pool_reconciler.go:142`). TLC finds it with
  `MaxOps = 4` when `StatusIsCurrent` is stated for the pools in `early` too;
* `isPendingInPool` (`ip_pool_reconciler.go:120`) is never true, because nobody stores the phase
  Pending; a failed allocation is retried by its own controller all the same;
* a pending allocation has no timeout (`ip_allocation_expectations.go:104`). The owner moves or fails
  and gives its address up; the entry, whose time is later than the stored, rounded one, is
  never confirmed, and the address is refused as `AddressAlreadyUsed` for as long as the process
  runs, although nobody owns it (`docs/guide/debugging-ipallocations.md:66` says "address already
  owned by another allocation"). TLC finds it when `Waiting` does not leave out the addresses in
  `abandoned`;
* the phase Failed is called terminal (`ipallocation_types.go:73`) but is retried;
* the edges of an excluded CIDR stay in a pool with `avoidBuggyIPs`
  (`ip_range.go:92`, `docs/guide/ip-pools.md:20`);
* `Contains` is false for a range that ends with the last address of its family
  (`ip_range.go:120`); `ContainsIsExact` leaves that range out;
* the trigger annotation is never removed, so an allocation is triggered once
  (`ip_pool_reconciler.go:153`), perhaps before it has an address; `UnmarkedIsMoved` says what
  remains true;
* an allocation of a deleted pool is reconciled while the pool still exists and
  keeps its address (`ip_pool_reconciler.go:122`);
* an endpoint listed in two EndpointSlices of a service, which Kubernetes allows while slices
  are rearranged, gives two requests with one key (`service_reconciler.go:429`): each Sync takes the
  second object for patching by the first request (`api/client.go:191`), deletes it and creates
  it again. The run `sync_scaled` has such a list: `RepeatedSyncIsQuiet` stated for all of `Key`
  instead of `SingleKeys` is violated there;
* two pools whose admissions overlap in time may share addresses
  (`ip_pool_webhook.go:44`); hence `raced` in `PoolsDisjoint`.

## 5. Proofs

The theorems hold for every value of the constants that satisfies the modules'
assumptions: any number of allocations, addresses, pools, services, routes,
operations and faults, and lists of any length. 33 of the 40 properties that the
passing runs check are proved, all that are not about liveness. Each proof module defines the inductive invariant it
needs, and has one lemma per action that shows that the action keeps it.

| theorem | module | states |
|---|---|---|
| `TypeCorrect` | `IPAllocationController_proofs` | `TypeOK` |
| `UniqueInvariant`, `AddressesUnique`, `LedgerImplemented` | `IPAllocationController_proofs` | `UniqueInv`, `UniqueAddress`, the refinement of `AddressLedger` |
| `NothingForgotten`, `ProgrammedAdvertised` | `IPAllocationController_proofs` | `NeverForgotten`, `ProgrammedIsAdvertised` |
| `PoolTypeCorrect`, `PoolControllerInvariant`, `StatusCurrent`, `EditedPoolMoves` | `IPPoolController_proofs` | `TypeOK`, `PoolInv`, `StatusIsCurrent`, `UnmarkedIsMoved` |
| `SyncTypeCorrect`, `SyncInvariant`, `ForeignObjectsKept`, `SyncReturnsInSync`, `SyncedIsExact`, `RepeatedSyncChangesNothing` | `ClientSync_proofs` | `TypeOK`, `SyncInv`, `ForeignKept`, `ReturnsInSync`, `SyncedExactly`, `RepeatedSyncIsQuiet` |
| `WebhookTypeCorrect`, `SerialAdmissionsDisjoint` | `IPPoolWebhook_proofs` | `TypeOK`, `PoolsDisjoint` |
| `PoolInvariant`, `MergeExact`, `ExcludedOut`, `NoAddressLost`, `PoolCanonical`, `OverlapExact`, `ContainsExact`, `IterInOrder`, `EveryAddressOffered` | `IPPoolSearch_proofs` | the loop invariants, and the eight invariants of the run `pool_addresses` |
| `BestRouteMatched`, `AdvertisementExact`, `AnnouncedAdvertised` | `IPAdvertisement_proofs` | the three invariants of the run `routes` |
| `BackendInvariant`, `ServiceForwardedExactly`, `SourcesTranslatedExactly`, `DeletedServiceLeavesNothing`, `AddressGuardedBeforeListed` | `RouterOSBackend_proofs` | `BackendInv`, and the four invariants of the run `backend` |
| `ServiceTypeCorrect`, `ServiceInvariant`, `RulesUnderFinalizer`, `CleanupComplete`, `StrayRoutesRemoved`, `QuietServicesExact` | `ServiceController_proofs` | `TypeOK`, `ServiceInv`, and the four other invariants of the run `services` |

**Unique addresses.** `UniqueInvariant`, `AddressesUnique` and `LedgerImplemented` assume
nothing of timing; they speak of the addresses outside `doubtful`. What is left
out is one address at a time: an address that becomes doubtful does not spoil
what is known of the others, which each step of the proof has to show. Uniqueness is not
inductive: the invariant `UniqueInv` adds what each copy of an object may say.
`StoreInv`: times lie in the past, the stream is ordered by version between
the cache and the API server, everything under way for a held address shows
that address, a held address is in the cache or pending for its holder
(`AddressKnown`), and no other object can confirm that pending entry
(`OnlyOwnerConfirms`), whatever the rounding of times. `WorkerInv`: a pending
release belongs to a free address or to the deletion in flight
(`ReleasedIsFree`), and the reconciliation in flight holds its staged address
alone (`ReleaseInv`, `GrantInv`). Together they give the key lemma: an address
outside `Resolve` is held by nobody else. The refinement maps the ledger's owner to the
holder: an address is free in the API server between two owners.

**Attention.** `NothingForgotten` needs no assumption. Its invariant `BusyInv` says that
the cache and the stream together show the current object, that a handler which
is about to patch a finalizer sees the current object or will be called again
(`PatchInv`), and that the status a handler is about to write is a failure, which is
retried, or makes the allocation ready (`ResultInv`).
`ProgrammedAdvertised` joins it with `UniqueInv`: a withdrawal only hits an address that
nobody else has been given, or one that is doubtful from then on.

**Ranges.** Each loop of merge, subtract and intersection has an operator that says what
its result so far and the rest of its argument cover together (`MergesTo`,
`SubtractsTo`, `IntersectsTo`), and a lemma for its start, an iteration and its end;
`PoolInv` puts them in sequence. For the iteration, `At` says where the loop stands:
before the end of the range, or around it. `Rotation` shows that every address has
its turn once, and `CanonicalDisjoint` carries this over to the list of ranges.
`SubtractsTo` says nothing about addresses that are added: this is the disagreement
of the run `pool_added`, and the proof goes through without it because what is added
lies between the ranges already written and the current one.

**Advertisement.** The loop invariant says `LongestPrefixWins` of the prefix of the routes
that has been examined; `CallInFlight` carries its choice through Sync to the
announcement.

**Backend.** `Exact` is what a settled service's objects are, one family at a time;
`DoneFor` says the same of a running call, but for what its remaining Syncs will
still do. `Plan` is the shape of these remaining Syncs. One lemma per Sync says what
it does and keeps (`Does`, `Keeps`); `NoSharing` is why the calls of one service do
not disturb another: the addresses of two services are disjoint, an address that
changes hands included.

**Service controller.** `CacheInv`: the log of versions leads from the cached copy to the
stored one, so whoever reads an outdated copy is called again. `WorkInv`: what the
reconciliation in flight has read is still true or will be repeated (`ReadInv`), its
addresses are those of the allocations (`AddressInv`), and it works under the
finalizer (`GuardInv`). `RestInv`: a service that nobody is going to look at is as its
object asks for. The proof corrected a property: `StrayRouteIsBusy` was stated for all
services, but a reconciliation from an outdated copy can write rules for a Service
whose finalizer is already gone; it takes four operations, more than the run's
bound, and TLC confirms it with `MaxOps = 4`. The property now leaves out the
services in `early`, like the other properties about cleaning up.

**Webhook.** The invariant adds that without a race at most one request is admitted and
is still valid: only a deletion can have happened since its check.

**Pool controller.** `StreamInv`: each cache and its stream show the stored objects, and
two consecutive versions of a pool either agree in what the controller acts on or the later
one passes `GenerationChangedPredicate`; so every change of a specification, a deletion and a
re-creation included, queues its pool, although events are dropped. `Ahead` says that a pool is
queued, or that such an event of it, or any event of an allocation, is on its way. `MovedInv`
and `StatusInv` say of each misplaced allocation and of each pool that it is `Ahead`, or that
the running reconciliation works with what is stored, or that nothing is left to do. This needs
the streams because `Reconcile` reads two caches that lag by different amounts.
No theorem assumes anything of timing; `StatusCurrent` leaves out the pools in `early`, and for
all others what the running reconciliation will write is a difference to the stored status.

**Sync.** `IdInv` holds with an administrator at work: an .id is never given twice, so an .id that
Sync has read on an own object leads to an own object or to none; this is `ForeignObjectsKept`.
`CalmInv` speaks of calls that nobody interferes with. During the matching, every own object of the
part of the table already read has exactly one place: found, patchable or conflict (`Matching`).
During the writes there is an assignment of objects to requests that no object serves twice, and
that covers what is left of the table (`Writing`); when Sync returns it is a bijection onto the own
objects (`Matched`), and then the numbers of objects and of requests agree
(`SyncReturnsInSync`). `SyncedIsExact` carries this on to the next Get. None of this assumes anything
of the requests. `RepeatedSyncChangesNothing` speaks of the Syncs that follow, failing ones included:
a request that is alone with its key and has its object (`Settled`) finds it again, whatever
happens to the objects of other keys. `QuietInv` says so of each stage of a call, `JustSynced` that
it holds when a Sync has returned.

Only model-checked are the liveness properties (`DeletionCompletes`, `FreedAddressIsGranted`,
`Finishes`, both `Converges`, `PoolDeletionCompletes`, `ComesToRest`), because fairness is out of
the prover's reach.

## 6. Not modelled

* URLs, HTTP and JSON handling of the client: encoding without state.
* Gratuitous advertisements: the bytes of the packets (`gratuitous.go`); when
  they are sent is in `IPAdvertisement`.
* Configuration and start-up beyond `Setup`: read once, wired once. `Check` only
  reads the router's version.
* The hash that names chains and lists: a name is the service itself, so a
  collision of two hashes is outside the models.
* `IPRangeSet`'s split into families and its text form; events, log messages,
  `ipMode` and the texts of annotations.
* The mock server (a test double) and generated code.

## 7. Plan

Done, in this order: expectations and allocation controller; its invariant,
ledger and proofs; ranges; iteration and search; Sync; pool controller; webhook;
routes and advertisement; backend; service controller.

Proved: every invariant and action property of the passing runs, and the refinement
of the ledger.

What is left: the two hazards without a property (an allocation of a pool that is
being deleted, an ingress that a failed second patch leaves behind), which the code
would have to change for; and the liveness properties, which stay with TLC.
