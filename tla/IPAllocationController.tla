------------------------ MODULE IPAllocationController ------------------------
(***************************************************************************)
(* The IPAllocation controller of internal/controller/                     *)
(* ip_allocation_reconciler.go: one worker that gives every IPAllocation   *)
(* object an address of a pool, has the router advertise it, and takes     *)
(* both back when the object is deleted.                                   *)
(*                                                                         *)
(* The controller never sees the API server's state directly.  It reads    *)
(* allocations from an informer cache that a single ordered watch stream   *)
(* (events) brings up to date, reads pools with the direct client, and     *)
(* writes with patches (no precondition) and status updates (refused when  *)
(* the object has changed since it was read: resourceVersion, rv).  Each   *)
(* call to the API server or to the router is a step of its own, so the    *)
(* environment, the watch stream and crashes interleave with a             *)
(* reconciliation.                                                         *)
(*                                                                         *)
(* Two things that the code does not rule out make the controller lose     *)
(* track of an address: it reads a copy of an object that its own last     *)
(* write to it has not reached yet, or a status update is applied although *)
(* it gets an error.  Both happen here; the history variable doubtful,     *)
(* which no step reads, collects the addresses they concern.               *)
(***************************************************************************)
EXTENDS IPAllocationExpectations, Integers, Sequences

CONSTANTS Pool,              \* pool names, as numbers in list order
          PoolSpecs,         \* the states of a pool: specifications, or NoSpec
          Request,           \* Spec of every allocation
          Hash,              \* sha256 of every allocation name
          TicksPerSecond,    \* resolution of a stored metav1.Time
          MaxClock, MaxOps, MaxFaults   \* bounds of a run

NoPool == 0       \* the empty Spec.PoolName
NoFamily == ""    \* the empty Spec.IPFamily
Family == {"IPv4", "IPv6"}

PoolSpec == [lo : IP, hi : IP, family : Family, autoAssign : BOOLEAN,
             advertise : BOOLEAN]

\* A pool that does not exist.
NoSpec == [lo |-> 1, hi |-> 0, family |-> NoFamily, autoAssign |-> FALSE,
           advertise |-> FALSE]

(***************************************************************************)
(* Spec of an IPAllocation.  An address outside IP \cup {NoIP} stands for  *)
(* a string netip.ParseAddr rejects.                                       *)
(***************************************************************************)
AllocationSpec == [address : Nat, pool : Pool \cup {NoPool},
                   family : Family \cup {NoFamily}]

ASSUME PoolAssumption == /\ Pool \subseteq Nat \ {0}
                         /\ PoolSpecs \subseteq PoolSpec \cup {NoSpec}
ASSUME RequestAssumption == Request \in [Alloc -> AllocationSpec]
ASSUME HashAssumption == Hash \in [Alloc -> Nat]
ASSUME ClockAssumption == TicksPerSecond \in Nat \ {0}
ASSUME BoundAssumption == {MaxClock, MaxOps, MaxFaults} \subseteq Nat

VARIABLES api,      \* the objects in the API server
          cache,    \* the informer cache
          events,   \* the watch stream: versions the cache has not seen yet
          queue,    \* the controller's work queue
          rec,      \* the reconciliation in flight
          pendingAllocations, pendingReleases,   \* the expectations
          adv,      \* the addresses the router advertises
          pools,    \* the IPPool objects
          clock,    \* the controller's clock
          doubtful, \* history: the addresses it may have lost track of
          ops, faults   \* operations and faults so far (bounds only)

expectations == <<pendingAllocations, pendingReleases>>
vars == <<api, cache, events, queue, rec, expectations, adv, pools, clock, doubtful,
          ops, faults>>

-----------------------------------------------------------------------------
(***************************************************************************)
(* Objects.  since is the time of the Allocated condition while it is      *)
(* True, reason the reason of the Ready condition.  Status.InterfaceName   *)
(* and the conditions' messages are left out.                              *)
(***************************************************************************)
Phase == {"", "Allocated", "Programmed", "Failed"}

AllocationFailure == {"AddressInvalid", "AddressAlreadyUsed", "AddressNotInPool",
                      "PoolNotFound", "PoolIPFamilyMismatch", "PoolExhausted"}
Failure == AllocationFailure \cup {"BackendError"}
Reason == Failure \cup {"", "AllocatedAndProgrammed", "AllocatedButNotAdvertised"}

Object == [live : BOOLEAN, deleting : BOOLEAN, fin : BOOLEAN, phase : Phase,
           addr : IP \cup {NoIP}, since : Nat, advertised : BOOLEAN,
           reason : Reason, rv : Nat]

Gone(rv) == [live |-> FALSE, deleting |-> FALSE, fin |-> FALSE,
             phase |-> "", addr |-> NoIP, since |-> NoTime,
             advertised |-> FALSE, reason |-> "", rv |-> rv]
Fresh(rv) == [Gone(rv) EXCEPT !.live = TRUE]

Event == [name : Alloc, obj : Object, own : BOOLEAN]

PC == {"idle", "cleanup", "unfinalize", "finalize", "decide", "program", "update"}

\* obj is the handler's copy of the object, ip and at its staged address and
\* time, advertise the pool's setting, dirty the code's needsUpdate.
Reconciliation == [pc : PC, name : Alloc \cup {NoAlloc}, obj : Object,
                   ip : IP \cup {NoIP}, at : Nat, advertise : BOOLEAN,
                   dirty : BOOLEAN]
Idle == [pc |-> "idle", name |-> NoAlloc, obj |-> Gone(0), ip |-> NoIP,
         at |-> NoTime, advertise |-> FALSE, dirty |-> FALSE]

TypeOK ==
  /\ api \in [Alloc -> Object] /\ cache \in [Alloc -> Object]
  /\ events \in Seq(Event)
  /\ queue \subseteq Alloc
  /\ rec \in Reconciliation
  /\ rec.pc # "idle" => rec.name \in Alloc
  /\ rec.pc \in {"cleanup", "program"} => rec.ip \in IP
  /\ pendingAllocations \in [IP -> Pending] /\ pendingReleases \in [IP -> Nat]
  /\ adv \subseteq IP /\ doubtful \subseteq IP
  /\ pools \in [Pool -> PoolSpecs]
  /\ clock \in Nat /\ ops \in Nat /\ faults \in Nat

Init ==
  /\ api = [a \in Alloc |-> Gone(0)] /\ cache = [a \in Alloc |-> Gone(0)]
  /\ events = << >>
  /\ queue = {}
  /\ rec = Idle
  /\ pendingAllocations = [ip \in IP |-> NoPending]
  /\ pendingReleases = [ip \in IP |-> NoTime]
  /\ adv = {} /\ doubtful = {}
  /\ pools \in [Pool -> PoolSpecs]
  /\ clock = 1 /\ ops = 0 /\ faults = 0

-----------------------------------------------------------------------------
(***************************************************************************)
(* The API server.  A write that changes something gives the object its    *)
(* next version and sends it down the watch stream.                        *)
(***************************************************************************)
Write(a, o, own) ==
  LET v == [o EXCEPT !.rv = api[a].rv + 1] IN
  /\ api' = [api EXCEPT ![a] = v]
  /\ events' = Append(events, [name |-> a, obj |-> v, own |-> own])

Put(a, o, own) ==
  IF o = api[a] THEN UNCHANGED <<api, events>> ELSE Write(a, o, own)

Operation == ops < MaxOps /\ ops' = ops + 1
Fault == faults < MaxFaults /\ faults' = faults + 1

(***************************************************************************)
(* The environment: users and the service controller create and delete     *)
(* allocations, the pool controller annotates them                         *)
(* (triggerIPAllocationUpdate), users edit pools.                          *)
(***************************************************************************)
controllerVars == <<cache, queue, rec, expectations, adv, clock, doubtful, faults>>

Create(a) ==
  /\ ~api[a].live
  /\ Operation
  /\ Write(a, Fresh(api[a].rv), FALSE)
  /\ UNCHANGED <<controllerVars, pools>>

Delete(a) ==
  /\ api[a].live /\ ~api[a].deleting
  /\ Operation
  /\ Write(a, IF api[a].fin THEN [api[a] EXCEPT !.deleting = TRUE]
              ELSE Gone(api[a].rv), FALSE)
  /\ UNCHANGED <<controllerVars, pools>>

Annotate(a) ==
  /\ api[a].live
  /\ Operation
  /\ Write(a, api[a], FALSE)
  /\ UNCHANGED <<controllerVars, pools>>

SetPool(p) ==
  /\ Operation
  /\ \E s \in PoolSpecs \ {pools[p]} : pools' = [pools EXCEPT ![p] = s]
  /\ UNCHANGED <<controllerVars, api, events>>

Tick ==
  /\ Operation
  /\ clock' = clock + 1
  /\ UNCHANGED <<api, cache, events, queue, rec, expectations, adv, pools, doubtful, faults>>

-----------------------------------------------------------------------------
\* The informer: the next version reaches the cache and its name the queue.
Deliver ==
  /\ events # << >>
  /\ cache' = [cache EXCEPT ![Head(events).name] = Head(events).obj]
  /\ queue' = queue \cup {Head(events).name}
  /\ events' = Tail(events)
  /\ UNCHANGED <<api, rec, expectations, adv, pools, clock, doubtful, ops, faults>>

(***************************************************************************)
(* A crash or a change of leader: the new process starts with a fresh list *)
(* in its cache, every object queued, and no expectations.                 *)
(***************************************************************************)
Crash ==
  /\ Fault
  /\ cache' = api /\ events' = << >>
  /\ queue' = {a \in Alloc : api[a].live}
  /\ rec' = Idle
  /\ pendingAllocations' = [ip \in IP |-> NoPending]
  /\ pendingReleases' = [ip \in IP |-> NoTime]
  /\ UNCHANGED <<api, adv, pools, clock, doubtful, ops>>

-----------------------------------------------------------------------------
(***************************************************************************)
(* The worker.  Return ends the handler; with an error the name goes back  *)
(* to the queue (the back-off is not modelled).                            *)
(***************************************************************************)
\* Mutant: an error is swallowed.
Return_NoRequeue(failed) == rec' = Idle /\ queue' = queue

Return(failed) ==
  /\ rec' = Idle
  /\ queue' = IF failed THEN queue \cup {rec.name} ELSE queue

OwnWriteInFlight(a) == \E i \in 1..Len(events) : events[i].name = a /\ events[i].own

\* Mutant: an address is cleaned up whatever the phase.
Branch_AnyPhase(o) ==
  CASE ~o.live \/ (o.deleting /\ ~o.fin) -> "idle"
    [] o.live /\ o.deleting /\ o.fin -> "cleanup"
    [] o.live /\ ~o.deleting /\ ~o.fin -> "finalize"
    [] o.live /\ ~o.deleting /\ o.fin -> "decide"

\* The branch the handler takes for the object it got from the cache.
Branch(o) ==
  CASE ~o.live \/ (o.deleting /\ ~o.fin) -> "idle"
    [] o.live /\ o.deleting /\ o.fin /\ Allocated(o) -> "cleanup"
    [] o.live /\ o.deleting /\ o.fin /\ ~Allocated(o) -> "unfinalize"
    [] o.live /\ ~o.deleting /\ ~o.fin -> "finalize"
    [] o.live /\ ~o.deleting /\ o.fin -> "decide"

(***************************************************************************)
(* Read from a copy that lacks an own write, a deletion withdraws the      *)
(* address of that copy, and an allocation is handled without its address. *)
(***************************************************************************)
Misread(a) ==
  {ip \in IP : /\ OwnWriteInFlight(a)
               /\ \/ Branch(cache[a]) = "cleanup" /\ ip = cache[a].addr
                  \/ Branch(cache[a]) = "decide" /\ ip = api[a].addr}

Start(a) ==
  /\ rec.pc = "idle"
  /\ a \in queue
  /\ queue' = queue \ {a}
  /\ rec' = IF Branch(cache[a]) = "idle" THEN Idle
            ELSE [Idle EXCEPT !.pc = Branch(cache[a]), !.name = a, !.obj = cache[a],
                              !.ip = IF Branch(cache[a]) = "cleanup"
                                     THEN cache[a].addr ELSE NoIP]
  /\ doubtful' = doubtful \cup Misread(a)
  /\ UNCHANGED <<api, cache, events, expectations, adv, pools, clock, ops, faults>>

(***************************************************************************)
(* Deletion: backend.DeleteIPAdvertisement and, when it succeeded,         *)
(* StageRelease.  A call that fails may have reached the router.           *)
(***************************************************************************)
CleanupAdvertisement ==
  /\ rec.pc = "cleanup"
  /\ \/ LET now == clock + 1 IN
        /\ now <= MaxClock
        /\ clock' = now
        /\ adv' = adv \ {rec.ip}
        /\ pendingReleases' = StageReleaseTimes(pendingAllocations, pendingReleases, rec.ip, now)
        /\ pendingAllocations' = StageReleasePending(pendingAllocations, rec.ip, now)
        /\ rec' = [rec EXCEPT !.pc = "unfinalize", !.at = now]
        /\ UNCHANGED <<queue, faults>>
     \/ /\ Fault
        /\ adv' \in {adv, adv \ {rec.ip}}
        /\ Return(TRUE)
        /\ UNCHANGED <<expectations, clock>>
  /\ UNCHANGED <<api, cache, events, pools, doubtful, ops>>

\* What the API server makes of a patch that removes the finalizer.
Unfinalized(o) == IF o.deleting THEN Gone(o.rv) ELSE [o EXCEPT !.fin = FALSE]

(***************************************************************************)
(* RemoveFinalizer: a merge patch by name, so it applies to whatever       *)
(* object now has the name.  On an error the release is unstaged.          *)
(***************************************************************************)
RemoveFinalizer ==
  /\ rec.pc = "unfinalize"
  /\ LET a == rec.name
         unstage == pendingReleases' = UnstageRelease(pendingReleases, rec.ip, rec.at) IN
     \/ /\ api[a].live
        /\ Put(a, Unfinalized(api[a]), TRUE)
        /\ Return(FALSE)
        /\ UNCHANGED <<pendingReleases, faults>>
     \/ /\ ~api[a].live
        /\ unstage /\ Return(TRUE)
        /\ UNCHANGED <<api, events, faults>>
     \/ /\ Fault
        /\ \/ UNCHANGED <<api, events>>
           \/ api[a].live /\ Put(a, Unfinalized(api[a]), TRUE)
        /\ unstage /\ Return(TRUE)
  /\ UNCHANGED <<cache, pendingAllocations, adv, pools, clock, doubtful, ops>>

\* AddFinalizer, a merge patch too; the handler returns in any case.
AddFinalizer ==
  /\ rec.pc = "finalize"
  /\ LET a == rec.name IN
     \/ /\ api[a].live
        /\ Put(a, [api[a] EXCEPT !.fin = TRUE], TRUE)
        /\ \/ Return(FALSE) /\ UNCHANGED faults
           \/ Fault /\ Return(TRUE)
     \/ /\ ~api[a].live
        /\ Return(TRUE)
        /\ UNCHANGED <<api, events, faults>>
     \/ /\ Fault
        /\ Return(TRUE)
        /\ UNCHANGED <<api, events>>
  /\ UNCHANGED <<cache, expectations, adv, pools, clock, doubtful, ops>>

-----------------------------------------------------------------------------
(***************************************************************************)
(* The choice of an address, from the cached allocations and the           *)
(* expectations as Confirm leaves them.                                    *)
(***************************************************************************)
ConfirmedAllocations == ConfirmAllocations(pendingAllocations, cache)
ConfirmedReleases == ConfirmReleases(pendingReleases, cache, clock)
Used(a) == Resolve(ConfirmedAllocations, ConfirmedReleases, cache, a)

PoolExists(p) == pools[p] # NoSpec

Matches(a, p) ==
  /\ PoolExists(p)
  /\ Request[a].pool \in {NoPool, p}
  /\ Request[a].family \in {NoFamily, pools[p].family}

PoolAddresses(p) == pools[p].lo .. pools[p].hi

\* The pools and addresses the handler would accept for allocation a.
Candidates(a) ==
  {c \in Pool \X IP :
     LET p == c[1]  ip == c[2] IN
     /\ Matches(a, p)
     /\ ip \in PoolAddresses(p) /\ ip \notin Used(a)
     /\ CanStage(ConfirmedAllocations, a, ip)
     /\ IF Request[a].address # NoIP THEN ip = Request[a].address
        ELSE Request[a].pool = NoPool => pools[p].autoAssign}

\* The position of ip in IPRange.Iter: from the hash offset, around the end.
Rank(a, p, ip) ==
  LET n == pools[p].hi - pools[p].lo + 1
  IN  ((ip - pools[p].lo) + n - (Hash[a] % n)) % n

Precedes(a, c, d) ==
  \/ c[1] < d[1]
  \/ c[1] = d[1] /\ Rank(a, c[1], c[2]) <= Rank(a, d[1], d[2])

\* Pools in list order, addresses in iteration order: the first candidate.
Choices(a) == {c \in Candidates(a) : \A d \in Candidates(a) : Precedes(a, c, d)}

DenyReason(a) ==
  LET r == Request[a] IN
  CASE r.address \notin IP \cup {NoIP} -> "AddressInvalid"
    [] r.address \in Used(a) -> "AddressAlreadyUsed"
    [] r.address \in IP \ Used(a) ->
         IF \E p \in Pool : Matches(a, p) /\ r.address \in PoolAddresses(p)
         THEN "AddressAlreadyUsed" ELSE "AddressNotInPool"
    [] r.address = NoIP /\ r.pool = NoPool -> "PoolExhausted"
    [] r.address = NoIP /\ r.pool # NoPool ->
         IF ~PoolExists(r.pool) THEN "PoolNotFound"
         ELSE IF r.family \notin {NoFamily, pools[r.pool].family}
              THEN "PoolIPFamilyMismatch" ELSE "PoolExhausted"

\* A time as it is stored in a condition: whole seconds.
Stored(t) == t - (t % TicksPerSecond)

(***************************************************************************)
(* The status after a successful and after a failed allocation.            *)
(* meta.SetStatusCondition keeps the time of a condition whose status does *)
(* not change.                                                             *)
(***************************************************************************)
GrantedStatus(o, ip, advertise, now) ==
  [o EXCEPT !.phase = "Allocated", !.addr = ip,
            !.advertised = IF o.phase # "Allocated" \/ o.addr # ip THEN advertise ELSE @,
            !.since = IF Allocated(o) THEN @ ELSE Stored(now)]

DeniedStatus(o, reason) ==
  [o EXCEPT !.phase = "Failed", !.addr = NoIP, !.since = NoTime,
            !.advertised = IF o.phase # "Failed" THEN FALSE ELSE @,
            !.reason = reason]

(***************************************************************************)
(* From the list of the pools to the new status: Confirm, Resolve, the     *)
(* choice, StageAllocation.  The direct list of the pools and the cached   *)
(* list of the allocations are one step: a change of a pool between them   *)
(* has the effect of one right after them.  The condition is stamped after *)
(* the address is staged, perhaps in a later tick (now).                   *)
(***************************************************************************)
Grant(p, ip, now) ==
  LET o == GrantedStatus(rec.obj, ip, pools[p].advertise, now) IN
  /\ now <= MaxClock
  /\ clock' = now
  /\ pendingAllocations' = StageAllocation(ConfirmedAllocations, rec.name, ip, clock + 1)
  /\ pendingReleases' = ClearRelease(ConfirmedReleases, ip)
  /\ rec' = [rec EXCEPT !.pc = "program", !.obj = o, !.ip = ip, !.at = clock + 1,
                        !.advertise = pools[p].advertise, !.dirty = o # rec.obj]
  /\ UNCHANGED <<queue, faults>>

Deny ==
  LET o == DeniedStatus(rec.obj, DenyReason(rec.name)) IN
  /\ rec' = [rec EXCEPT !.pc = "update", !.obj = o, !.dirty = o # rec.obj]
  /\ pendingAllocations' = ConfirmedAllocations
  /\ pendingReleases' = ConfirmedReleases
  /\ UNCHANGED <<queue, clock, faults>>

PoolListFails ==
  /\ Fault
  /\ Return(TRUE)
  /\ UNCHANGED <<expectations, clock>>

Decide ==
  /\ rec.pc = "decide"
  /\ \/ \E c \in Choices(rec.name), now \in {clock + 1, clock + 2} : Grant(c[1], c[2], now)
     \/ Candidates(rec.name) = {} /\ Deny
     \/ PoolListFails
  /\ UNCHANGED <<api, cache, events, adv, pools, doubtful, ops>>

(***************************************************************************)
(* EnsureIPAdvertisement, or DeleteIPAdvertisement (whose error is only    *)
(* reported) when the pool is not advertised.                              *)
(***************************************************************************)
Programmed(o) == [o EXCEPT !.phase = "Programmed", !.advertised = TRUE,
                           !.reason = "AllocatedAndProgrammed"]
NotAdvertised(o) == [o EXCEPT !.phase = "Allocated", !.reason = "AllocatedButNotAdvertised"]

\* Mutant: the router's error goes unnoticed.
ProgrammingFailed_Unnoticed(o) == Programmed(o)

ProgrammingFailed(o) == [o EXCEPT !.reason = "BackendError"]

Program ==
  /\ rec.pc = "program"
  /\ \/ /\ rec.advertise
        /\ adv' = adv \cup {rec.ip}
        /\ rec' = [rec EXCEPT !.pc = "update", !.obj = Programmed(@), !.dirty = TRUE]
        /\ UNCHANGED faults
     \/ /\ rec.advertise
        /\ Fault
        /\ adv' \in {adv, adv \cup {rec.ip}}
        /\ LET o == ProgrammingFailed(rec.obj) IN
           rec' = [rec EXCEPT !.pc = "update", !.obj = o, !.dirty = @ \/ o # rec.obj]
     \/ /\ ~rec.advertise
        /\ \/ adv' = adv \ {rec.ip} /\ UNCHANGED faults
           \/ Fault /\ adv' = adv
        /\ rec' = [rec EXCEPT !.pc = "update", !.obj = NotAdvertised(@), !.dirty = TRUE]
  /\ UNCHANGED <<api, cache, events, queue, expectations, pools, clock, doubtful, ops>>

(***************************************************************************)
(* Status().Update.  It is refused when the object is gone or has changed  *)
(* since it was read; after any error the staged address is unstaged.  The *)
(* handler also returns an error when the allocation or the programming    *)
(* failed.                                                                 *)
(***************************************************************************)
UpdateStatus ==
  /\ rec.pc = "update"
  /\ LET a == rec.name
         current == api[a].live /\ api[a].rv = rec.obj.rv
         unstage == pendingAllocations' =
                      IF rec.ip = NoIP THEN pendingAllocations
                      ELSE UnstageAllocation(pendingAllocations, a, rec.ip, rec.at) IN
     \/ /\ ~rec.dirty
        /\ Return(rec.obj.reason \in Failure)
        /\ UNCHANGED <<api, events, pendingAllocations, doubtful, faults>>
     \/ /\ rec.dirty /\ current
        /\ Put(a, rec.obj, TRUE)
        /\ Return(rec.obj.reason \in Failure)
        /\ UNCHANGED <<pendingAllocations, doubtful, faults>>
     \/ /\ rec.dirty /\ ~current
        /\ unstage /\ Return(TRUE)
        /\ UNCHANGED <<api, events, doubtful, faults>>
     \/ /\ rec.dirty /\ Fault
        /\ \/ UNCHANGED <<api, events, doubtful>>
           \/ /\ current /\ Put(a, rec.obj, TRUE)
              /\ doubtful' = doubtful \cup ({rec.ip} \cap IP)
        /\ unstage /\ Return(TRUE)
  /\ UNCHANGED <<cache, pendingReleases, adv, pools, clock, ops>>

-----------------------------------------------------------------------------
Worker == \/ CleanupAdvertisement \/ RemoveFinalizer \/ AddFinalizer
          \/ Decide \/ Program \/ UpdateStatus

Next ==
  \/ \E a \in Alloc : Create(a) \/ Delete(a) \/ Annotate(a) \/ Start(a)
  \/ \E p \in Pool : SetPool(p)
  \/ Worker
  \/ Tick \/ Deliver \/ Crash

Spec == Init /\ [][Next]_vars

(***************************************************************************)
(* The worker's goroutine runs and its calls return; the watch stream      *)
(* delivers; the work queue is first in, first out, so a queued name is    *)
(* not passed over for ever even while other names keep failing.           *)
(***************************************************************************)
Fairness == /\ WF_vars(Worker)
            /\ WF_vars(Deliver)
            /\ \A a \in Alloc : SF_vars(Start(a))

FairSpec == Spec /\ Fairness

-----------------------------------------------------------------------------
Holds(a, ip) == Allocated(api[a]) /\ api[a].addr = ip

\* The addresses the controller has never lost track of.
Known == IP \ doubtful

(***************************************************************************)
(* No two allocations hold the same address in the API server, whatever    *)
(* the lag of the cache from which addresses are chosen: the purpose of    *)
(* IPAllocationExpectations.  A failed status update that was applied, or  *)
(* a copy read before an own write has arrived, may spoil the address it   *)
(* is about, and no other.                                                 *)
(***************************************************************************)
UniqueAddress ==
  \A ip \in Known : \A a, b \in Alloc : Holds(a, ip) /\ Holds(b, ip) => a = b

\* The controller still has a reason to look at the object.
Busy(a) == \/ a \in queue
           \/ rec.name = a
           \/ \E i \in 1..Len(events) : events[i].name = a

(***************************************************************************)
(* An allocation that is reported as Programmed and is left alone by the   *)
(* controller really is advertised by the router: the steps that withdraw  *)
(* an advertisement never hit an address that someone else has been given, *)
(* unless the controller had lost track of that address before.            *)
(***************************************************************************)
ProgrammedIsAdvertised ==
  \A a \in Alloc :
    api[a].live /\ ~api[a].deleting /\ api[a].phase = "Programmed" /\ ~Busy(a)
      => api[a].addr \in adv \cup doubtful

Ready(o) == o.reason \in {"AllocatedAndProgrammed", "AllocatedButNotAdvertised"}

(***************************************************************************)
(* The controller never loses sight of an unfinished allocation: one that  *)
(* is being deleted, has no finalizer yet, or has not become ready, is     *)
(* queued, being reconciled or in the watch stream, through every error    *)
(* return, conflict and crash.                                             *)
(***************************************************************************)
NeverForgotten ==
  \A a \in Alloc :
    api[a].live /\ (api[a].deleting \/ ~api[a].fin \/ ~Ready(api[a])) => Busy(a)

(***************************************************************************)
(* The liveness properties are about the behaviours in which the bound on  *)
(* the clock never holds the controller up.                                *)
(***************************************************************************)
WithinClock == [](clock + 2 <= MaxClock)

(***************************************************************************)
(* A deleted allocation goes away: the finalizer added by the handler is   *)
(* also removed by it, through conflicts, failing calls and crashes.       *)
(***************************************************************************)
DeletionCompletes ==
  WithinClock => \A a \in Alloc : api[a].deleting ~> ~api[a].deleting

(***************************************************************************)
(* An address that an allocation no longer has, because it moved, failed   *)
(* or was deleted, is no longer advertised: the withdrawal comes before    *)
(* the status forgets the address.                                         *)
(***************************************************************************)
WithdrawnBeforeForgotten ==
  [][\A a \in Alloc, ip \in IP : Holds(a, ip) /\ ~Holds(a, ip)' => ip \notin adv']_vars

=============================================================================
