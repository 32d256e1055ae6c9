--------------------------- MODULE ServiceController ---------------------------
(***************************************************************************)
(* ServiceReconciler (internal/controller/service_reconciler.go): one      *)
(* worker turns Services into IPAllocations, and the addresses these are   *)
(* granted into the ingress of the Service and the rules of the router.    *)
(*                                                                         *)
(* A step of the worker is one call that changes something, with the reads *)
(* before it; the loops over allocations are one step each, because their  *)
(* calls are about different objects and nothing between them is read      *)
(* again.  The informer caches deliver the versions of a Service one by    *)
(* one, those of an allocation or of the endpoints may be skipped.  Any    *)
(* call may fail, and a patch may be applied although it seems to fail.    *)
(*                                                                         *)
(* The allocation controller appears with what AddressLedger says of it:   *)
(* an address has one holder at a time.  The router appears with what      *)
(* RouterOSBackend shows of EnsureService and DeleteService.               *)
(***************************************************************************)
EXTENDS Naturals, Sequences, FiniteSets

CONSTANTS Svc, Address, Pool,
          FamilyOf, PoolOf,   \* the family and the pool of every address
          Configs,            \* specs of a Service with its annotations
          Targets,            \* contents of a Service's EndpointSlices
          MaxOps, MaxFaults, MaxEvents   \* bounds of a run: each kind, and together

Family == {"ipv4", "ipv6"}

(***************************************************************************)
(* What the reconciler reads of a Service: lb and snat - isLBConfigured    *)
(* and isSNATConfigured; auto - neither the pool nor the address           *)
(* annotation is set; pools, ips, snatIPs - the valid entries of the       *)
(* annotations; useLB - the SNAT annotation says use-lb-ips; families -    *)
(* Spec.IPFamilies.  The two annotations that switch load balancing and    *)
(* SNAT off only set LBEnabled and SNATEnabled, which nobody reads.        *)
(***************************************************************************)
Config == [lb : BOOLEAN, snat : BOOLEAN, auto : BOOLEAN, useLB : BOOLEAN,
           pools : SUBSET Pool, ips : SUBSET Address, snatIPs : SUBSET Address,
           families : SUBSET Family]

ASSUME ServiceConfigAssumption ==
  /\ Configs \subseteq Config
  /\ \A c \in Configs : c.useLB => c.snatIPs = {}
ASSUME ServiceAddressAssumption ==
  /\ Address \subseteq Nat \ {0}   \* in the order of netip.Addr.Compare
  /\ FamilyOf \in [Address -> Family] /\ PoolOf \in [Address -> Pool]
ASSUME ServiceTargetAssumption == Targets # {}
ASSUME ServiceBoundAssumption == {MaxOps, MaxFaults, MaxEvents} \subseteq Nat

\* The spec of an IPAllocation, from which its name is derived.
Request == ({"pool"} \X Pool) \cup ({"address"} \X Address) \cup ({"family"} \X Family)

NoAddr == 0
NoTarget == "none"

VARIABLES svc, cache,   \* the Services, and the cache of them
          log,          \* the versions on their way to the cache
          alloc,        \* the IPAllocations of a service, by request
          cachedAllocs, allocNews,   \* those the cache has, and changes on their way
          eps, cachedEps,   \* the endpoints of a service, and the cache of them
          router,       \* the rules of a service on the router
          queue,        \* the work queue
          rec,          \* the reconciliation that runs
          slipped,      \* services whose last reconciliation only logged an error
          early,        \* services once reconciled before the caches showed what this
                        \* controller had written about them
          ops, faults   \* (bounds only)

informers == <<cache, log, cachedAllocs, allocNews, cachedEps>>
vars == <<svc, alloc, eps, informers, router, queue, rec, slipped, early, ops, faults>>

Object == [live : BOOLEAN, deleting : BOOLEAN, fin : BOOLEAN, cfg : Configs, ingress : SUBSET Address]
Missing == [live |-> FALSE, granted |-> NoAddr, deleting |-> FALSE]
Allocation == [live : BOOLEAN, granted : Address \cup {NoAddr}, deleting : BOOLEAN]
Rules == [lb : SUBSET Address, snat : SUBSET Address, to : Targets \cup {NoTarget}]
NoRules == [lb |-> {}, snat |-> {}, to |-> NoTarget]

\* A version of a Service on its way to the cache; own - by this controller.
Version == [obj : Object, own : BOOLEAN]

Phases == {"finalize", "cleanRouter", "cleanAllocs", "unfinalize", "clearIngress",
           "allocs", "status", "ensure"}

\* obj - the cached copy of the Service; same - nobody else has written the
\* Service since the last patch; list - the allocations that cleanupService
\* listed; addrs - the addresses found in the allocations.
Reconciliation == [phase : Phases, svc : Svc, obj : Object, same : BOOLEAN,
                   addrs : SUBSET Address, list : SUBSET Request]
NoRec == [phase |-> "idle"]

TypeOK ==
  /\ svc \in [Svc -> Object] /\ cache \in [Svc -> Object]
  /\ log \in [Svc -> Seq(Version)]
  /\ alloc \in [Svc \X Request -> Allocation]
  /\ cachedAllocs \subseteq Svc \X Request /\ allocNews \subseteq Svc \X Request
  /\ eps \in [Svc -> Targets] /\ cachedEps \in [Svc -> Targets]
  /\ router \in [Svc -> Rules]
  /\ queue \subseteq Svc /\ slipped \subseteq Svc /\ early \subseteq Svc
  /\ rec \in Reconciliation \cup {NoRec}
  /\ ops \in Nat /\ faults \in Nat

Init ==
  /\ \E c \in [Svc -> Configs] :
       svc = [s \in Svc |-> [live |-> TRUE, deleting |-> FALSE, fin |-> FALSE,
                             cfg |-> c[s], ingress |-> {}]]
  /\ cache = svc /\ log = [s \in Svc |-> << >>]
  /\ alloc = [n \in Svc \X Request |-> Missing]
  /\ cachedAllocs = {} /\ allocNews = {}
  /\ eps = [s \in Svc |-> CHOOSE t \in Targets : TRUE] /\ cachedEps = eps
  /\ router = [s \in Svc |-> NoRules]
  /\ queue = Svc /\ rec = NoRec /\ slipped = {} /\ early = {}
  /\ ops = 0 /\ faults = 0

Operation == ops < MaxOps /\ ops + faults < MaxEvents /\ ops' = ops + 1
Fault == faults < MaxFaults /\ ops + faults < MaxEvents /\ faults' = faults + 1

-----------------------------------------------------------------------------
(***************************************************************************)
(* The API server.  A write that changes nothing makes no new version.     *)
(***************************************************************************)
Exists(n) == alloc[n].live
Removed(o) == [o EXCEPT !.live = FALSE, !.deleting = FALSE, !.fin = FALSE, !.ingress = {}]

\* Service s becomes o; own - by a call of this controller.
Store(s, o, own) ==
  /\ svc' = [svc EXCEPT ![s] = o]
  /\ log' = IF o = svc[s] THEN log
            ELSE [log EXCEPT ![s] = Append(@, [obj |-> o, own |-> own])]

(***************************************************************************)
(* Others: the user edits or deletes a Service; its endpoints change; the  *)
(* allocation controller grants, withdraws (a pool that shrank) and        *)
(* releases addresses.                                                     *)
(***************************************************************************)
Disturbed(s) == IF rec # NoRec /\ rec.svc = s THEN [rec EXCEPT !.same = FALSE] ELSE rec

EditService(s) ==
  /\ svc[s].live /\ ~svc[s].deleting /\ Operation
  /\ \E c \in Configs \ {svc[s].cfg} : Store(s, [svc[s] EXCEPT !.cfg = c], FALSE)
  /\ rec' = Disturbed(s)
  /\ UNCHANGED <<alloc, eps, cache, cachedAllocs, allocNews, cachedEps, router, queue, slipped, early, faults>>

DeleteService(s) ==
  /\ svc[s].live /\ ~svc[s].deleting /\ Operation
  /\ Store(s, IF svc[s].fin THEN [svc[s] EXCEPT !.deleting = TRUE] ELSE Removed(svc[s]), FALSE)
  /\ rec' = Disturbed(s)
  /\ UNCHANGED <<alloc, eps, cache, cachedAllocs, allocNews, cachedEps, router, queue, slipped, early, faults>>

EditEndpoints(s) ==
  /\ Operation
  /\ \E t \in Targets \ {eps[s]} : eps' = [eps EXCEPT ![s] = t]
  /\ UNCHANGED <<svc, alloc, informers, router, queue, rec, slipped, early, faults>>

ChangeAlloc(n, a) ==
  /\ alloc' = [alloc EXCEPT ![n] = a]
  /\ allocNews' = allocNews \cup {n}
  /\ UNCHANGED <<svc, eps, cache, log, cachedAllocs, cachedEps, router, queue, rec, slipped, early, faults>>

Serves(q) == {a \in Address : \/ q = <<"address", a>> \/ q = <<"pool", PoolOf[a]>>
                              \/ q = <<"family", FamilyOf[a]>>}

Grant(n) ==
  /\ Exists(n) /\ ~alloc[n].deleting /\ alloc[n].granted = NoAddr
  /\ \E a \in Serves(n[2]) :
       /\ \A o \in Svc \X Request : alloc[o].granted # a
       /\ ChangeAlloc(n, [alloc[n] EXCEPT !.granted = a])
  /\ UNCHANGED ops

Withdraw(n) ==
  /\ alloc[n].granted # NoAddr /\ ~alloc[n].deleting
  /\ Operation
  /\ ChangeAlloc(n, [alloc[n] EXCEPT !.granted = NoAddr])

Release(n) ==
  /\ alloc[n].deleting
  /\ ChangeAlloc(n, Missing)
  /\ UNCHANGED ops

-----------------------------------------------------------------------------
(***************************************************************************)
(* The watches of AttachServiceController: what reaches a cache brings the *)
(* Service into the queue.                                                 *)
(***************************************************************************)
SeeService(s) ==
  /\ log[s] # << >>
  /\ cache' = [cache EXCEPT ![s] = Head(log[s]).obj]
  /\ log' = [log EXCEPT ![s] = Tail(@)]
  /\ queue' = queue \cup {s}
  /\ UNCHANGED <<svc, alloc, eps, cachedAllocs, allocNews, cachedEps, router, rec, slipped, early, ops, faults>>

\* Mutant: a deleted allocation does not bring its service back.
WatchAllocs_Live(s) ==
  IF \E n \in allocNews : n[1] = s /\ Exists(n) THEN queue \cup {s} ELSE queue

WatchAllocs(s) == queue \cup {s}

SeeAllocs(s) ==
  /\ \E n \in allocNews : n[1] = s
  /\ allocNews' = {n \in allocNews : n[1] # s}
  /\ cachedAllocs' = {n \in Svc \X Request : IF n[1] = s THEN Exists(n) ELSE n \in cachedAllocs}
  /\ queue' = WatchAllocs(s)
  /\ UNCHANGED <<svc, alloc, eps, cache, log, cachedEps, router, rec, slipped, early, ops, faults>>

SeeEndpoints(s) ==
  /\ cachedEps[s] # eps[s]
  /\ cachedEps' = [cachedEps EXCEPT ![s] = eps[s]]
  /\ queue' = queue \cup {s}
  /\ UNCHANGED <<svc, alloc, eps, cache, log, cachedAllocs, allocNews, router, rec, slipped, early, ops, faults>>

-----------------------------------------------------------------------------
(***************************************************************************)
(* What a configuration asks for, and what the granted addresses are for.  *)
(***************************************************************************)
Managed(c) == c.lb \/ c.snat

\* allocsExpected; allocations of one name are one request.
Requested(c) ==
  (IF c.lb THEN ({"pool"} \X c.pools) \cup ({"address"} \X c.ips)
                 \cup (IF c.auto THEN {"family"} \X c.families ELSE {})
   ELSE {})
  \cup (IF c.snat THEN {"address"} \X c.snatIPs ELSE {})

LBConfigured(c) == IF c.lb THEN c.ips ELSE {}
SNATConfigured(c) == IF c.snat THEN c.snatIPs ELSE {}

IsLBIP(c, a) == a \in LBConfigured(c) \/ a \notin SNATConfigured(c)
LBIPs(c, addrs) == {a \in addrs : IsLBIP(c, a) /\ FamilyOf[a] \in c.families}

\* isLBIP without its family goes on to the next address, so SNAT does not get it either.
ForSNAT(c, addrs) ==
  {a \in addrs : /\ IsLBIP(c, a) => FamilyOf[a] \in c.families
                 /\ a \in SNATConfigured(c) \/ (c.lb /\ c.snat /\ c.useLB /\ IsLBIP(c, a))}

\* SNATIPv4 and SNATIPv6: the greatest address of the family.
SNATIPs(c, addrs) ==
  {a \in ForSNAT(c, addrs) :
     \A b \in ForSNAT(c, addrs) : FamilyOf[b] = FamilyOf[a] => b <= a}

RulesFor(c, addrs, t) == [lb |-> LBIPs(c, addrs), snat |-> SNATIPs(c, addrs), to |-> t]

\* Mutant: allocations without an address are not skipped.
Granted_All(s, qs) == {alloc[<<s, q>>].granted : q \in qs}

Granted(s, qs) == {alloc[<<s, q>>].granted : q \in qs} \ {NoAddr}

-----------------------------------------------------------------------------
(***************************************************************************)
(* Reconcile.                                                              *)
(***************************************************************************)
\* Reconcile returns an error, and its request comes back.
Failed == rec' = NoRec /\ queue' = queue \cup {rec.svc}
Done == rec' = NoRec /\ UNCHANGED queue
Proceed(phase) == rec' = [rec EXCEPT !.phase = phase, !.same = TRUE] /\ UNCHANGED queue

\* The caches show everything this controller has written about service s.
OwnWritesSeen(s) ==
  /\ \A k \in 1..Len(log[s]) : ~log[s][k].own
  /\ \A n \in allocNews : n[1] = s /\ Exists(n) => n \in cachedAllocs

\* Mutant: the main part does not wait for the finalizer.
Branch_NoFinalizer(o) ==
  IF ~o.live THEN "idle"
  ELSE IF ~Managed(o.cfg) \/ o.deleting THEN (IF o.fin THEN "cleanRouter" ELSE "idle")
  ELSE "allocs"

\* Where a reconciliation of the cached copy o goes ("idle": it returns).
Branch(o) ==
  IF ~o.live THEN "idle"
  ELSE IF ~Managed(o.cfg) \/ o.deleting THEN (IF o.fin THEN "cleanRouter" ELSE "idle")
  ELSE IF ~o.fin THEN "finalize" ELSE "allocs"

\* The reconciliation of o, with the cached list of cleanupService.
Reconciling(s, o) ==
  IF Branch(o) = "idle" THEN NoRec
  ELSE [phase |-> Branch(o), svc |-> s, obj |-> o, same |-> TRUE, addrs |-> {},
        list |-> {q \in Request : Branch(o) = "cleanRouter" /\ <<s, q>> \in cachedAllocs}]

\* Mutant: a Service that is not found is an error.
Start_MissingFails(s) ==
  /\ rec = NoRec /\ s \in queue
  /\ early' = IF OwnWritesSeen(s) THEN early ELSE early \cup {s}
  /\ queue' = IF cache[s].live THEN queue \ {s} ELSE queue
  /\ rec' = Reconciling(s, cache[s])
  /\ UNCHANGED <<svc, alloc, eps, informers, router, slipped, ops, faults>>

Start(s) ==
  /\ rec = NoRec /\ s \in queue
  /\ early' = IF OwnWritesSeen(s) THEN early ELSE early \cup {s}
  /\ queue' = queue \ {s}
  /\ rec' = Reconciling(s, cache[s])
  /\ UNCHANGED <<svc, alloc, eps, informers, router, slipped, ops, faults>>

(***************************************************************************)
(* A patch of the Service from its cached copy: refused when the Service   *)
(* is gone; a fault hides whether it was applied.  It ends the             *)
(* reconciliation (phase "idle") or leads to another phase.                *)
(***************************************************************************)
PatchTo(o, phase) ==
  \/ /\ svc[rec.svc].live
     /\ Store(rec.svc, o, TRUE)
     /\ IF phase = "idle" THEN Done ELSE Proceed(phase)
     /\ UNCHANGED faults
  \/ /\ ~svc[rec.svc].live
     /\ Failed
     /\ UNCHANGED <<svc, log, faults>>
  \/ /\ Fault /\ Failed
     /\ \/ svc[rec.svc].live /\ Store(rec.svc, o, TRUE)
        \/ UNCHANGED <<svc, log>>

Finalize ==
  /\ rec.phase = "finalize"
  /\ PatchTo([svc[rec.svc] EXCEPT !.fin = TRUE], "idle")
  /\ UNCHANGED <<alloc, eps, cache, cachedAllocs, allocNews, cachedEps, router, slipped, early, ops>>

(***************************************************************************)
(* cleanupService: the router first, then the allocations the cache knows  *)
(* of (one that is gone is an error); then the finalizer is removed and,   *)
(* unless the Service goes away, its ingress cleared.                      *)
(***************************************************************************)
CleanRouter ==
  /\ rec.phase = "cleanRouter"
  /\ \/ /\ router' = [router EXCEPT ![rec.svc] = NoRules]
        /\ Proceed("cleanAllocs")
        /\ UNCHANGED faults
     \/ /\ Fault /\ Failed
        /\ \E rules \in {NoRules, [NoRules EXCEPT !.snat = router[rec.svc].snat], router[rec.svc]} :
             router' = [router EXCEPT ![rec.svc] = rules]
  /\ UNCHANGED <<svc, alloc, eps, informers, slipped, early, ops>>

\* The allocations of service s for requests qs are marked for deletion.
Deleted(s, qs) ==
  [n \in Svc \X Request |->
     IF n[1] = s /\ n[2] \in qs /\ Exists(n) THEN [alloc[n] EXCEPT !.deleting = TRUE] ELSE alloc[n]]

CleanAllocs ==
  /\ rec.phase = "cleanAllocs"
  /\ \E failing \in SUBSET rec.list :
       /\ alloc' = Deleted(rec.svc, rec.list \ failing)
       /\ IF failing = {} THEN UNCHANGED faults ELSE Fault
       /\ IF failing = {} /\ \A q \in rec.list : Exists(<<rec.svc, q>>)
          THEN Proceed("unfinalize") ELSE Failed
  /\ allocNews' = allocNews \cup {n \in Svc \X Request : alloc'[n] # alloc[n]}
  /\ UNCHANGED <<svc, eps, cache, log, cachedAllocs, cachedEps, router, slipped, early, ops>>

\* Mutant: the finalizer of a Service that is being deleted stays.
Unfinalized_Kept(o) == IF o.deleting THEN o ELSE [o EXCEPT !.fin = FALSE]

Unfinalized(o) == IF o.deleting THEN Removed(o) ELSE [o EXCEPT !.fin = FALSE]

RemoveFinalizer ==
  /\ rec.phase = "unfinalize"
  /\ PatchTo(Unfinalized(svc[rec.svc]), IF rec.obj.deleting THEN "idle" ELSE "clearIngress")
  /\ UNCHANGED <<alloc, eps, cache, cachedAllocs, allocNews, cachedEps, router, slipped, early, ops>>

(***************************************************************************)
(* The second patch carries the resourceVersion of the first one's answer, *)
(* and the ingress only when the cached copy had one.                      *)
(***************************************************************************)
ClearIngress ==
  /\ rec.phase = "clearIngress"
  /\ IF rec.same
     THEN PatchTo(IF rec.obj.ingress = {} THEN svc[rec.svc]
                  ELSE [svc[rec.svc] EXCEPT !.ingress = {}], "idle")
     ELSE Failed /\ UNCHANGED <<svc, log, faults>>
  /\ UNCHANGED <<alloc, eps, cache, cachedAllocs, allocNews, cachedEps, router, slipped, early, ops>>

(***************************************************************************)
(* The allocations: List (not from the cache), delete what is not expected *)
(* and create what is missing.  Errors are only logged.                    *)
(***************************************************************************)
SyncAllocs ==
  /\ rec.phase = "allocs"
  /\ LET s == rec.svc
         expected == Requested(rec.obj.cfg)
         found == {q \in Request : Exists(<<s, q>>)} IN
     /\ \E failing \in SUBSET ((found \ expected) \cup (expected \ found)) :
          /\ alloc' = [n \in Svc \X Request |->
                         IF n[1] = s /\ n[2] \in (expected \ found) \ failing
                         THEN [Missing EXCEPT !.live = TRUE]
                         ELSE Deleted(s, (found \ expected) \ failing)[n]]
          /\ IF failing = {} THEN UNCHANGED faults ELSE Fault
          /\ slipped' = IF failing = {} THEN slipped \ {s} ELSE slipped \cup {s}
     /\ rec' = [rec EXCEPT !.phase = "status", !.addrs = Granted(s, found \cap expected)]
  /\ allocNews' = allocNews \cup {n \in Svc \X Request : alloc'[n] # alloc[n]}
  /\ UNCHANGED <<svc, eps, cache, log, cachedAllocs, cachedEps, router, queue, early, ops>>

\* The List fails.
ListFails ==
  /\ rec.phase = "allocs"
  /\ Fault /\ Failed
  /\ UNCHANGED <<svc, alloc, eps, informers, router, slipped, early, ops>>

\* Mutant: the ingress lists the SNAT addresses, too.
IngressFor_All(c, addrs) == addrs

IngressFor(c, addrs) == LBIPs(c, addrs)

\* The status patch is the difference to the cached copy.
PatchStatus ==
  /\ rec.phase = "status"
  /\ LET ingress == IngressFor(rec.obj.cfg, rec.addrs) IN
     PatchTo(IF ingress = rec.obj.ingress THEN svc[rec.svc]
             ELSE [svc[rec.svc] EXCEPT !.ingress = ingress], "ensure")
  /\ UNCHANGED <<alloc, eps, cache, cachedAllocs, allocNews, cachedEps, router, slipped, early, ops>>

EnsureService ==
  /\ rec.phase = "ensure"
  /\ LET s == rec.svc
         old == router[s]
         new == RulesFor(rec.obj.cfg, rec.addrs, cachedEps[s]) IN
     \/ /\ router' = [router EXCEPT ![s] = new]
        /\ Done
        /\ UNCHANGED faults
     \/ /\ Fault /\ Failed
        /\ \E lb \in {old.lb, new.lb, old.lb \cap new.lb}, snat \in {old.snat, {}, new.snat},
              to \in {old.to, new.to} :
             router' = [router EXCEPT ![s] = [lb |-> lb, snat |-> snat, to |-> to]]
  /\ UNCHANGED <<svc, alloc, eps, informers, slipped, early, ops>>

\* The process ends; the next one lists everything anew.
Crash ==
  /\ rec # NoRec /\ Fault
  /\ rec' = NoRec /\ queue' = Svc
  /\ cache' = svc /\ log' = [s \in Svc |-> << >>]
  /\ cachedAllocs' = {n \in Svc \X Request : Exists(n)} /\ allocNews' = {}
  /\ cachedEps' = eps
  /\ UNCHANGED <<svc, alloc, eps, router, slipped, early, ops>>

-----------------------------------------------------------------------------
Reconcile ==
  \/ Finalize
  \/ CleanRouter \/ CleanAllocs \/ RemoveFinalizer \/ ClearIngress
  \/ SyncAllocs \/ ListFails \/ PatchStatus \/ EnsureService

Users == \E s \in Svc : EditService(s) \/ DeleteService(s) \/ EditEndpoints(s)

Watches == \E s \in Svc : SeeService(s) \/ SeeAllocs(s) \/ SeeEndpoints(s)

AllocationController == \E n \in Svc \X Request : Grant(n) \/ Withdraw(n) \/ Release(n)

Next ==
  \/ Users \/ Watches \/ AllocationController
  \/ \E s \in Svc : Start(s)
  \/ Reconcile \/ Crash

Spec == Init /\ [][Next]_vars

(***************************************************************************)
(* The worker goes on, the queue serves every request in it, the watches   *)
(* deliver, and deleted allocations are released (DeletionCompletes of     *)
(* IPAllocationController).                                                *)
(***************************************************************************)
FairSpec ==
  /\ Spec
  /\ WF_vars(Reconcile) /\ WF_vars(Watches)
  /\ \A s \in Svc : SF_vars(Start(s))
  /\ WF_vars(\E n \in Svc \X Request : Release(n))

-----------------------------------------------------------------------------
\* Service s has a reconciliation ahead of it, or an event that leads to one.
Ahead(s) ==
  \/ s \in queue
  \/ rec # NoRec /\ rec.svc = s
  \/ log[s] # << >> \/ cachedEps[s] # eps[s]
  \/ \E n \in allocNews : n[1] = s

(***************************************************************************)
(* When nothing is ahead of a managed Service, it has exactly the expected *)
(* allocations, its ingress lists their load balancer addresses, and the   *)
(* router has the rules for these addresses and the current endpoints:     *)
(* no order of edits, grants, stale caches, failures and crashes leaves it *)
(* with less or more.  Services for which the failure of a create or       *)
(* delete was only logged in the last reconciliation are left out.         *)
(***************************************************************************)
QuietIsExact ==
  \A s \in Svc :
    LET o == svc[s]
        addrs == Granted(s, Requested(o.cfg)) IN
    ~Ahead(s) /\ s \notin slipped /\ o.live /\ ~o.deleting /\ Managed(o.cfg) =>
      /\ \A q \in Requested(o.cfg) : Exists(<<s, q>>)
      /\ \A q \in Request \ Requested(o.cfg) : Exists(<<s, q>>) => alloc[<<s, q>>].deleting
      /\ o.ingress = LBIPs(o.cfg, addrs)
      /\ router[s] = RulesFor(o.cfg, addrs, eps[s])

(***************************************************************************)
(* When nothing is ahead of a Service that is gone or no longer managed,   *)
(* the router has no rules for it and its allocations are gone or on their *)
(* way out; and a deleted Service always has something ahead of it.  This  *)
(* needs caches that show the controller's own writes: cleanupService      *)
(* misses an allocation that it created and that the cache does not list.  *)
(***************************************************************************)
NothingLeftBehind ==
  \A s \in Svc \ early :
    ~Ahead(s) =>
      /\ ~svc[s].deleting
      /\ ~svc[s].live \/ ~Managed(svc[s].cfg) =>
           /\ ~svc[s].fin /\ router[s] = NoRules
           /\ \A q \in Request : Exists(<<s, q>>) => alloc[<<s, q>>].deleting

(***************************************************************************)
(* An address may be granted to another service while the router still     *)
(* forwards it to the old one; but then the old service has the            *)
(* reconciliation ahead of it that removes the rule.  A service for which  *)
(* the rules were written after its finalizer was gone (early) may be left *)
(* with them: its reconciliations return at once.                          *)
(***************************************************************************)
StrayRouteIsBusy ==
  \A s \in Svc \ early : \A a \in router[s].lb \cup router[s].snat :
    (\E q \in Request : alloc[<<s, q>>].granted = a) \/ Ahead(s)

(***************************************************************************)
(* "We need this to guarantee that we get a chance to clean up RouterOS    *)
(* resources when the service is deleted": whatever exists for a Service,  *)
(* on the router or as an allocation, is guarded by its finalizer - unless *)
(* a cache that lags behind showed a finalizer already removed.            *)
(***************************************************************************)
GuardedByFinalizer ==
  \A s \in Svc \ early :
    \/ svc[s].live /\ svc[s].fin
    \/ /\ router[s] = NoRules
       /\ \A q \in Request : Exists(<<s, q>>) => alloc[<<s, q>>].deleting

(***************************************************************************)
(* The reconciliations do not keep each other busy: once users, pools and  *)
(* faults leave a Service alone, nothing is ahead of it any more, so the   *)
(* above holds of it for good and a deleted one goes away.                 *)
(***************************************************************************)
ComesToRest == <>[](\A s \in Svc : ~Ahead(s))

=============================================================================
