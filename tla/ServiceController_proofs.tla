------------------------ MODULE ServiceController_proofs ------------------------
(***************************************************************************)
(* Type correctness of the Service controller, and its four safety         *)
(* properties: GuardedByFinalizer, NothingLeftBehind, StrayRouteIsBusy and *)
(* QuietIsExact.                                                           *)
(*                                                                         *)
(* The inductive invariant (ServiceInv) has three layers.  The caches: the *)
(* stream of a Service ends in its current version, and only the           *)
(* controller's own patches take a finalizer away.  The reconciliation in  *)
(* flight: what it has read is current, or its Service is looked at again. *)
(* What is left when nothing is ahead of a Service: exactly what its spec  *)
(* asks for.                                                               *)
(***************************************************************************)
EXTENDS ServiceController, TLAPS

\* The parts of the state that an action changes.
LEMMA RecTypes ==
  ASSUME TypeOK, rec.phase # "idle"
  PROVE  /\ rec # NoRec /\ rec \in Reconciliation
         /\ rec.phase \in Phases /\ rec.svc \in Svc /\ rec.obj \in Object /\ rec.same \in BOOLEAN
         /\ rec.addrs \subseteq Address /\ rec.list \subseteq Request
  BY DEF TypeOK, NoRec, Reconciliation

LEMMA BusyTypes ==
  ASSUME TypeOK, rec # NoRec
  PROVE  /\ rec \in Reconciliation /\ rec.phase # "idle"
         /\ rec.phase \in Phases /\ rec.svc \in Svc /\ rec.obj \in Object /\ rec.same \in BOOLEAN
         /\ rec.addrs \subseteq Address /\ rec.list \subseteq Request
  BY DEF TypeOK, NoRec, Reconciliation, Phases

LEMMA RemovedType ==
  ASSUME NEW o \in Object
  PROVE  /\ Removed(o) \in Object /\ ~Removed(o).live /\ ~Removed(o).fin /\ ~Removed(o).deleting
  BY DEF Removed, Object

LEMMA StoreType ==
  ASSUME TypeOK, NEW s \in Svc, NEW o \in Object, NEW own \in BOOLEAN, Store(s, o, own)
  PROVE  svc' \in [Svc -> Object] /\ log' \in [Svc -> Seq(Version)]
<1>1. PICK v : v = [obj |-> o, own |-> own]
  OBVIOUS
<1>2. v \in Version
  BY <1>1 DEF Version
<1>3. log' = log \/ log' = [log EXCEPT ![s] = Append(@, v)]
  BY <1>1 DEF Store
<1>4. Append(log[s], v) \in Seq(Version)
  BY <1>2 DEF TypeOK
<1>5. log' \in [Svc -> Seq(Version)]
  BY <1>3, <1>4 DEF TypeOK
<1> QED
  BY <1>5 DEF Store, TypeOK

LEMMA DisturbedType ==
  ASSUME TypeOK, NEW s \in Svc
  PROVE  Disturbed(s) \in Reconciliation \cup {NoRec}
  BY DEF Disturbed, TypeOK, Reconciliation

LEMMA UserType ==
  ASSUME TypeOK, NEW s \in Svc, EditService(s) \/ DeleteService(s)
  PROVE  TypeOK'
<1>1. svc[s] \in Object
  BY DEF TypeOK
<1>2. PICK o \in Object : Store(s, o, FALSE)
  <2>1. CASE EditService(s)
    <3>1. PICK c \in Configs : Store(s, [svc[s] EXCEPT !.cfg = c], FALSE)
      BY <2>1 DEF EditService
    <3>2. [svc[s] EXCEPT !.cfg = c] \in Object
      BY <1>1 DEF Object
    <3> QED
      BY <3>1, <3>2
  <2>2. CASE DeleteService(s)
    <3>1. [svc[s] EXCEPT !.deleting = TRUE] \in Object
      BY <1>1 DEF Object
    <3>2. Removed(svc[s]) \in Object
      BY <1>1, RemovedType
    <3> QED
      BY <2>2, <3>1, <3>2 DEF DeleteService
  <2> QED
    BY <2>1, <2>2
<1>3. svc' \in [Svc -> Object] /\ log' \in [Svc -> Seq(Version)]
  BY <1>2, StoreType
<1>4. /\ rec' = Disturbed(s) /\ ops' = ops + 1
      /\ UNCHANGED <<alloc, eps, cache, cachedAllocs, allocNews, cachedEps, router, queue, slipped, early, faults>>
  BY DEF EditService, DeleteService, Operation
<1>5. rec' \in Reconciliation \cup {NoRec}
  BY <1>4, DisturbedType
<1> QED
  BY <1>3, <1>4, <1>5 DEF TypeOK

LEMMA EndpointsType == ASSUME TypeOK, NEW s \in Svc, EditEndpoints(s) PROVE TypeOK'
<1>1. eps' \in [Svc -> Targets] /\ ops' \in Nat
  BY DEF EditEndpoints, Operation, TypeOK
<1> QED
  BY <1>1 DEF EditEndpoints, TypeOK, informers

LEMMA MissingType == Missing \in Allocation
  BY DEF Missing, Allocation

LEMMA AllocationType ==
  ASSUME TypeOK, NEW n \in Svc \X Request, Grant(n) \/ Withdraw(n) \/ Release(n)
  PROVE  TypeOK'
<1>1. alloc[n] \in Allocation
  BY DEF TypeOK
<1>2. PICK a \in Allocation : ChangeAlloc(n, a)
  <2>1. \A x \in Address \cup {NoAddr} : [alloc[n] EXCEPT !.granted = x] \in Allocation
    BY <1>1 DEF Allocation
  <2> QED
    BY <2>1, MissingType DEF Grant, Withdraw, Release, Serves
<1>3. alloc' \in [Svc \X Request -> Allocation] /\ allocNews' \subseteq Svc \X Request
  BY <1>2 DEF ChangeAlloc, TypeOK
<1>4. ops' \in Nat
  BY DEF Grant, Withdraw, Release, Operation, TypeOK
<1> QED
  BY <1>2, <1>3, <1>4 DEF ChangeAlloc, TypeOK

LEMMA WatchType ==
  ASSUME TypeOK, NEW s \in Svc, SeeService(s) \/ SeeAllocs(s) \/ SeeEndpoints(s)
  PROVE  TypeOK'
<1>1. CASE SeeService(s)
  <2>1. log[s] \in Seq(Version) /\ log[s] # << >>
    BY <1>1 DEF SeeService, TypeOK
  <2>2. Head(log[s]) \in Version /\ Tail(log[s]) \in Seq(Version)
    BY <2>1
  <2>3. Head(log[s]).obj \in Object
    BY <2>2 DEF Version
  <2>4. cache' \in [Svc -> Object] /\ log' \in [Svc -> Seq(Version)]
    BY <1>1, <2>2, <2>3 DEF SeeService, TypeOK
  <2> QED
    BY <1>1, <2>4 DEF SeeService, TypeOK
<1>2. CASE SeeAllocs(s)
  BY <1>2 DEF SeeAllocs, WatchAllocs, TypeOK
<1>3. CASE SeeEndpoints(s)
  BY <1>3 DEF SeeEndpoints, TypeOK
<1> QED
  BY <1>1, <1>2, <1>3

LEMMA StartType == ASSUME TypeOK, NEW s \in Svc, Start(s) PROVE TypeOK'
<1>1. cache[s] \in Object
  BY DEF TypeOK
<1>2. Branch(cache[s]) = "idle" \/ Branch(cache[s]) \in Phases
  BY DEF Branch, Phases
<1>3. Reconciling(s, cache[s]) \in Reconciliation \cup {NoRec}
  BY <1>1, <1>2 DEF Reconciling, Reconciliation
<1>4. queue' \subseteq Svc /\ early' \subseteq Svc
  BY DEF Start, TypeOK
<1> QED
  BY <1>3, <1>4 DEF Start, TypeOK, informers

\* How a reconciliation goes on or ends.
LEMMA EndTypes ==
  ASSUME TypeOK, rec.phase # "idle", Failed \/ Done \/ (\E p \in Phases : Proceed(p))
  PROVE  rec' \in Reconciliation \cup {NoRec} /\ queue' \subseteq Svc
<1>1. rec \in Reconciliation /\ rec.svc \in Svc
  BY RecTypes
<1>2. CASE Failed \/ Done
  BY <1>1, <1>2 DEF Failed, Done, TypeOK
<1>3. CASE \E p \in Phases : Proceed(p)
  BY <1>1, <1>3 DEF Proceed, TypeOK, Reconciliation
<1> QED
  BY <1>2, <1>3

\* A patch of the Service o was made of, and what follows it.
LEMMA PatchCases ==
  ASSUME NEW o, NEW phase, PatchTo(o, phase)
  PROVE  /\ \/ svc[rec.svc].live /\ Store(rec.svc, o, TRUE)
            \/ UNCHANGED <<svc, log>> /\ Failed
         /\ \/ Failed
            \/ phase = "idle" /\ Done
            \/ phase # "idle" /\ Proceed(phase)
         /\ faults' = faults \/ faults' = faults + 1
  BY Zenon DEF PatchTo, Fault

LEMMA PatchType ==
  ASSUME TypeOK, rec.phase # "idle", NEW o \in Object, NEW phase \in Phases \cup {"idle"},
         PatchTo(o, phase),
         UNCHANGED <<alloc, eps, cache, cachedAllocs, allocNews, cachedEps, router, slipped, early, ops>>
  PROVE  TypeOK'
<1>1. rec.svc \in Svc
  BY RecTypes
<1>2. svc' \in [Svc -> Object] /\ log' \in [Svc -> Seq(Version)]
  BY <1>1, PatchCases, StoreType DEF TypeOK
<1>3. rec' \in Reconciliation \cup {NoRec} /\ queue' \subseteq Svc
  BY PatchCases, EndTypes
<1>4. faults' = faults \/ faults' = faults + 1
  BY PatchCases
<1>5. faults' \in Nat
  BY <1>4 DEF TypeOK
<1> QED
  BY <1>2, <1>3, <1>5 DEF TypeOK

LEMMA PatchedTypes ==
  ASSUME NEW o \in Object, NEW x \in SUBSET Address
  PROVE  /\ [o EXCEPT !.fin = TRUE] \in Object /\ [o EXCEPT !.fin = FALSE] \in Object
         /\ [o EXCEPT !.ingress = x] \in Object
         /\ Unfinalized(o) \in Object
<1>1. [o EXCEPT !.fin = TRUE] \in Object /\ [o EXCEPT !.fin = FALSE] \in Object
  BY DEF Object
<1>2. [o EXCEPT !.ingress = x] \in Object
  BY DEF Object
<1> QED
  BY <1>1, <1>2, RemovedType DEF Unfinalized

LEMMA RulesTypes ==
  ASSUME NEW c \in Config, NEW addrs \in SUBSET Address, NEW t \in Targets
  PROVE  LBIPs(c, addrs) \in SUBSET Address /\ RulesFor(c, addrs, t) \in Rules
  BY DEF LBIPs, SNATIPs, ForSNAT, RulesFor, Rules

\* The five patches.
LEMMA PatchesType ==
  ASSUME TypeOK, Finalize \/ RemoveFinalizer \/ ClearIngress \/ PatchStatus
  PROVE  TypeOK'
<1>1. /\ rec.phase # "idle"
      /\ UNCHANGED <<alloc, eps, cache, cachedAllocs, allocNews, cachedEps, router, slipped, early, ops>>
  BY DEF Finalize, RemoveFinalizer, ClearIngress, PatchStatus
<1>2. rec.svc \in Svc /\ svc[rec.svc] \in Object /\ rec.obj \in Object /\ rec.addrs \in SUBSET Address
  BY <1>1, RecTypes DEF TypeOK
<1>3. rec.obj.cfg \in Config
  BY <1>2, ServiceConfigAssumption DEF Object
<1>4. CASE Finalize
  BY <1>1, <1>2, <1>4, PatchType, PatchedTypes DEF Finalize
<1>5. CASE RemoveFinalizer
  <2>1. PICK p \in Phases \cup {"idle"} : p = IF rec.obj.deleting THEN "idle" ELSE "clearIngress"
    BY DEF Phases
  <2> QED
    BY <1>1, <1>2, <1>5, <2>1, PatchType, PatchedTypes DEF RemoveFinalizer
<1>6. CASE ClearIngress /\ rec.same
  <2>1. PICK o \in Object : o = IF rec.obj.ingress = {} THEN svc[rec.svc]
                                ELSE [svc[rec.svc] EXCEPT !.ingress = {}]
    BY <1>2, PatchedTypes
  <2> QED
    BY <1>1, <1>6, <2>1, PatchType DEF ClearIngress
<1>7. CASE ClearIngress /\ ~rec.same
  <2>1. Failed /\ UNCHANGED <<svc, log, faults>>
    BY <1>7 DEF ClearIngress
  <2> QED
    BY <1>1, <2>1, EndTypes DEF TypeOK
<1>8. CASE PatchStatus
  <2>1. PICK i \in SUBSET Address : i = IngressFor(rec.obj.cfg, rec.addrs)
    BY <1>2 DEF IngressFor, LBIPs
  <2>2. PICK o \in Object : o = IF i = rec.obj.ingress THEN svc[rec.svc]
                                ELSE [svc[rec.svc] EXCEPT !.ingress = i]
    BY <1>2, PatchedTypes
  <2>3. "ensure" \in Phases
    BY DEF Phases
  <2> QED
    BY <1>1, <1>8, <2>1, <2>2, <2>3, PatchType DEF PatchStatus
<1> QED
  BY <1>4, <1>5, <1>6, <1>7, <1>8

LEMMA CleanRouterType == ASSUME TypeOK, CleanRouter PROVE TypeOK'
<1>1. rec.phase # "idle" /\ UNCHANGED <<svc, alloc, eps, informers, slipped, early, ops>>
  BY DEF CleanRouter
<1>2. rec.svc \in Svc /\ router[rec.svc] \in Rules
  BY <1>1, RecTypes DEF TypeOK
<1>3. NoRules \in Rules /\ [NoRules EXCEPT !.snat = router[rec.svc].snat] \in Rules
  BY <1>2 DEF NoRules, Rules
<1>4. router' \in [Svc -> Rules]
  BY <1>2, <1>3, ZenonT(60) DEF CleanRouter, TypeOK
<1>5. rec' \in Reconciliation \cup {NoRec} /\ queue' \subseteq Svc
  <2>1. "cleanAllocs" \in Phases
    BY DEF Phases
  <2> QED
    BY <1>1, <2>1, EndTypes DEF CleanRouter
<1>6. faults' \in Nat
  BY DEF CleanRouter, Fault, TypeOK
<1> QED
  BY <1>1, <1>4, <1>5, <1>6 DEF TypeOK, informers

LEMMA DeletedType ==
  ASSUME TypeOK, NEW s \in Svc, NEW qs
  PROVE  /\ Deleted(s, qs) \in [Svc \X Request -> Allocation]
<1>1. ASSUME NEW n \in Svc \X Request PROVE [alloc[n] EXCEPT !.deleting = TRUE] \in Allocation
  <2>1. alloc[n] \in Allocation
    BY DEF TypeOK
  <2> QED
    BY <2>1 DEF Allocation
<1> QED
  BY <1>1 DEF Deleted, TypeOK

LEMMA CleanAllocsType == ASSUME TypeOK, CleanAllocs PROVE TypeOK'
<1>1. rec.phase # "idle" /\ UNCHANGED <<svc, eps, cache, log, cachedAllocs, cachedEps, router, slipped, early, ops>>
  BY DEF CleanAllocs
<1>2. rec.svc \in Svc
  BY <1>1, RecTypes
<1>3. alloc' \in [Svc \X Request -> Allocation]
  BY <1>2, DeletedType DEF CleanAllocs
<1>4. allocNews' \subseteq Svc \X Request
  BY DEF CleanAllocs, TypeOK
<1>5. rec' \in Reconciliation \cup {NoRec} /\ queue' \subseteq Svc
  <2>1. "unfinalize" \in Phases
    BY DEF Phases
  <2>2. Failed \/ Proceed("unfinalize")
    BY DEF CleanAllocs
  <2> QED
    BY <1>1, <2>1, <2>2, EndTypes
<1>6. faults' \in Nat
  <2>1. faults' = faults \/ faults' = faults + 1
    BY DEF CleanAllocs, Fault
  <2> QED
    BY <2>1 DEF TypeOK
<1> QED
  BY <1>1, <1>3, <1>4, <1>5, <1>6 DEF TypeOK

LEMMA GrantedType ==
  ASSUME TypeOK, NEW s \in Svc, NEW qs, qs \subseteq Request
  PROVE  Granted(s, qs) \subseteq Address
<1>1. \A q \in qs : alloc[<<s, q>>] \in Allocation
  BY DEF TypeOK
<1>2. \A q \in qs : alloc[<<s, q>>].granted \in Address \cup {NoAddr}
  BY <1>1 DEF Allocation
<1> QED
  BY <1>2 DEF Granted

LEMMA SyncAllocsType == ASSUME TypeOK, SyncAllocs PROVE TypeOK'
<1>1. /\ rec.phase = "allocs"
      /\ UNCHANGED <<svc, eps, cache, log, cachedAllocs, cachedEps, router, queue, early, ops>>
  BY DEF SyncAllocs
<1>2. rec \in Reconciliation /\ rec.svc \in Svc
  BY <1>1, RecTypes
<1>3. alloc' \in [Svc \X Request -> Allocation]
  <2>1. [Missing EXCEPT !.live = TRUE] \in Allocation
    BY DEF Missing, Allocation
  <2> QED
    BY <1>2, <2>1, DeletedType DEF SyncAllocs
<1>4. allocNews' \subseteq Svc \X Request
  BY DEF SyncAllocs, TypeOK
<1>5. rec' \in Reconciliation
  <2>1. PICK found : found = {q \in Request : Exists(<<rec.svc, q>>)}
    OBVIOUS
  <2>2. PICK addrs : addrs = Granted(rec.svc, found \cap Requested(rec.obj.cfg))
    OBVIOUS
  <2>3. addrs \subseteq Address
    BY <1>2, <2>1, <2>2, GrantedType
  <2>4. rec' = [rec EXCEPT !.phase = "status", !.addrs = addrs]
    BY <2>1, <2>2 DEF SyncAllocs
  <2>5. "status" \in Phases
    BY DEF Phases
  <2> QED
    BY <1>2, <2>3, <2>4, <2>5 DEF Reconciliation
<1>6. slipped' \subseteq Svc
  <2>1. slipped' = slipped \ {rec.svc} \/ slipped' = slipped \cup {rec.svc}
    BY DEF SyncAllocs
  <2> QED
    BY <1>2, <2>1 DEF TypeOK
<1>7. faults' \in Nat
  <2>1. faults' = faults \/ faults' = faults + 1
    BY DEF SyncAllocs, Fault
  <2> QED
    BY <2>1 DEF TypeOK
<1> QED
  BY <1>1, <1>3, <1>4, <1>5, <1>6, <1>7 DEF TypeOK

LEMMA ListFailsType == ASSUME TypeOK, ListFails PROVE TypeOK'
<1>1. rec' \in Reconciliation \cup {NoRec} /\ queue' \subseteq Svc
  BY EndTypes DEF ListFails
<1> QED
  BY <1>1 DEF ListFails, Fault, TypeOK, informers

LEMMA EnsureType == ASSUME TypeOK, EnsureService PROVE TypeOK'
<1>1. rec.phase # "idle" /\ UNCHANGED <<svc, alloc, eps, informers, slipped, early, ops>>
  BY DEF EnsureService
<1>2. /\ rec.svc \in Svc /\ router[rec.svc] \in Rules /\ cachedEps[rec.svc] \in Targets
      /\ rec.obj.cfg \in Config /\ rec.addrs \in SUBSET Address
  BY <1>1, RecTypes, ServiceConfigAssumption DEF TypeOK, Object
<1>3. PICK new \in Rules : new = RulesFor(rec.obj.cfg, rec.addrs, cachedEps[rec.svc])
  BY <1>2, RulesTypes
<1>4. PICK rules \in Rules : router' = [router EXCEPT ![rec.svc] = rules]
  <2>1. PICK old \in Rules : old = router[rec.svc]
    BY <1>2
  <2>2. \A lb \in {old.lb, new.lb, old.lb \cap new.lb}, snat \in {old.snat, {}, new.snat},
           to \in {old.to, new.to} : [lb |-> lb, snat |-> snat, to |-> to] \in Rules
    BY DEF Rules
  <2> QED
    BY <1>3, <2>1, <2>2 DEF EnsureService
<1>5. router' \in [Svc -> Rules]
  BY <1>2, <1>4 DEF TypeOK
<1>6. rec' \in Reconciliation \cup {NoRec} /\ queue' \subseteq Svc
  BY <1>1, EndTypes DEF EnsureService
<1>7. faults' \in Nat
  BY SMTT(30) DEF EnsureService, Fault, TypeOK
<1> QED
  BY <1>1, <1>5, <1>6, <1>7 DEF TypeOK, informers

LEMMA CrashType == ASSUME TypeOK, Crash PROVE TypeOK'
<1>1. log' \in [Svc -> Seq(Version)]
  BY DEF Crash
<1>2. faults' \in Nat
  BY DEF Crash, Fault, TypeOK
<1> QED
  BY <1>1, <1>2 DEF Crash, TypeOK

LEMMA TypeStep == TypeOK /\ [Next]_vars => TypeOK'
<1> SUFFICES ASSUME TypeOK, [Next]_vars PROVE TypeOK'
  OBVIOUS
<1>1. CASE UNCHANGED vars
  BY <1>1 DEF vars, informers, TypeOK
<1>2. CASE Users
  BY <1>2, UserType, EndpointsType DEF Users
<1>3. CASE Watches
  BY <1>3, WatchType DEF Watches
<1>4. CASE AllocationController
  BY <1>4, AllocationType DEF AllocationController
<1>5. CASE \E s \in Svc : Start(s)
  BY <1>5, StartType
<1>6. CASE Reconcile
  BY <1>6, PatchesType, CleanRouterType, CleanAllocsType, SyncAllocsType, ListFailsType, EnsureType
     DEF Reconcile
<1> QED
  BY <1>1, <1>2, <1>3, <1>4, <1>5, <1>6, CrashType DEF Next

LEMMA TypeInit == Init => TypeOK
<1> SUFFICES ASSUME Init PROVE TypeOK
  OBVIOUS
<1>1. svc \in [Svc -> Object]
  <2>1. PICK c \in [Svc -> Configs] :
          svc = [s \in Svc |-> [live |-> TRUE, deleting |-> FALSE, fin |-> FALSE,
                                cfg |-> c[s], ingress |-> {}]]
    BY DEF Init
  <2>2. \A s \in Svc : [live |-> TRUE, deleting |-> FALSE, fin |-> FALSE,
                        cfg |-> c[s], ingress |-> {}] \in Object
    BY DEF Object
  <2> QED
    BY <2>1, <2>2
<1>2. eps \in [Svc -> Targets]
  BY ServiceTargetAssumption DEF Init
<1>3. router \in [Svc -> Rules]
  BY DEF Init, NoRules, Rules
<1>4. log \in [Svc -> Seq(Version)]
  BY DEF Init
<1> QED
  BY <1>1, <1>2, <1>3, <1>4, MissingType DEF Init, TypeOK

(***************************************************************************)
(* Every step of the Service controller (Reconcile and cleanupService of   *)
(* service_reconciler.go), of its watches, of users and of the allocation  *)
(* controller, every failure and every crash leaves the state well formed; *)
(* in particular no allocation without an address contributes one.         *)
(***************************************************************************)
THEOREM ServiceTypeCorrect == Spec => []TypeOK
  BY TypeInit, TypeStep, PTL DEF Spec

-----------------------------------------------------------------------------
\* The Service is looked at again, whatever the reconciliation in flight does.
Attended(s) == s \in queue \/ log[s] # << >>
Awaited(s) == Attended(s) \/ \E n \in allocNews : n[1] = s

Position(s) == 1..Len(log[s])

\* The stream ends in the current version, and without one the cache has it.
StreamShown ==
  \A s \in Svc :
    /\ log[s] = << >> => cache[s] = svc[s]
    /\ log[s] # << >> => log[s][Len(log[s])].obj = svc[s]

Finalized(o) == o.live /\ o.fin

\* Only the controller's own patches take a finalizer away.
FinalizerIsOurs ==
  \A s \in Svc :
    /\ (\A k \in Position(s) : ~log[s][k].own) /\ Finalized(cache[s]) => Finalized(svc[s])
    /\ \A k \in Position(s) :
         (\A j \in Position(s) : k < j => ~log[s][j].own) /\ Finalized(log[s][k].obj)
           => Finalized(svc[s])

\* A Service that is being deleted has the finalizer, one that is gone does not.
DeletionWaits ==
  \A s \in Svc : /\ svc[s].deleting => svc[s].fin
                 /\ svc[s].fin => svc[s].live

\* The cache misses an allocation only while its creation is on its way.
AllocsShown ==
  \A n \in Svc \X Request : Exists(n) => n \in cachedAllocs \/ n \in allocNews

StreamInv == StreamShown /\ FinalizerIsOurs /\ DeletionWaits

CacheInv == StreamInv /\ AllocsShown

(***************************************************************************)
(* The allocations of Service s, by request, and what is said of such a    *)
(* family A of allocations, of the rules of the router and of a Service o. *)
(***************************************************************************)
AllocsOf(s) == [q \in Request |-> alloc[<<s, q>>]]

GrantedIn(A, qs) == {A[q].granted : q \in qs} \ {NoAddr}

Clean(A, rules) == /\ rules = NoRules
                   /\ \A q \in Request : A[q].live => A[q].deleting

RequestsMet(A, c) ==
  /\ \A q \in Requested(c) : A[q].live
  /\ \A q \in Request \ Requested(c) : A[q].live => A[q].deleting

RoutesGranted(A, rules) ==
  \A a \in rules.lb \cup rules.snat : \E q \in Request : A[q].granted = a

Exact(o, A, rules, targets) ==
  o.live /\ ~o.deleting /\ Managed(o.cfg) =>
    /\ RequestsMet(A, o.cfg)
    /\ o.ingress = LBIPs(o.cfg, GrantedIn(A, Requested(o.cfg)))
    /\ rules = RulesFor(o.cfg, GrantedIn(A, Requested(o.cfg)), targets)

CleanedUp(o) == o.fin => ~o.deleting /\ Managed(o.cfg)

-----------------------------------------------------------------------------
Cleaning == {"cleanRouter", "cleanAllocs", "unfinalize"}
Granting == {"allocs", "status", "ensure"}

\* The reconciliation in flight is about Service s.
Works(s) == rec # NoRec /\ rec.svc = s

\* What it has read is still true, or it will be repeated, ...
ReadInv(s) ==
  /\ rec.phase = "finalize" => Attended(s) \/ ~svc[s].fin
  /\ rec.phase \in Cleaning => Attended(s) \/ svc[s] = rec.obj
  /\ rec.phase \in Cleaning => Finalized(rec.obj)
  /\ rec.phase = "clearIngress" => Attended(s)
  /\ rec.phase \in Granting => Attended(s) \/ svc[s] = rec.obj
  /\ rec.phase \in Granting => ~rec.obj.deleting /\ Managed(rec.obj.cfg)

\* ... it works with the addresses that the allocations have, ...
AddressesKnown(s, A) ==
  /\ \A a \in rec.addrs : \E q \in Request : A[q].granted = a
  /\ s \notin slipped =>
       RequestsMet(A, rec.obj.cfg) /\ rec.addrs = GrantedIn(A, Requested(rec.obj.cfg))

AddressInv(s) ==
  /\ rec.phase \in {"status", "ensure"} => Awaited(s) \/ AddressesKnown(s, AllocsOf(s))
  /\ rec.phase = "ensure" => Attended(s) \/ rec.obj.ingress = LBIPs(rec.obj.cfg, rec.addrs)

\* ... and it adds to what exists under the finalizer, or takes away all of it.
GuardInv(s) ==
  s \notin early =>
    /\ rec.phase \in {"cleanRouter", "cleanAllocs"} =>
         \A q \in Request : AllocsOf(s)[q].live => q \in rec.list
    /\ rec.phase = "cleanAllocs" => router[s] = NoRules
    /\ rec.phase = "unfinalize" => Clean(AllocsOf(s), router[s])
    /\ rec.phase \in Granting => Finalized(svc[s])

WorkInv == \A s \in Svc : Works(s) => ReadInv(s) /\ AddressInv(s) /\ GuardInv(s)

\* What exists for a Service is guarded by its finalizer.
Guarded(s) == s \notin early => Finalized(svc[s]) \/ Clean(AllocsOf(s), router[s])

\* What is true of a Service with nothing ahead of it, but for a change of its
\* endpoints that the cache has not seen.
Settled(s) ==
  /\ CleanedUp(svc[s])
  /\ s \notin early => RoutesGranted(AllocsOf(s), router[s])
  /\ s \notin slipped => Exact(svc[s], AllocsOf(s), router[s], cachedEps[s])

RestInv == \A s \in Svc : Guarded(s) /\ (Awaited(s) \/ Works(s) \/ Settled(s))

ServiceInv == CacheInv /\ WorkInv /\ RestInv

-----------------------------------------------------------------------------
(***************************************************************************)
(* The caches.                                                             *)
(***************************************************************************)
LEMMA LogTypes ==
  ASSUME TypeOK, NEW s \in Svc
  PROVE  /\ Len(log[s]) \in Nat /\ (log[s] = << >> <=> Len(log[s]) = 0)
         /\ \A k \in Position(s) : log[s][k] \in Version
  BY DEF TypeOK, Position

\* What a write does to the streams and the objects.
Written(s, o, own) ==
  /\ svc'[s] = o
  /\ \A x \in Svc \ {s} : svc'[x] = svc[x] /\ log'[x] = log[x]
  /\ \/ o = svc[s] /\ log'[s] = log[s]
     \/ /\ Len(log'[s]) = Len(log[s]) + 1
        /\ \A k \in 1..Len(log[s]) : log'[s][k] = log[s][k]
        /\ log'[s][Len(log[s]) + 1].obj = o /\ log'[s][Len(log[s]) + 1].own = own

LEMMA StoreWrites ==
  ASSUME TypeOK, NEW s \in Svc, NEW o \in Object, NEW own \in BOOLEAN, Store(s, o, own)
  PROVE  Written(s, o, own)
<1>1. PICK v : v = [obj |-> o, own |-> own]
  OBVIOUS
<1>2. v \in Version /\ v.obj = o /\ v.own = own
  BY <1>1 DEF Version
<1>3. svc'[s] = o /\ \A x \in Svc \ {s} : svc'[x] = svc[x]
  BY DEF Store, TypeOK
<1>4. CASE o = svc[s]
  <2>1. log' = log
    BY <1>4 DEF Store
  <2> QED
    BY <1>3, <1>4, <2>1 DEF Written
<1>5. CASE o # svc[s]
  <2>1. log' = [log EXCEPT ![s] = Append(@, v)]
    BY <1>1, <1>5 DEF Store
  <2>2. log'[s] = Append(log[s], v) /\ \A x \in Svc \ {s} : log'[x] = log[x]
    BY <2>1 DEF TypeOK
  <2>3. log[s] \in Seq(Version)
    BY DEF TypeOK
  <2>4. /\ Len(log'[s]) = Len(log[s]) + 1
        /\ \A k \in 1..Len(log[s]) : log'[s][k] = log[s][k]
        /\ log'[s][Len(log[s]) + 1] = v
    BY <1>2, <2>2, <2>3
  <2> QED
    BY <1>2, <1>3, <2>2, <2>4 DEF Written
<1> QED
  BY <1>4, <1>5

\* A change of the Service is on its way to the cache.
Announced == \A x \in Svc : /\ log[x] # << >> => log'[x] # << >>
                            /\ svc'[x] # svc[x] => log'[x] # << >>

LEMMA WriteStream ==
  ASSUME TypeOK, TypeOK', StreamInv, UNCHANGED cache,
         NEW s \in Svc, NEW o \in Object, NEW own \in BOOLEAN, Written(s, o, own),
         ~own /\ Finalized(svc[s]) => Finalized(o),
         o.deleting => o.fin, o.fin => o.live
  PROVE  StreamInv' /\ Announced
<1> DEFINE n == Len(log[s])
<1>1. /\ svc'[s] = o /\ cache' = cache
      /\ \A x \in Svc \ {s} : svc'[x] = svc[x] /\ log'[x] = log[x]
  BY DEF Written
<1>2. \A x \in Svc : /\ Len(log[x]) \in Nat /\ (log[x] = << >> <=> Len(log[x]) = 0)
                     /\ Len(log'[x]) \in Nat /\ (log'[x] = << >> <=> Len(log'[x]) = 0)
  <2>1. \A x \in Svc : Len(log[x]) \in Nat /\ (log[x] = << >> <=> Len(log[x]) = 0)
    BY LogTypes
  <2>2. \A x \in Svc : Len(log'[x]) \in Nat /\ (log'[x] = << >> <=> Len(log'[x]) = 0)
    BY DEF TypeOK
  <2> QED
    BY <2>1, <2>2
<1>3. DeletionWaits'
  BY <1>1 DEF DeletionWaits, StreamInv
<1>4. CASE o = svc[s] /\ log'[s] = log[s]
  <2>1. \A x \in Svc : svc'[x] = svc[x] /\ log'[x] = log[x]
    BY <1>1, <1>4
  <2>2. \A x \in Svc : Position(x)' = Position(x)
    BY <2>1 DEF Position
  <2>3. StreamShown'
    BY <1>1, <2>1 DEF StreamShown, StreamInv
  <2>4. FinalizerIsOurs'
    BY <1>1, <2>1, <2>2 DEF FinalizerIsOurs, StreamInv
  <2> QED
    BY <1>3, <2>1, <2>3, <2>4 DEF StreamInv, Announced
<1>5. CASE /\ Len(log'[s]) = n + 1
           /\ \A k \in 1..n : log'[s][k] = log[s][k]
           /\ log'[s][n + 1].obj = o /\ log'[s][n + 1].own = own
  <2>1. /\ Position(s)' = 1..(n + 1) /\ Position(s) = 1..n /\ n \in Nat
        /\ \A x \in Svc \ {s} : Position(x)' = Position(x)
    BY <1>1, <1>2, <1>5 DEF Position
  <2>2. /\ n + 1 \in Position(s)'
        /\ \A k \in Position(s)' : k \in Position(s) \/ k = n + 1
        /\ \A k \in Position(s) : k \in Position(s)' /\ k < n + 1 /\ log'[s][k] = log[s][k]
    BY <1>5, <2>1
  <2>3. log'[s] # << >>
    BY <1>2, <1>5, <2>1
  <2>4. StreamShown'
    BY <1>1, <1>5, <2>3 DEF StreamShown, StreamInv
  <2>5. Announced
    BY <1>1, <2>3 DEF Announced
  <2>6. ASSUME NEW x \in Svc, NEW v, x # s \/ ~own,
               Finalized(v) => Finalized(svc[x])
        PROVE  Finalized(v) => Finalized(svc'[x])
    BY <1>1, <2>6
  <2>7. ASSUME NEW x \in Svc, \A k \in Position(x)' : ~log'[x][k].own, Finalized(cache[x])
        PROVE  Finalized(svc'[x])
    <3>1. x # s \/ ~own
      BY <1>5, <2>2, <2>7
    <3>2. \A k \in Position(x) : ~log[x][k].own
      BY <1>1, <2>1, <2>2, <2>7
    <3>3. Finalized(svc[x])
      BY <2>7, <3>2 DEF FinalizerIsOurs, StreamInv
    <3> QED
      BY <2>6, <3>1, <3>3
  <2>8. ASSUME NEW x \in Svc, NEW k \in Position(x)',
               \A j \in Position(x)' : k < j => ~log'[x][j].own, Finalized(log'[x][k].obj)
        PROVE  Finalized(svc'[x])
    <3>1. CASE x = s /\ k = n + 1
      BY <1>1, <1>5, <2>8, <3>1
    <3>2. CASE x # s \/ k # n + 1
      <4>1. k \in Position(x) /\ log'[x][k] = log[x][k]
        BY <1>1, <2>1, <2>2, <3>2
      <4>2. x # s \/ ~own
        BY <1>5, <2>2, <2>8, <3>2
      <4>3. \A j \in Position(x) : k < j => ~log[x][j].own
        BY <1>1, <2>1, <2>2, <2>8
      <4>4. Finalized(svc[x])
        BY <2>8, <4>1, <4>3 DEF FinalizerIsOurs, StreamInv
      <4> QED
        BY <2>6, <4>2, <4>4
    <3> QED
      BY <3>1, <3>2
  <2>9. FinalizerIsOurs'
    BY <1>1, <2>7, <2>8 DEF FinalizerIsOurs
  <2> QED
    BY <1>3, <2>4, <2>5, <2>9 DEF StreamInv
<1> QED
  BY <1>4, <1>5 DEF Written

LEMMA StreamSame ==
  ASSUME StreamInv, UNCHANGED <<svc, cache, log>>
  PROVE  StreamInv' /\ Announced
<1>1. \A x \in Svc : Position(x)' = Position(x)
  BY DEF Position
<1>2. StreamShown' /\ DeletionWaits'
  BY DEF StreamShown, DeletionWaits, StreamInv
<1>3. FinalizerIsOurs'
  BY <1>1 DEF FinalizerIsOurs, StreamInv
<1> QED
  BY <1>2, <1>3 DEF StreamInv, Announced

LEMMA SeeStream ==
  ASSUME TypeOK, StreamInv, NEW s \in Svc, SeeService(s)
  PROVE  StreamInv'
<1> DEFINE n == Len(log[s])
<1>1. /\ svc' = svc /\ log[s] # << >>
      /\ cache' = [cache EXCEPT ![s] = Head(log[s]).obj] /\ log' = [log EXCEPT ![s] = Tail(@)]
  BY DEF SeeService
<1>2. log[s] \in Seq(Version)
  BY DEF TypeOK
<1>3. /\ cache'[s] = Head(log[s]).obj /\ log'[s] = Tail(log[s])
      /\ \A x \in Svc \ {s} : cache'[x] = cache[x] /\ log'[x] = log[x]
  BY <1>1 DEF TypeOK
<1>4. /\ n \in Nat \ {0} /\ cache'[s] = log[s][1].obj
      /\ Len(log'[s]) = n - 1 /\ \A k \in 1..(n - 1) : log'[s][k] = log[s][k + 1]
      /\ (log'[s] = << >> <=> n = 1)
  <2>1. n \in Nat \ {0} /\ Head(log[s]) = log[s][1] /\ Tail(log[s]) \in Seq(Version)
    BY <1>1, <1>2
  <2>2. Len(Tail(log[s])) = n - 1 /\ \A k \in 1..(n - 1) : Tail(log[s])[k] = log[s][k + 1]
    BY <1>1, <1>2
  <2>3. \A q \in Seq(Version) : q = << >> <=> Len(q) = 0
    OBVIOUS
  <2>4. PICK q \in Seq(Version) : q = Tail(log[s])
    BY <2>1
  <2>5. Len(q) = n - 1
    BY <2>2, <2>4
  <2>6. n = 1 <=> n - 1 = 0
    BY <2>1
  <2>7. q = << >> <=> n = 1
    BY <2>3, <2>5, <2>6
  <2> QED
    BY <1>3, <2>1, <2>2, <2>4, <2>7
<1>5. /\ Position(s) = 1..n /\ Position(s)' = 1..(n - 1) /\ 1 \in Position(s)
      /\ \A x \in Svc \ {s} : Position(x)' = Position(x)
  BY <1>3, <1>4 DEF Position
<1> HIDE DEF n
<1>6. /\ \A k \in Position(s) : k # 1 => k - 1 \in Position(s)' /\ log'[s][k - 1] = log[s][k]
      /\ \A k \in Position(s)' : k + 1 \in Position(s) /\ log'[s][k] = log[s][k + 1]
      /\ \A k \in Position(s) : 1 < k => k # 1
      /\ \A k \in Position(s)', j \in Position(s) : k + 1 < j => j # 1 /\ k < j - 1
  BY <1>4, <1>5
<1>7. StreamShown'
  <2>1. n = 1 => log[s][1].obj = svc[s]
    BY <1>1 DEF StreamShown, StreamInv, n
  <2>2. n # 1 => log'[s][n - 1].obj = svc[s]
    <3>1. log[s][n].obj = svc[s]
      BY <1>1 DEF StreamShown, StreamInv, n
    <3>2. n # 1 => n - 1 \in 1..(n - 1) /\ (n - 1) + 1 = n
      BY <1>4
    <3> QED
      BY <1>4, <3>1, <3>2
  <2>3. \A x \in Svc \ {s} : /\ log'[x] = << >> => cache'[x] = svc'[x]
                             /\ log'[x] # << >> => log'[x][Len(log'[x])].obj = svc'[x]
    BY <1>1, <1>3 DEF StreamShown, StreamInv
  <2>4. /\ log'[s] = << >> => cache'[s] = svc'[s]
        /\ log'[s] # << >> => log'[s][Len(log'[s])].obj = svc'[s]
    BY <1>1, <1>4, <2>1, <2>2
  <2> QED
    BY <2>3, <2>4 DEF StreamShown
<1>8. ASSUME NEW k \in Position(s)',
             \A j \in Position(s)' : k < j => ~log'[s][j].own, Finalized(log'[s][k].obj)
      PROVE  Finalized(svc[s])
  <2>1. k + 1 \in Position(s) /\ log'[s][k] = log[s][k + 1]
    BY <1>6
  <2>2. ASSUME NEW j \in Position(s), k + 1 < j PROVE ~log[s][j].own
    <3>1. j # 1 /\ k < j - 1
      BY <1>6, <2>2
    <3>2. j - 1 \in Position(s)' /\ log'[s][j - 1] = log[s][j]
      BY <1>6, <3>1
    <3> QED
      BY <1>8, <3>1, <3>2
  <2> QED
    BY <1>8, <2>1, <2>2 DEF FinalizerIsOurs, StreamInv
<1>9. ASSUME \A k \in Position(s)' : ~log'[s][k].own, Finalized(cache'[s])
      PROVE  Finalized(svc[s])
  <2>1. ASSUME NEW j \in Position(s), 1 < j PROVE ~log[s][j].own
    <3>1. j # 1
      BY <1>6, <2>1
    <3>2. j - 1 \in Position(s)' /\ log'[s][j - 1] = log[s][j]
      BY <1>6, <3>1
    <3> QED
      BY <1>9, <3>2
  <2> QED
    BY <1>4, <1>5, <1>9, <2>1 DEF FinalizerIsOurs, StreamInv
<1>10. \A x \in Svc \ {s} :
         /\ (\A k \in Position(x)' : ~log'[x][k].own) /\ Finalized(cache'[x]) => Finalized(svc'[x])
         /\ \A k \in Position(x)' :
              (\A j \in Position(x)' : k < j => ~log'[x][j].own) /\ Finalized(log'[x][k].obj)
                => Finalized(svc'[x])
  BY <1>1, <1>3, <1>5 DEF FinalizerIsOurs, StreamInv
<1>11. FinalizerIsOurs'
  BY <1>1, <1>8, <1>9, <1>10 DEF FinalizerIsOurs
<1>12. DeletionWaits'
  BY <1>1 DEF DeletionWaits, StreamInv
<1> QED
  BY <1>7, <1>11, <1>12 DEF StreamInv

-----------------------------------------------------------------------------
(***************************************************************************)
(* Steps that are not the worker's.  They leave the router and the         *)
(* reconciliation alone, and what they change comes to the controller's    *)
(* attention.                                                              *)
(***************************************************************************)
RecSame ==
  /\ rec' # NoRec <=> rec # NoRec
  /\ rec # NoRec => /\ rec'.phase = rec.phase /\ rec'.svc = rec.svc /\ rec'.obj = rec.obj
                    /\ rec'.addrs = rec.addrs /\ rec'.list = rec.list

NoticedFor(s) ==
  /\ Attended(s) => Attended(s)'
  /\ Awaited(s) => Awaited(s)'
  /\ svc'[s] = svc[s] \/ Attended(s)'
  /\ (AllocsOf(s)' = AllocsOf(s) /\ cachedEps'[s] = cachedEps[s]) \/ Awaited(s)'

\* Nobody else takes a finalizer away or adds allocations.
GuardKeptFor(s) ==
  /\ Finalized(svc[s]) => Finalized(svc'[s])
  /\ \A q \in Request : AllocsOf(s)'[q].live =>
       AllocsOf(s)[q].live /\ (AllocsOf(s)[q].deleting => AllocsOf(s)'[q].deleting)

OthersStep ==
  /\ RecSame /\ UNCHANGED <<router, slipped, early>>
  /\ \A s \in Svc : NoticedFor(s) /\ GuardKeptFor(s)

LEMMA OthersKeep ==
  ASSUME TypeOK, WorkInv, RestInv, OthersStep
  PROVE  WorkInv' /\ RestInv'
<1>1. RecSame /\ UNCHANGED <<router, slipped, early>>
  BY DEF OthersStep
<1>2. \A s : Works(s)' <=> Works(s)
  BY <1>1 DEF Works, RecSame
<1>3. ASSUME NEW s \in Svc, Clean(AllocsOf(s), router[s])
      PROVE  Clean(AllocsOf(s), router[s])'
  BY <1>1, <1>3 DEF Clean, OthersStep, GuardKeptFor
<1>4. ASSUME NEW s \in Svc, Works(s)'
      PROVE  (ReadInv(s) /\ AddressInv(s) /\ GuardInv(s))'
  <2>1. Works(s) /\ ReadInv(s) /\ AddressInv(s) /\ GuardInv(s)
    BY <1>2, <1>4 DEF WorkInv
  <2>2. /\ rec'.phase = rec.phase /\ rec'.obj = rec.obj
        /\ rec'.addrs = rec.addrs /\ rec'.list = rec.list
    BY <1>1, <2>1 DEF RecSame, Works
  <2>3. NoticedFor(s) /\ GuardKeptFor(s)
    BY DEF OthersStep
  <2>4. ReadInv(s)'
    BY <2>1, <2>2, <2>3 DEF ReadInv, NoticedFor
  <2>5. AddressInv(s)'
    <3>1. Awaited(s)' \/ AllocsOf(s)' = AllocsOf(s)
      BY <2>3 DEF NoticedFor
    <3>2. AddressesKnown(s, AllocsOf(s)) /\ AllocsOf(s)' = AllocsOf(s)
            => AddressesKnown(s, AllocsOf(s))'
      BY <1>1, <2>2 DEF AddressesKnown
    <3> QED
      BY <2>1, <2>2, <2>3, <3>1, <3>2 DEF AddressInv, NoticedFor
  <2>6. GuardInv(s)'
    BY <1>1, <1>3, <2>1, <2>2, <2>3 DEF GuardInv, GuardKeptFor
  <2> QED
    BY <2>4, <2>5, <2>6
<1>5. ASSUME NEW s \in Svc PROVE (Guarded(s) /\ (Awaited(s) \/ Works(s) \/ Settled(s)))'
  <2>1. Guarded(s) /\ (Awaited(s) \/ Works(s) \/ Settled(s))
    BY DEF RestInv
  <2>2. NoticedFor(s) /\ GuardKeptFor(s)
    BY DEF OthersStep
  <2>3. Guarded(s)'
    BY <1>1, <1>3, <2>1, <2>2 DEF Guarded, GuardKeptFor
  <2>4. ASSUME ~Awaited(s)', Settled(s) PROVE Settled(s)'
    <3>1. svc'[s] = svc[s] /\ AllocsOf(s)' = AllocsOf(s) /\ cachedEps'[s] = cachedEps[s]
      BY <2>2, <2>4 DEF NoticedFor, Awaited
    <3> QED
      BY <1>1, <2>4, <3>1 DEF Settled
  <2> QED
    BY <1>2, <2>1, <2>2, <2>3, <2>4 DEF NoticedFor
<1> QED
  BY <1>4, <1>5 DEF WorkInv, RestInv

LEMMA AllocOf ==
  /\ \A s : \A q \in Request : AllocsOf(s)[q] = alloc[<<s, q>>]
  /\ \A s : \A q \in Request : AllocsOf(s)'[q] = alloc'[<<s, q>>]
  BY DEF AllocsOf

\* A step that leaves the allocations, the queue and the endpoints alone.
LEMMA QuietNotices ==
  ASSUME Announced, UNCHANGED <<alloc, queue, allocNews, cachedEps>>
  PROVE  \A s \in Svc : NoticedFor(s)
  BY DEF Announced, NoticedFor, Attended, Awaited, AllocsOf

LEMMA UsersKeep ==
  ASSUME TypeOK, TypeOK', ServiceInv, NEW s \in Svc, EditService(s) \/ DeleteService(s)
  PROVE  ServiceInv'
<1>1. svc[s] \in Object
  BY DEF TypeOK
<1>2. /\ rec' = Disturbed(s)
      /\ UNCHANGED <<alloc, cache, cachedAllocs, allocNews, cachedEps, router, queue, slipped, early>>
  BY DEF EditService, DeleteService
<1>3. PICK o \in Object : /\ Store(s, o, FALSE)
                          /\ Finalized(svc[s]) => Finalized(o)
                          /\ o.deleting => o.fin
                          /\ o.fin => o.live
  <2>1. (svc[s].fin => svc[s].live) /\ (svc[s].deleting => svc[s].fin)
    BY DEF ServiceInv, CacheInv, StreamInv, DeletionWaits
  <2>2. CASE EditService(s)
    <3>1. PICK c \in Configs : Store(s, [svc[s] EXCEPT !.cfg = c], FALSE)
      BY <2>2 DEF EditService
    <3>2. PICK o : o = [svc[s] EXCEPT !.cfg = c]
      OBVIOUS
    <3>3. o \in Object /\ o.live = svc[s].live /\ o.fin = svc[s].fin /\ o.deleting = svc[s].deleting
      BY <1>1, <3>2 DEF Object
    <3> QED
      BY <2>1, <3>1, <3>2, <3>3 DEF Finalized
  <2>3. CASE DeleteService(s) /\ svc[s].fin
    <3>1. PICK o : o = [svc[s] EXCEPT !.deleting = TRUE]
      OBVIOUS
    <3>2. o \in Object /\ o.live = svc[s].live /\ o.fin = svc[s].fin
      BY <1>1, <3>1 DEF Object
    <3> QED
      BY <2>1, <2>3, <3>1, <3>2 DEF Finalized, DeleteService
  <2>4. CASE DeleteService(s) /\ ~svc[s].fin
    <3>1. PICK o : o = Removed(svc[s])
      OBVIOUS
    <3>2. o \in Object /\ ~o.live /\ ~o.fin /\ ~o.deleting
      BY <1>1, <3>1, RemovedType
    <3> QED
      BY <2>4, <3>1, <3>2 DEF Finalized, DeleteService
  <2> QED
    BY <2>2, <2>3, <2>4
<1>4. Written(s, o, FALSE)
  BY <1>3, StoreWrites
<1>5. StreamInv' /\ Announced
  BY <1>2, <1>3, <1>4, WriteStream DEF ServiceInv, CacheInv
<1>6. AllocsShown'
  BY <1>2 DEF AllocsShown, ServiceInv, CacheInv, Exists
<1>7. RecSame
  <2>1. CASE rec = NoRec
    BY <1>2, <2>1 DEF RecSame, Disturbed
  <2>2. CASE rec # NoRec
    <3>1. rec \in Reconciliation
      BY <2>2, BusyTypes
    <3>2. rec' = rec \/ rec' = [rec EXCEPT !.same = FALSE]
      BY <1>2 DEF Disturbed
    <3>3. rec'.phase # "idle"
      BY <2>2, <3>1, <3>2, BusyTypes DEF Reconciliation
    <3>4. rec' # NoRec
      BY <3>3 DEF NoRec
    <3> QED
      BY <2>2, <3>1, <3>2, <3>4 DEF RecSame, Reconciliation
  <2> QED
    BY <2>1, <2>2
<1>8. \A x \in Svc : NoticedFor(x)
  BY <1>2, <1>5, QuietNotices
<1>9. \A x \in Svc : GuardKeptFor(x)
  <2>1. \A x \in Svc : Finalized(svc[x]) => Finalized(svc'[x])
    BY <1>3, <1>4 DEF Written
  <2> QED
    BY <1>2, <2>1 DEF GuardKeptFor, AllocsOf
<1>10. WorkInv' /\ RestInv'
  BY <1>2, <1>7, <1>8, <1>9, OthersKeep DEF OthersStep, ServiceInv
<1> QED
  BY <1>5, <1>6, <1>10 DEF ServiceInv, CacheInv

\* A step that leaves the Services and the reconciliation alone.
LEMMA AsideKeeps ==
  ASSUME TypeOK, ServiceInv, StreamInv', AllocsShown', UNCHANGED <<svc, rec, router, slipped, early>>,
         \A s \in Svc :
           /\ Attended(s) => Attended(s)'
           /\ Awaited(s) => Awaited(s)'
           /\ (AllocsOf(s)' = AllocsOf(s) /\ cachedEps'[s] = cachedEps[s]) \/ Awaited(s)'
           /\ \A q \in Request : alloc'[<<s, q>>].live =>
                alloc[<<s, q>>].live /\ (alloc[<<s, q>>].deleting => alloc'[<<s, q>>].deleting)
  PROVE  ServiceInv'
<1>1. RecSame
  BY DEF RecSame
<1>2. \A s \in Svc : NoticedFor(s)
  BY DEF NoticedFor
<1>3. \A s \in Svc : GuardKeptFor(s)
  BY AllocOf DEF GuardKeptFor
<1>4. WorkInv' /\ RestInv'
  BY <1>1, <1>2, <1>3, OthersKeep DEF OthersStep, ServiceInv
<1> QED
  BY <1>4 DEF ServiceInv, CacheInv

LEMMA EndpointsKeep == ASSUME TypeOK, ServiceInv, NEW s \in Svc, EditEndpoints(s) PROVE ServiceInv'
<1>1. /\ UNCHANGED <<svc, rec, router, slipped, early>>
      /\ UNCHANGED <<alloc, cache, log, cachedAllocs, allocNews, cachedEps, queue>>
  BY DEF EditEndpoints, informers
<1>2. StreamInv'
  BY <1>1, StreamSame DEF ServiceInv, CacheInv
<1>3. AllocsShown'
  BY <1>1 DEF AllocsShown, ServiceInv, CacheInv, Exists
<1>4. \A x \in Svc : /\ Attended(x) => Attended(x)'
                     /\ Awaited(x) => Awaited(x)'
                     /\ AllocsOf(x)' = AllocsOf(x) /\ cachedEps'[x] = cachedEps[x]
  BY <1>1 DEF Attended, Awaited, AllocsOf
<1> QED
  BY <1>1, <1>2, <1>3, <1>4, AsideKeeps

LEMMA AllocationsKeep ==
  ASSUME TypeOK, ServiceInv, NEW n \in Svc \X Request, Grant(n) \/ Withdraw(n) \/ Release(n)
  PROVE  ServiceInv'
<1>1. alloc[n] \in Allocation /\ \A m \in Svc \X Request : alloc[m] \in Allocation
  BY DEF TypeOK
<1>2. PICK a : /\ ChangeAlloc(n, a)
               /\ a.live => alloc[n].live /\ (alloc[n].deleting => a.deleting)
  <2>1. \A x : LET g == [alloc[n] EXCEPT !.granted = x]
               IN  g.live = alloc[n].live /\ g.deleting = alloc[n].deleting
    BY <1>1 DEF Allocation
  <2>2. ~Missing.live
    BY DEF Missing
  <2> QED
    BY <2>1, <2>2 DEF Grant, Withdraw, Release
<1>3. /\ UNCHANGED <<svc, rec, router, slipped, early>>
      /\ UNCHANGED <<eps, cache, log, cachedAllocs, cachedEps, queue>>
      /\ allocNews' = allocNews \cup {n}
      /\ alloc'[n] = a /\ \A m \in (Svc \X Request) \ {n} : alloc'[m] = alloc[m]
  BY <1>2 DEF ChangeAlloc, TypeOK
<1>4. StreamInv'
  BY <1>3, StreamSame DEF ServiceInv, CacheInv
<1>5. AllocsShown'
  BY <1>3 DEF AllocsShown, ServiceInv, CacheInv, Exists
<1>6. \A x \in Svc : (Attended(x) => Attended(x)') /\ (Awaited(x) => Awaited(x)')
  BY <1>3 DEF Attended, Awaited
<1>7. ASSUME NEW x \in Svc PROVE AllocsOf(x)' = AllocsOf(x) \/ Awaited(x)'
  <2>1. CASE x = n[1]
    BY <1>3, <2>1 DEF Awaited
  <2>2. CASE x # n[1]
    <3>1. \A q \in Request : <<x, q>> \in (Svc \X Request) \ {n}
      BY <2>2
    <3>2. \A q \in Request : alloc'[<<x, q>>] = alloc[<<x, q>>]
      BY <1>3, <3>1
    <3> QED
      BY <3>2 DEF AllocsOf
  <2> QED
    BY <2>1, <2>2
<1>8. ASSUME NEW x \in Svc, NEW q \in Request, alloc'[<<x, q>>].live
      PROVE  alloc[<<x, q>>].live /\ (alloc[<<x, q>>].deleting => alloc'[<<x, q>>].deleting)
  <2>1. PICK m \in Svc \X Request : m = <<x, q>>
    OBVIOUS
  <2>2. alloc[m].live /\ (alloc[m].deleting => alloc'[m].deleting)
    BY <1>2, <1>3, <1>8, <2>1
  <2> QED
    BY <2>1, <2>2
<1> QED
  BY <1>3, <1>4, <1>5, <1>6, <1>7, <1>8, AsideKeeps

LEMMA WatchesKeep ==
  ASSUME TypeOK, ServiceInv, NEW s \in Svc, SeeService(s) \/ SeeAllocs(s) \/ SeeEndpoints(s)
  PROVE  ServiceInv'
<1>1. UNCHANGED <<svc, rec, router, slipped, early, alloc>> /\ queue' = queue \cup {s}
  BY DEF SeeService, SeeAllocs, SeeEndpoints, WatchAllocs
<1>2. /\ \A x \in Svc : log[x] # << >> => log'[x] # << >> \/ x = s
      /\ \A n \in allocNews : n \in allocNews' \/ n[1] = s
      /\ \A x \in Svc : cachedEps'[x] = cachedEps[x] \/ x = s
  BY DEF SeeService, SeeAllocs, SeeEndpoints, TypeOK
<1>3. StreamInv'
  <2>1. SeeService(s) \/ UNCHANGED <<svc, cache, log>>
    BY DEF SeeAllocs, SeeEndpoints
  <2> QED
    BY <2>1, SeeStream, StreamSame DEF ServiceInv, CacheInv
<1>4. AllocsShown'
  <2>1. CASE SeeAllocs(s)
    BY <2>1 DEF AllocsShown, ServiceInv, CacheInv, Exists, SeeAllocs
  <2>2. CASE UNCHANGED <<alloc, cachedAllocs, allocNews>>
    BY <2>2 DEF AllocsShown, ServiceInv, CacheInv, Exists
  <2> QED
    BY <2>1, <2>2 DEF SeeService, SeeEndpoints
<1>5. ASSUME NEW x \in Svc
      PROVE  /\ Attended(x) => Attended(x)'
             /\ Awaited(x) => Awaited(x)'
             /\ AllocsOf(x)' = AllocsOf(x)
             /\ cachedEps'[x] = cachedEps[x] \/ Awaited(x)'
  <2>1. x = s => Attended(x)'
    BY <1>1 DEF Attended
  <2>2. Attended(x) => Attended(x)'
    BY <1>1, <1>2, <2>1 DEF Attended
  <2>3. Awaited(x) => Awaited(x)'
    BY <1>2, <2>1, <2>2 DEF Awaited
  <2>4. AllocsOf(x)' = AllocsOf(x)
    BY <1>1 DEF AllocsOf
  <2>5. cachedEps'[x] = cachedEps[x] \/ Awaited(x)'
    BY <1>2, <2>1 DEF Awaited
  <2> QED
    BY <2>2, <2>3, <2>4, <2>5
<1> QED
  BY <1>1, <1>3, <1>4, <1>5, AsideKeeps

LEMMA CrashKeeps == ASSUME TypeOK, ServiceInv, Crash PROVE ServiceInv'
<1>1. /\ svc' = svc /\ cache' = svc /\ alloc' = alloc /\ router' = router /\ early' = early
      /\ rec' = NoRec /\ queue' = Svc
      /\ cachedAllocs' = {n \in Svc \X Request : Exists(n)}
      /\ log' = [s \in Svc |-> << >>]
  BY DEF Crash
<1>2. \A s \in Svc : log'[s] = << >> /\ Position(s)' = {}
  BY <1>1 DEF Position
<1>3. StreamInv'
  BY <1>1, <1>2 DEF StreamInv, StreamShown, FinalizerIsOurs, DeletionWaits, ServiceInv, CacheInv
<1>4. AllocsShown'
  BY <1>1 DEF AllocsShown, Exists
<1>5. WorkInv'
  BY <1>1 DEF WorkInv, Works
<1>6. \A s \in Svc : Guarded(s)'
  BY <1>1 DEF Guarded, AllocsOf, ServiceInv, RestInv
<1>7. \A s \in Svc : Awaited(s)'
  BY <1>1 DEF Awaited, Attended
<1> QED
  BY <1>3, <1>4, <1>5, <1>6, <1>7 DEF ServiceInv, CacheInv, RestInv

-----------------------------------------------------------------------------
(***************************************************************************)
(* Steps of the worker.  They concern one Service; the others keep what    *)
(* they have.                                                              *)
(***************************************************************************)
KeptFor(x) ==
  /\ svc'[x] = svc[x] /\ router'[x] = router[x] /\ AllocsOf(x)' = AllocsOf(x)
  /\ cachedEps'[x] = cachedEps[x]
  /\ x \in slipped' <=> x \in slipped
  /\ x \in early' <=> x \in early
  /\ Awaited(x) => Awaited(x)'

WorkerStep(s) ==
  /\ rec = NoRec \/ rec.svc = s
  /\ rec' = NoRec \/ rec'.svc = s
  /\ \A x \in Svc \ {s} : KeptFor(x)

LEMMA WorkerKeeps ==
  ASSUME ServiceInv, NEW s \in Svc, WorkerStep(s), CacheInv',
         Works(s)' => (ReadInv(s) /\ AddressInv(s) /\ GuardInv(s))',
         Guarded(s)', (Awaited(s) \/ Works(s) \/ Settled(s))'
  PROVE  ServiceInv'
<1>1. \A x \in Svc \ {s} : ~Works(x) /\ ~Works(x)'
  BY DEF Works, WorkerStep
<1>2. WorkInv'
  BY <1>1 DEF WorkInv
<1>3. ASSUME NEW x \in Svc \ {s} PROVE (Guarded(x) /\ (Awaited(x) \/ Works(x) \/ Settled(x)))'
  <2>1. KeptFor(x)
    BY DEF WorkerStep
  <2>2. Guarded(x) /\ (Awaited(x) \/ Settled(x))
    BY <1>1 DEF ServiceInv, RestInv
  <2>3. Guarded(x)'
    BY <2>1, <2>2 DEF Guarded, KeptFor
  <2>4. Settled(x) => Settled(x)'
    BY <2>1 DEF Settled, KeptFor
  <2> QED
    BY <2>1, <2>2, <2>3, <2>4 DEF KeptFor
<1>4. RestInv'
  BY <1>3 DEF RestInv
<1> QED
  BY <1>2, <1>4 DEF ServiceInv

\* The reconciliation is repeated.
LEMMA RetryKeeps ==
  ASSUME ServiceInv, NEW s \in Svc, Works(s), WorkerStep(s), CacheInv', Failed, Guarded(s)'
  PROVE  ServiceInv'
<1>1. ~Works(s)'
  BY DEF Failed, Works
<1>2. Awaited(s)'
  BY DEF Failed, Works, Awaited, Attended
<1> QED
  BY <1>1, <1>2, WorkerKeeps

LEMMA BranchCases ==
  ASSUME NEW o \in Object
  PROVE  /\ Branch(o) \in {"idle", "finalize", "cleanRouter", "allocs"}
         /\ Branch(o) = "idle" => ~o.live \/ (~o.fin /\ (~Managed(o.cfg) \/ o.deleting))
         /\ Branch(o) = "finalize" => ~o.fin
         /\ Branch(o) = "cleanRouter" => Finalized(o)
         /\ Branch(o) = "allocs" => Finalized(o) /\ ~o.deleting /\ Managed(o.cfg)
  BY DEF Branch, Finalized

LEMMA StartKeeps ==
  ASSUME TypeOK, ServiceInv, NEW s \in Svc, Start(s)
  PROVE  ServiceInv'
<1>1. /\ rec = NoRec /\ rec' = Reconciling(s, cache[s])
      /\ UNCHANGED <<svc, alloc, cache, log, cachedAllocs, allocNews, cachedEps, router, slipped>>
      /\ queue' = queue \ {s}
  BY DEF Start, informers
<1>2. /\ \A x \in Svc \ {s} : x \in early' <=> x \in early
      /\ s \notin early' => s \notin early /\ OwnWritesSeen(s)
  BY DEF Start
<1>3. CacheInv'
  <2>1. StreamInv'
    BY <1>1, StreamSame DEF ServiceInv, CacheInv
  <2>2. AllocsShown'
    BY <1>1 DEF AllocsShown, Exists, ServiceInv, CacheInv
  <2> QED
    BY <2>1, <2>2 DEF CacheInv
<1>4. WorkerStep(s)
  <2>1. \A x \in Svc \ {s} : KeptFor(x)
    BY <1>1, <1>2 DEF KeptFor, AllocsOf, Awaited, Attended
  <2>2. rec' = NoRec \/ rec'.svc = s
    BY <1>1 DEF Reconciling
  <2> QED
    BY <1>1, <2>1, <2>2 DEF WorkerStep
<1>5. AllocsOf(s)' = AllocsOf(s)
  BY <1>1 DEF AllocsOf
<1>6. Guarded(s)'
  BY <1>1, <1>2, <1>5 DEF Guarded, ServiceInv, RestInv
<1>7. cache[s] \in Object /\ svc[s] \in Object
  BY DEF TypeOK
<1>8. Attended(s)' \/ cache[s] = svc[s]
  BY <1>1 DEF Attended, StreamShown, StreamInv, ServiceInv, CacheInv
<1>9. CASE Branch(cache[s]) = "idle"
  <2>1. ~Works(s)'
    BY <1>1, <1>9 DEF Reconciling, Works
  <2>2. ASSUME ~Attended(s)' PROVE Settled(s)'
    <3>1. ~svc[s].live \/ (~svc[s].fin /\ (~Managed(svc[s].cfg) \/ svc[s].deleting))
      BY <1>7, <1>8, <1>9, <2>2, BranchCases
    <3>2. (svc[s].deleting => svc[s].fin) /\ (svc[s].fin => svc[s].live)
      BY DEF ServiceInv, CacheInv, StreamInv, DeletionWaits
    <3>3. CleanedUp(svc[s]) /\ \A A, rules, t : Exact(svc[s], A, rules, t)
      BY <3>1, <3>2 DEF CleanedUp, Exact
    <3>4. s \notin early' => RoutesGranted(AllocsOf(s), router[s])
      <4>1. s \notin early' => router[s] = NoRules
        BY <1>2, <3>1, <3>2 DEF ServiceInv, RestInv, Guarded, Finalized, Clean
      <4> QED
        BY <4>1 DEF RoutesGranted, NoRules
    <3> QED
      BY <1>1, <1>5, <3>3, <3>4 DEF Settled
  <2> QED
    BY <1>3, <1>4, <1>6, <2>1, <2>2, WorkerKeeps DEF Awaited
<1>10. CASE Branch(cache[s]) # "idle"
  <2>1. PICK o : o = cache[s]
    OBVIOUS
  <2>2. PICK r : r = rec'
    OBVIOUS
  <2>3. /\ r.phase = Branch(o) /\ r.svc = s /\ r.obj = o
        /\ r.list = {q \in Request : Branch(o) = "cleanRouter" /\ <<s, q>> \in cachedAllocs}
    BY <1>1, <1>10, <2>1, <2>2 DEF Reconciling
  <2>4. Works(s)'
    BY <1>10, <2>1, <2>2, <2>3 DEF Works, NoRec
  <2>5. r.phase \in {"finalize", "cleanRouter", "allocs"}
    BY <1>7, <1>10, <2>1, <2>3, BranchCases
  <2>6. ReadInv(s)'
    BY <1>1, <1>7, <1>8, <2>1, <2>2, <2>3, <2>5, BranchCases DEF ReadInv, Cleaning, Granting
  <2>7. AddressInv(s)'
    BY <2>2, <2>5 DEF AddressInv
  <2>8. ASSUME s \notin early', r.phase = "cleanRouter", NEW q \in Request, AllocsOf(s)'[q].live
        PROVE  q \in r.list
    <3>1. Exists(<<s, q>>)
      BY <1>5, <2>8, AllocOf DEF Exists
    <3>2. <<s, q>> \in cachedAllocs
      <4>1. PICK n \in Svc \X Request : n = <<s, q>>
        OBVIOUS
      <4>2. n \in cachedAllocs \/ n \in allocNews
        BY <3>1, <4>1 DEF ServiceInv, CacheInv, AllocsShown
      <4> QED
        BY <1>2, <2>8, <3>1, <4>1, <4>2 DEF OwnWritesSeen
    <3> QED
      BY <2>3, <2>8, <3>2
  <2>9. ASSUME s \notin early', r.phase = "allocs" PROVE Finalized(svc[s])
    <3>1. Finalized(cache[s])
      BY <1>7, <2>1, <2>3, <2>9, BranchCases
    <3>2. \A k \in Position(s) : ~log[s][k].own
      BY <1>2, <2>9 DEF OwnWritesSeen, Position
    <3> QED
      BY <3>1, <3>2 DEF ServiceInv, CacheInv, StreamInv, FinalizerIsOurs
  <2>10. GuardInv(s)'
    BY <1>1, <2>2, <2>5, <2>8, <2>9 DEF GuardInv, Granting
  <2> QED
    BY <1>3, <1>4, <1>6, <2>4, <2>6, <2>7, <2>10, WorkerKeeps
<1> QED
  BY <1>9, <1>10

-----------------------------------------------------------------------------
(***************************************************************************)
(* The patches.  What they change is on its way to the cache.              *)
(***************************************************************************)
PatchedAs(s, o, phase) ==
  /\ WorkerStep(s) /\ CacheInv' /\ AllocsOf(s)' = AllocsOf(s)
  /\ Attended(s) => Attended(s)'
  /\ Awaited(s) => Awaited(s)'
  /\ svc'[s] = svc[s] \/ (svc[s].live /\ svc'[s] = o /\ Attended(s)')
  /\ \/ Failed
     \/ /\ svc[s].live /\ svc'[s] = o
        /\ \/ phase = "idle" /\ Done
           \/ phase # "idle" /\ Proceed(phase)

Aside == UNCHANGED <<alloc, eps, cache, cachedAllocs, allocNews, cachedEps, router, slipped, early, ops>>

LEMMA ProceedFields ==
  ASSUME TypeOK, rec.phase # "idle", NEW phase \in Phases, Proceed(phase)
  PROVE  /\ rec' # NoRec /\ rec'.phase = phase /\ rec'.svc = rec.svc /\ rec'.obj = rec.obj
         /\ rec'.addrs = rec.addrs /\ rec'.list = rec.list
<1>1. rec \in Reconciliation
  BY RecTypes
<1>2. /\ rec'.phase = phase /\ rec'.svc = rec.svc /\ rec'.obj = rec.obj
      /\ rec'.addrs = rec.addrs /\ rec'.list = rec.list
  BY <1>1 DEF Proceed, Reconciliation
<1> QED
  BY <1>2 DEF NoRec, Phases

LEMMA PatchKeeps ==
  ASSUME TypeOK, TypeOK', ServiceInv, NEW s \in Svc, Works(s), NEW o \in Object,
         NEW phase \in Phases \cup {"idle"}, PatchTo(o, phase), Aside,
         svc[s].live => (o.deleting => o.fin) /\ (o.fin => o.live)
  PROVE  PatchedAs(s, o, phase)
<1>1. rec # NoRec /\ rec.svc = s /\ rec.phase # "idle"
  BY BusyTypes DEF Works
<1>2. UNCHANGED <<alloc, cache, cachedAllocs, allocNews, cachedEps, router, slipped, early>>
  BY DEF Aside
<1>3. \/ svc[s].live /\ Store(s, o, TRUE)
      \/ UNCHANGED <<svc, log>> /\ Failed
  BY <1>1, PatchCases
<1>4. /\ StreamInv' /\ Announced
      /\ \A x \in Svc \ {s} : svc'[x] = svc[x] /\ log'[x] = log[x]
      /\ svc'[s] = svc[s] \/ (svc[s].live /\ svc'[s] = o)
      /\ (svc[s].live /\ svc'[s] = o) \/ Failed
  <2>1. CASE svc[s].live /\ Store(s, o, TRUE)
    <3>1. Written(s, o, TRUE)
      BY <2>1, StoreWrites
    <3>2. StreamInv' /\ Announced
      BY <1>2, <2>1, <3>1, WriteStream DEF ServiceInv, CacheInv
    <3> QED
      BY <2>1, <3>1, <3>2 DEF Written
  <2>2. CASE UNCHANGED <<svc, log>> /\ Failed
    <3>1. StreamInv' /\ Announced
      BY <1>2, <2>2, StreamSame DEF ServiceInv, CacheInv
    <3> QED
      BY <2>2, <3>1
  <2> QED
    BY <1>3, <2>1, <2>2
<1>5. AllocsShown'
  BY <1>2 DEF AllocsShown, Exists, ServiceInv, CacheInv
<1>6. /\ Failed \/ (phase = "idle" /\ Done) \/ (phase # "idle" /\ Proceed(phase))
      /\ rec' = NoRec \/ rec'.svc = s
      /\ \A x \in queue : x \in queue'
  <2>1. Failed \/ (phase = "idle" /\ Done) \/ (phase # "idle" /\ Proceed(phase))
    BY PatchCases
  <2> QED
    BY <1>1, <2>1, ProceedFields DEF Failed, Done, Proceed
<1>7. \A x \in Svc : (Attended(x) => Attended(x)') /\ (Awaited(x) => Awaited(x)')
  BY <1>2, <1>4, <1>6 DEF Attended, Awaited, Announced
<1>8. \A x : AllocsOf(x)' = AllocsOf(x)
  BY <1>2 DEF AllocsOf
<1>9. WorkerStep(s)
  BY <1>1, <1>2, <1>4, <1>6, <1>7, <1>8 DEF WorkerStep, KeptFor
<1>10. svc'[s] = svc[s] \/ Attended(s)'
  BY <1>4 DEF Announced, Attended
<1>11. Failed \/ (svc[s].live /\ svc'[s] = o /\ (\/ phase = "idle" /\ Done
                                                 \/ phase # "idle" /\ Proceed(phase)))
  <2>1. CASE svc[s].live /\ svc'[s] = o
    BY <1>6, <2>1
  <2> QED
    BY <1>4, <2>1
<1> QED
  BY <1>4, <1>5, <1>7, <1>8, <1>9, <1>10, <1>11 DEF PatchedAs, CacheInv

\* A reconciliation that ends while its Service is attended to.
LEMMA EndKeeps ==
  ASSUME ServiceInv, NEW s \in Svc, WorkerStep(s), CacheInv', Done, Attended(s)', Guarded(s)'
  PROVE  ServiceInv'
  BY WorkerKeeps DEF Done, Works, Awaited

LEMMA FinalizeKeeps == ASSUME TypeOK, TypeOK', ServiceInv, Finalize PROVE ServiceInv'
<1>1. rec.phase = "finalize" /\ rec # NoRec
  BY RecTypes DEF Finalize
<1>2. PICK s \in Svc : s = rec.svc
  BY <1>1, RecTypes
<1>3. Works(s) /\ svc[s] \in Object
  BY <1>1, <1>2 DEF Works, TypeOK
<1>4. PICK o : o = [svc[s] EXCEPT !.fin = TRUE]
  OBVIOUS
<1>5. o \in Object /\ o.fin /\ o.live = svc[s].live
  BY <1>3, <1>4 DEF Object
<1>6. PatchTo(o, "idle") /\ Aside
  BY <1>2, <1>4 DEF Finalize, Aside
<1>7. PatchedAs(s, o, "idle")
  BY <1>3, <1>5, <1>6, PatchKeeps
<1>8. Guarded(s)'
  <2>1. Finalized(svc[s]) => Finalized(svc'[s])
    BY <1>5, <1>7 DEF PatchedAs, Finalized
  <2> QED
    BY <1>6, <1>7, <2>1 DEF Guarded, ServiceInv, RestInv, PatchedAs, Aside
<1>9. CASE Failed
  BY <1>3, <1>7, <1>8, <1>9, RetryKeeps DEF PatchedAs
<1>10. CASE svc'[s] = o /\ Done
  <2>1. ReadInv(s)
    BY <1>3 DEF ServiceInv, WorkInv
  <2>2. Attended(s)'
    BY <1>1, <1>5, <1>7, <1>10, <2>1 DEF ReadInv, PatchedAs
  <2> QED
    BY <1>7, <1>8, <1>10, <2>2, EndKeeps DEF PatchedAs
<1> QED
  BY <1>7, <1>9, <1>10 DEF PatchedAs

LEMMA RemoveFinalizerKeeps ==
  ASSUME TypeOK, TypeOK', ServiceInv, RemoveFinalizer PROVE ServiceInv'
<1>1. rec.phase = "unfinalize" /\ rec # NoRec /\ rec.phase # "idle"
  BY RecTypes DEF RemoveFinalizer
<1>2. PICK s \in Svc : s = rec.svc
  BY <1>1, RecTypes
<1>3. Works(s) /\ svc[s] \in Object
  BY <1>1, <1>2 DEF Works, TypeOK
<1>4. PICK o : o = Unfinalized(svc[s])
  OBVIOUS
<1>5. o \in Object /\ ~o.fin /\ ~o.deleting
  <2>1. CASE svc[s].deleting
    BY <1>3, <1>4, <2>1, RemovedType DEF Unfinalized
  <2>2. CASE ~svc[s].deleting
    BY <1>3, <1>4, <2>2 DEF Unfinalized, Object
  <2> QED
    BY <2>1, <2>2
<1>6. PICK phase : phase = IF rec.obj.deleting THEN "idle" ELSE "clearIngress"
  OBVIOUS
<1>7. phase \in {"idle", "clearIngress"} /\ "clearIngress" \in Phases
  BY <1>6 DEF Phases
<1>8. PatchTo(o, phase) /\ Aside
  BY <1>2, <1>4, <1>6 DEF RemoveFinalizer, Aside
<1>9. PatchedAs(s, o, phase)
  BY <1>3, <1>5, <1>7, <1>8, PatchKeeps
<1>10. ReadInv(s) /\ GuardInv(s)
  BY <1>3 DEF ServiceInv, WorkInv
<1>11. Guarded(s)'
  BY <1>1, <1>8, <1>9, <1>10 DEF Guarded, GuardInv, PatchedAs, Aside
<1>12. CASE Failed
  BY <1>3, <1>9, <1>11, <1>12, RetryKeeps DEF PatchedAs
<1>13. CASE svc'[s] = o /\ ~Failed
  <2>1. Attended(s)'
    <3>1. Attended(s) \/ Finalized(svc[s])
      BY <1>1, <1>10 DEF ReadInv, Cleaning
    <3> QED
      BY <1>5, <1>9, <1>13, <3>1 DEF PatchedAs, Finalized
  <2>2. CASE phase = "idle"
    BY <1>9, <1>11, <1>13, <2>1, <2>2, EndKeeps DEF PatchedAs
  <2>3. CASE phase = "clearIngress"
    <3>1. Proceed("clearIngress")
      BY <1>9, <1>13, <2>3 DEF PatchedAs
    <3>2. rec' # NoRec /\ rec'.phase = "clearIngress" /\ rec'.svc = s
      BY <1>1, <1>2, <1>7, <3>1, ProceedFields
    <3>3. Works(s)' /\ (ReadInv(s) /\ AddressInv(s) /\ GuardInv(s))'
      BY <2>1, <3>2 DEF Works, ReadInv, AddressInv, GuardInv, Cleaning, Granting
    <3> QED
      BY <1>9, <1>11, <3>3, WorkerKeeps DEF PatchedAs
  <2> QED
    BY <1>7, <2>2, <2>3
<1> QED
  BY <1>9, <1>12, <1>13 DEF PatchedAs

LEMMA ClearIngressKeeps ==
  ASSUME TypeOK, TypeOK', ServiceInv, ClearIngress PROVE ServiceInv'
<1>1. rec.phase = "clearIngress" /\ rec # NoRec /\ Aside
  BY RecTypes DEF ClearIngress, Aside
<1>2. PICK s \in Svc : s = rec.svc
  BY <1>1, RecTypes
<1>3. Works(s) /\ svc[s] \in Object
  BY <1>1, <1>2 DEF Works, TypeOK
<1>4. CASE rec.same
  <2>1. PICK o : o = IF rec.obj.ingress = {} THEN svc[s] ELSE [svc[s] EXCEPT !.ingress = {}]
    OBVIOUS
  <2>2. o \in Object /\ o.fin = svc[s].fin /\ o.live = svc[s].live /\ o.deleting = svc[s].deleting
    <3>1. \A i \in SUBSET Address :
            LET u == [svc[s] EXCEPT !.ingress = i]
            IN  u \in Object /\ u.fin = svc[s].fin /\ u.live = svc[s].live /\ u.deleting = svc[s].deleting
      BY <1>3 DEF Object
    <3> QED
      BY <1>3, <2>1, <3>1
  <2>3. PatchTo(o, "idle")
    BY <1>2, <1>4, <2>1 DEF ClearIngress
  <2>4. (svc[s].deleting => svc[s].fin) /\ (svc[s].fin => svc[s].live)
    BY DEF ServiceInv, CacheInv, StreamInv, DeletionWaits
  <2>5. PatchedAs(s, o, "idle")
    BY <1>1, <1>3, <2>2, <2>3, <2>4, PatchKeeps
  <2>6. Guarded(s)'
    <3>1. Finalized(svc[s]) => Finalized(svc'[s])
      BY <2>2, <2>5 DEF PatchedAs, Finalized
    <3> QED
      BY <1>1, <2>5, <3>1 DEF Guarded, ServiceInv, RestInv, PatchedAs, Aside
  <2>7. CASE Failed
    BY <1>3, <2>5, <2>6, <2>7, RetryKeeps DEF PatchedAs
  <2>8. CASE Done
    <3>1. Attended(s)
      BY <1>1, <1>3 DEF ServiceInv, WorkInv, ReadInv
    <3>2. Attended(s)'
      BY <2>5, <3>1 DEF PatchedAs
    <3> QED
      BY <2>5, <2>6, <2>8, <3>2, EndKeeps DEF PatchedAs
  <2> QED
    BY <2>5, <2>7, <2>8 DEF PatchedAs
<1>5. CASE ~rec.same
  <2>1. Failed /\ UNCHANGED <<svc, log>>
    BY <1>5 DEF ClearIngress
  <2>2. UNCHANGED <<alloc, cache, cachedAllocs, allocNews, cachedEps, router, slipped, early>>
    BY <1>1 DEF Aside
  <2>3. StreamInv'
    BY <2>1, <2>2, StreamSame DEF ServiceInv, CacheInv
  <2>4. AllocsShown'
    BY <2>2 DEF AllocsShown, Exists, ServiceInv, CacheInv
  <2>5. \A x : AllocsOf(x)' = AllocsOf(x)
    BY <2>2 DEF AllocsOf
  <2>6. WorkerStep(s)
    BY <1>2, <2>1, <2>2, <2>5 DEF WorkerStep, KeptFor, Failed, Awaited, Attended
  <2>7. Guarded(s)'
    BY <2>1, <2>2, <2>5 DEF Guarded, ServiceInv, RestInv
  <2> QED
    BY <1>3, <2>1, <2>3, <2>4, <2>6, <2>7, RetryKeeps DEF CacheInv
<1> QED
  BY <1>4, <1>5

LEMMA PatchStatusKeeps ==
  ASSUME TypeOK, TypeOK', ServiceInv, PatchStatus PROVE ServiceInv'
<1>1. rec.phase = "status" /\ rec # NoRec /\ rec.phase # "idle" /\ Aside
  BY RecTypes DEF PatchStatus, Aside
<1>2. PICK s \in Svc : s = rec.svc
  BY <1>1, RecTypes
<1>3. Works(s) /\ svc[s] \in Object /\ rec.obj \in Object /\ rec.addrs \subseteq Address
  BY <1>1, <1>2, RecTypes DEF Works, TypeOK
<1>4. PICK i \in SUBSET Address : i = LBIPs(rec.obj.cfg, rec.addrs)
  BY <1>3 DEF LBIPs
<1>5. PICK o : o = IF i = rec.obj.ingress THEN svc[s] ELSE [svc[s] EXCEPT !.ingress = i]
  OBVIOUS
<1>6. /\ o \in Object /\ o.fin = svc[s].fin /\ o.live = svc[s].live /\ o.deleting = svc[s].deleting
      /\ i = rec.obj.ingress \/ o.ingress = i
  <2>1. LET u == [svc[s] EXCEPT !.ingress = i]
        IN  /\ u \in Object /\ u.fin = svc[s].fin /\ u.live = svc[s].live
            /\ u.deleting = svc[s].deleting /\ u.ingress = i
    BY <1>3 DEF Object
  <2> QED
    BY <1>3, <1>5, <2>1
<1>7. PatchTo(o, "ensure") /\ "ensure" \in Phases
  BY <1>2, <1>4, <1>5 DEF PatchStatus, IngressFor, Phases
<1>8. (svc[s].deleting => svc[s].fin) /\ (svc[s].fin => svc[s].live)
  BY DEF ServiceInv, CacheInv, StreamInv, DeletionWaits
<1>9. PatchedAs(s, o, "ensure")
  BY <1>1, <1>3, <1>6, <1>7, <1>8, PatchKeeps
<1>10. Finalized(svc[s]) => Finalized(svc'[s])
  BY <1>6, <1>9 DEF PatchedAs, Finalized
<1>11. Guarded(s)'
  BY <1>1, <1>9, <1>10 DEF Guarded, ServiceInv, RestInv, PatchedAs, Aside
<1>12. CASE Failed
  BY <1>3, <1>9, <1>11, <1>12, RetryKeeps DEF PatchedAs
<1>13. CASE svc'[s] = o /\ Proceed("ensure")
  <2>1. /\ rec' # NoRec /\ rec'.phase = "ensure" /\ rec'.svc = s
        /\ rec'.obj = rec.obj /\ rec'.addrs = rec.addrs
    BY <1>1, <1>2, <1>7, <1>13, ProceedFields
  <2>2. ReadInv(s) /\ AddressInv(s) /\ GuardInv(s)
    BY <1>3 DEF ServiceInv, WorkInv
  <2>3. Attended(s)' \/ (svc'[s] = svc[s] /\ svc[s] = rec.obj)
    BY <1>1, <1>9, <2>2 DEF ReadInv, Granting, PatchedAs
  <2>4. ReadInv(s)'
    BY <1>1, <2>1, <2>2, <2>3 DEF ReadInv, Cleaning, Granting
  <2>5. Awaited(s)' \/ AddressesKnown(s, AllocsOf(s))'
    <3>1. Awaited(s) \/ AddressesKnown(s, AllocsOf(s))
      BY <1>1, <2>2 DEF AddressInv
    <3>2. AddressesKnown(s, AllocsOf(s)) => AddressesKnown(s, AllocsOf(s))'
      BY <1>1, <1>9, <2>1 DEF AddressesKnown, PatchedAs, Aside
    <3> QED
      BY <1>9, <3>1, <3>2 DEF PatchedAs
  <2>6. Attended(s)' \/ rec.obj.ingress = i
    BY <1>6, <1>13, <2>3
  <2>7. AddressInv(s)'
    BY <1>4, <2>1, <2>5, <2>6 DEF AddressInv
  <2>8. GuardInv(s)'
    BY <1>1, <1>10, <2>1, <2>2 DEF GuardInv, Granting, Aside
  <2>9. Works(s)'
    BY <2>1 DEF Works
  <2> QED
    BY <1>9, <1>11, <2>4, <2>7, <2>8, <2>9, WorkerKeeps DEF PatchedAs
<1> QED
  BY <1>9, <1>12, <1>13 DEF PatchedAs

-----------------------------------------------------------------------------
(***************************************************************************)
(* The steps that change rules of the router or allocations.               *)
(***************************************************************************)
\* Of a step of the worker that leaves the Services alone.
LEMMA WorkSteps ==
  ASSUME TypeOK, ServiceInv, NEW s \in Svc, Works(s),
         UNCHANGED <<svc, cache, log, cachedEps, cachedAllocs, early>>,
         \A x \in Svc \ {s} : router'[x] = router[x] /\ (x \in slipped' <=> x \in slipped),
         \A n \in Svc \X Request : n[1] # s => alloc'[n] = alloc[n],
         \A n \in Svc \X Request : alloc'[n] # alloc[n] => n \in allocNews',
         allocNews \subseteq allocNews',
         Failed \/ queue' = queue,
         rec' = NoRec \/ rec'.svc = s
  PROVE  /\ WorkerStep(s) /\ CacheInv'
         /\ Attended(s) => Attended(s)'
         /\ Awaited(s) => Awaited(s)'
         /\ AllocsOf(s)' = AllocsOf(s) \/ Awaited(s)'
<1>1. \A x \in queue : x \in queue'
  BY DEF Failed
<1>2. \A x \in Svc : (Attended(x) => Attended(x)') /\ (Awaited(x) => Awaited(x)')
  BY <1>1 DEF Attended, Awaited
<1>3. ASSUME NEW x \in Svc \ {s} PROVE AllocsOf(x)' = AllocsOf(x)
  <2>1. \A q \in Request : alloc'[<<x, q>>] = alloc[<<x, q>>]
    OBVIOUS
  <2> QED
    BY <2>1 DEF AllocsOf
<1>4. WorkerStep(s)
  BY <1>2, <1>3 DEF WorkerStep, KeptFor, Works
<1>5. StreamInv'
  BY StreamSame DEF ServiceInv, CacheInv
<1>6. AllocsShown'
  BY DEF AllocsShown, Exists, ServiceInv, CacheInv
<1>7. AllocsOf(s)' = AllocsOf(s) \/ Awaited(s)'
  <2>1. CASE \E q \in Request : alloc'[<<s, q>>] # alloc[<<s, q>>]
    <3>1. PICK q \in Request : alloc'[<<s, q>>] # alloc[<<s, q>>]
      BY <2>1
    <3>2. <<s, q>> \in allocNews'
      BY <3>1
    <3> QED
      BY <3>2 DEF Awaited
  <2>2. CASE \A q \in Request : alloc'[<<s, q>>] = alloc[<<s, q>>]
    BY <2>2 DEF AllocsOf
  <2> QED
    BY <2>1, <2>2
<1> QED
  BY <1>2, <1>4, <1>5, <1>6, <1>7 DEF CacheInv

LEMMA ListFailsKeeps == ASSUME TypeOK, ServiceInv, ListFails PROVE ServiceInv'
<1>1. /\ rec.phase = "allocs" /\ rec # NoRec /\ Failed
      /\ UNCHANGED <<svc, alloc, cache, log, cachedAllocs, allocNews, cachedEps, router, slipped, early>>
  BY RecTypes DEF ListFails, informers
<1>2. PICK s \in Svc : s = rec.svc
  BY <1>1, RecTypes
<1>3. Works(s)
  BY <1>1, <1>2 DEF Works
<1>4. rec' = NoRec
  BY <1>1 DEF Failed
<1>5. WorkerStep(s) /\ CacheInv'
  BY <1>1, <1>3, <1>4, WorkSteps
<1>6. Guarded(s)'
  BY <1>1 DEF Guarded, ServiceInv, RestInv, AllocsOf
<1> QED
  BY <1>1, <1>3, <1>5, <1>6, RetryKeeps

LEMMA CleanRouterKeeps == ASSUME TypeOK, ServiceInv, CleanRouter PROVE ServiceInv'
<1>1. /\ rec.phase = "cleanRouter" /\ rec # NoRec /\ rec.phase # "idle"
      /\ UNCHANGED <<svc, alloc, cache, log, cachedAllocs, allocNews, cachedEps, slipped, early>>
  BY RecTypes DEF CleanRouter, informers
<1>2. PICK s \in Svc : s = rec.svc
  BY <1>1, RecTypes
<1>3. Works(s) /\ router[s] \in Rules
  BY <1>1, <1>2 DEF Works, TypeOK
<1>4. PICK rules : /\ router' = [router EXCEPT ![s] = rules]
                   /\ rules \in {NoRules, [NoRules EXCEPT !.snat = router[s].snat], router[s]}
                   /\ \/ Failed
                      \/ Proceed("cleanAllocs") /\ rules = NoRules
  BY <1>2 DEF CleanRouter
<1>5. router'[s] = rules /\ \A x \in Svc \ {s} : router'[x] = router[x]
  BY <1>4 DEF TypeOK
<1>6. Proceed("cleanAllocs") =>
        /\ rec' # NoRec /\ rec'.phase = "cleanAllocs" /\ rec'.svc = s
        /\ rec'.obj = rec.obj /\ rec'.list = rec.list
  <2>1. "cleanAllocs" \in Phases
    BY DEF Phases
  <2> QED
    BY <1>1, <1>2, <2>1, ProceedFields
<1>7. WorkerStep(s) /\ CacheInv' /\ (Attended(s) => Attended(s)')
  <2>1. Failed \/ queue' = queue
    BY <1>4 DEF Proceed
  <2>2. rec' = NoRec \/ rec'.svc = s
    BY <1>4, <1>6 DEF Failed
  <2> QED
    BY <1>1, <1>3, <1>5, <2>1, <2>2, WorkSteps
<1>8. AllocsOf(s)' = AllocsOf(s)
  BY <1>1 DEF AllocsOf
<1>9. Guarded(s)'
  <2>1. router[s] = NoRules => rules = NoRules
    <3>1. [NoRules EXCEPT !.snat = NoRules.snat] = NoRules
      BY DEF NoRules
    <3> QED
      BY <1>4, <3>1
  <2> QED
    BY <1>1, <1>5, <1>8, <2>1 DEF Guarded, Clean, ServiceInv, RestInv
<1>10. CASE Failed
  BY <1>3, <1>7, <1>9, <1>10, RetryKeeps
<1>11. CASE Proceed("cleanAllocs") /\ rules = NoRules
  <2>1. ReadInv(s) /\ GuardInv(s)
    BY <1>3 DEF ServiceInv, WorkInv
  <2>2. ReadInv(s)'
    BY <1>1, <1>6, <1>7, <1>11, <2>1 DEF ReadInv, Cleaning, Granting
  <2>3. AddressInv(s)'
    BY <1>6, <1>11 DEF AddressInv
  <2>4. GuardInv(s)'
    BY <1>1, <1>5, <1>6, <1>8, <1>11, <2>1 DEF GuardInv, Granting
  <2>5. Works(s)'
    BY <1>6, <1>11 DEF Works
  <2> QED
    BY <1>7, <1>9, <2>2, <2>3, <2>4, <2>5, WorkerKeeps
<1> QED
  BY <1>4, <1>10, <1>11

LEMMA DeletedAllocs ==
  ASSUME TypeOK, NEW s \in Svc, NEW qs, NEW n \in Svc \X Request
  PROVE  /\ Deleted(s, qs)[n].live = alloc[n].live
         /\ alloc[n].deleting => Deleted(s, qs)[n].deleting
         /\ Deleted(s, qs)[n].granted = alloc[n].granted
         /\ n[1] = s /\ n[2] \in qs /\ alloc[n].live => Deleted(s, qs)[n].deleting
         /\ n[1] # s => Deleted(s, qs)[n] = alloc[n]
<1>1. alloc[n] \in Allocation
  BY DEF TypeOK
<1> QED
  BY <1>1 DEF Deleted, Exists, Allocation

LEMMA CleanAllocsKeeps == ASSUME TypeOK, ServiceInv, CleanAllocs PROVE ServiceInv'
<1>1. /\ rec.phase = "cleanAllocs" /\ rec # NoRec /\ rec.phase # "idle"
      /\ UNCHANGED <<svc, cache, log, cachedAllocs, cachedEps, router, slipped, early>>
      /\ allocNews' = allocNews \cup {n \in Svc \X Request : alloc'[n] # alloc[n]}
  BY RecTypes DEF CleanAllocs
<1>2. PICK s \in Svc : s = rec.svc
  BY <1>1, RecTypes
<1>3. Works(s) /\ ReadInv(s) /\ GuardInv(s)
  BY <1>1, <1>2 DEF Works, ServiceInv, WorkInv
<1>4. PICK failing : /\ alloc' = Deleted(s, rec.list \ failing)
                     /\ Failed \/ (failing = {} /\ Proceed("unfinalize"))
  BY <1>2 DEF CleanAllocs
<1>5. Proceed("unfinalize") =>
        rec' # NoRec /\ rec'.phase = "unfinalize" /\ rec'.svc = s /\ rec'.obj = rec.obj
  <2>1. "unfinalize" \in Phases
    BY DEF Phases
  <2> QED
    BY <1>1, <1>2, <2>1, ProceedFields
<1>6. WorkerStep(s) /\ CacheInv' /\ (Attended(s) => Attended(s)')
  <2>1. Failed \/ queue' = queue
    BY <1>4 DEF Proceed
  <2>2. rec' = NoRec \/ rec'.svc = s
    BY <1>4, <1>5 DEF Failed
  <2>3. \A n \in Svc \X Request : n[1] # s => alloc'[n] = alloc[n]
    BY <1>4, DeletedAllocs
  <2>4. /\ \A n \in Svc \X Request : alloc'[n] # alloc[n] => n \in allocNews'
        /\ allocNews \subseteq allocNews'
    BY <1>1
  <2> QED
    BY <1>1, <1>3, <2>1, <2>2, <2>3, <2>4, WorkSteps
<1>7. ASSUME NEW q \in Request, AllocsOf(s)'[q].live
      PROVE  /\ AllocsOf(s)[q].live
             /\ AllocsOf(s)[q].deleting => AllocsOf(s)'[q].deleting
             /\ q \in rec.list \ failing => AllocsOf(s)'[q].deleting
  <2>1. PICK n \in Svc \X Request : n = <<s, q>>
    OBVIOUS
  <2>2. /\ alloc'[n].live = alloc[n].live
        /\ alloc[n].deleting => alloc'[n].deleting
        /\ q \in rec.list \ failing /\ alloc[n].live => alloc'[n].deleting
    BY <1>4, <2>1, DeletedAllocs
  <2> QED
    BY <1>7, <2>1, <2>2, AllocOf
<1>8. Guarded(s)'
  BY <1>1, <1>7 DEF Guarded, Clean, ServiceInv, RestInv
<1>9. CASE Failed
  BY <1>3, <1>6, <1>8, <1>9, RetryKeeps
<1>10. CASE failing = {} /\ Proceed("unfinalize")
  <2>1. ReadInv(s)'
    BY <1>1, <1>3, <1>5, <1>6, <1>10 DEF ReadInv, Cleaning, Granting
  <2>2. AddressInv(s)'
    BY <1>5, <1>10 DEF AddressInv
  <2>3. s \notin early' => Clean(AllocsOf(s), router[s])'
    BY <1>1, <1>3, <1>7, <1>10 DEF Clean, GuardInv
  <2>4. GuardInv(s)'
    BY <1>5, <1>10, <2>3 DEF GuardInv, Granting
  <2>5. Works(s)'
    BY <1>5, <1>10 DEF Works
  <2> QED
    BY <1>6, <1>8, <2>1, <2>2, <2>4, <2>5, WorkerKeeps
<1> QED
  BY <1>4, <1>9, <1>10

LEMMA RequestedType == ASSUME NEW c \in Config PROVE Requested(c) \subseteq Request
<1>1. c.pools \subseteq Pool /\ c.ips \subseteq Address /\ c.snatIPs \subseteq Address /\ c.families \subseteq Family
  BY DEF Config
<1> QED
  BY <1>1 DEF Requested, Request

\* What syncing the allocations does to those of the Service.
LEMMA SyncedAllocs ==
  ASSUME TypeOK, NEW s \in Svc, NEW make, NEW drop, NEW n \in Svc \X Request,
         \A q \in make : ~Exists(<<s, q>>),
         alloc' = [m \in Svc \X Request |->
                     IF m[1] = s /\ m[2] \in make THEN [Missing EXCEPT !.live = TRUE]
                     ELSE Deleted(s, drop)[m]]
  PROVE  /\ n[1] # s => alloc'[n] = alloc[n]
         /\ n[1] = s /\ alloc'[n] = alloc[n] =>
              /\ n[2] \notin make
              /\ n[2] \in drop /\ alloc[n].live => alloc[n].deleting
<1>1. alloc'[n] = IF n[1] = s /\ n[2] \in make THEN [Missing EXCEPT !.live = TRUE]
                  ELSE Deleted(s, drop)[n]
  OBVIOUS
<1>2. [Missing EXCEPT !.live = TRUE].live
  BY DEF Missing
<1>3. n[1] = s /\ n[2] \in make => ~alloc[n].live
  <2>1. n = <<n[1], n[2]>>
    OBVIOUS
  <2> QED
    BY <2>1 DEF Exists
<1>4. n[1] # s => alloc'[n] = alloc[n]
  BY <1>1, DeletedAllocs
<1>5. ASSUME n[1] = s, alloc'[n] = alloc[n]
      PROVE  n[2] \notin make /\ (n[2] \in drop /\ alloc[n].live => alloc[n].deleting)
  <2>1. n[2] \notin make
    BY <1>1, <1>2, <1>3, <1>5
  <2>2. alloc[n] = Deleted(s, drop)[n]
    BY <1>1, <1>5, <2>1
  <2> QED
    BY <1>5, <2>1, <2>2, DeletedAllocs
<1> QED
  BY <1>4, <1>5

SyncedBy(s, expected, found, failing) ==
  /\ alloc' = [n \in Svc \X Request |->
                 IF n[1] = s /\ n[2] \in (expected \ found) \ failing
                 THEN [Missing EXCEPT !.live = TRUE]
                 ELSE Deleted(s, (found \ expected) \ failing)[n]]
  /\ slipped' = IF failing = {} THEN slipped \ {s} ELSE slipped \cup {s}

LEMMA SyncAllocsKeeps == ASSUME TypeOK, ServiceInv, SyncAllocs PROVE ServiceInv'
<1>1. /\ rec.phase = "allocs" /\ rec # NoRec /\ rec.phase # "idle" /\ rec \in Reconciliation
      /\ UNCHANGED <<svc, cache, log, cachedAllocs, cachedEps, router, queue, early>>
      /\ allocNews' = allocNews \cup {n \in Svc \X Request : alloc'[n] # alloc[n]}
  BY RecTypes DEF SyncAllocs
<1>2. PICK s \in Svc : s = rec.svc
  BY <1>1, RecTypes
<1>3. Works(s) /\ ReadInv(s) /\ GuardInv(s)
  BY <1>1, <1>2 DEF Works, ServiceInv, WorkInv
<1>4. PICK expected : expected = Requested(rec.obj.cfg)
  OBVIOUS
<1>5. expected \subseteq Request
  <2>1. rec.obj.cfg \in Config
    BY <1>1, RecTypes, ServiceConfigAssumption DEF Object
  <2> QED
    BY <1>4, <2>1, RequestedType
<1>6. PICK found : found = {q \in Request : Exists(<<s, q>>)}
  OBVIOUS
<1>7. PICK failing : SyncedBy(s, expected, found, failing)
  <2>1. PICK f : f = {q \in Request : Exists(<<rec.svc, q>>)}
    OBVIOUS
  <2>2. \E failing : SyncedBy(rec.svc, Requested(rec.obj.cfg), f, failing)
    BY <2>1 DEF SyncAllocs, SyncedBy
  <2> QED
    BY <1>2, <1>4, <1>6, <2>1, <2>2
<1>8. PICK addrs : addrs = Granted(s, found \cap expected)
  OBVIOUS
<1>9. /\ rec' # NoRec /\ rec'.phase = "status" /\ rec'.svc = s
      /\ rec'.obj = rec.obj /\ rec'.addrs = addrs
  <2>1. rec' = [rec EXCEPT !.phase = "status", !.addrs = addrs]
    BY <1>2, <1>4, <1>6, <1>8 DEF SyncAllocs
  <2>2. /\ rec'.phase = "status" /\ rec'.svc = s
        /\ rec'.obj = rec.obj /\ rec'.addrs = addrs
    BY <1>1, <1>2, <2>1 DEF Reconciliation
  <2> QED
    BY <2>2 DEF NoRec
<1>10. \A n \in Svc \X Request :
         /\ n[1] # s => alloc'[n] = alloc[n]
         /\ n[1] = s /\ alloc'[n] = alloc[n] =>
              /\ n[2] \notin (expected \ found) \ failing
              /\ n[2] \in (found \ expected) \ failing /\ alloc[n].live => alloc[n].deleting
  <2>1. PICK make : make = (expected \ found) \ failing
    OBVIOUS
  <2>2. PICK drop : drop = (found \ expected) \ failing
    OBVIOUS
  <2>3. \A q \in make : ~Exists(<<s, q>>)
    BY <1>5, <1>6, <2>1
  <2>4. alloc' = [m \in Svc \X Request |->
                    IF m[1] = s /\ m[2] \in make THEN [Missing EXCEPT !.live = TRUE]
                    ELSE Deleted(s, drop)[m]]
    BY <1>7, <2>1, <2>2 DEF SyncedBy
  <2>5. \A n \in Svc \X Request :
          /\ n[1] # s => alloc'[n] = alloc[n]
          /\ n[1] = s /\ alloc'[n] = alloc[n] =>
               /\ n[2] \notin make
               /\ n[2] \in drop /\ alloc[n].live => alloc[n].deleting
    BY <2>3, <2>4, SyncedAllocs, ZenonT(40)
  <2> QED
    BY <2>1, <2>2, <2>5
<1>11. /\ WorkerStep(s) /\ CacheInv' /\ (Attended(s) => Attended(s)')
       /\ AllocsOf(s)' = AllocsOf(s) \/ Awaited(s)'
  <2>1. \A x \in Svc \ {s} : x \in slipped' <=> x \in slipped
    BY <1>7 DEF SyncedBy
  <2>2. /\ \A n \in Svc \X Request : alloc'[n] # alloc[n] => n \in allocNews'
        /\ allocNews \subseteq allocNews'
    BY <1>1
  <2> QED
    BY <1>1, <1>3, <1>9, <1>10, <2>1, <2>2, WorkSteps
<1>12. GuardInv(s)' /\ Guarded(s)'
  <2>1. s \notin early' => Finalized(svc'[s])
    BY <1>1, <1>3 DEF GuardInv, Granting
  <2> QED
    BY <1>9, <2>1 DEF GuardInv, Guarded
<1>13. ReadInv(s)'
  BY <1>1, <1>3, <1>9, <1>11 DEF ReadInv, Cleaning, Granting
<1>14. PICK A : A = AllocsOf(s)
  OBVIOUS
<1>15. ASSUME ~Awaited(s)' PROVE AddressesKnown(s, AllocsOf(s))'
  <2>1. AllocsOf(s)' = A
    BY <1>11, <1>14, <1>15
  <2>2. \A q \in Request : A[q] = alloc[<<s, q>>] /\ alloc'[<<s, q>>] = alloc[<<s, q>>]
    BY <1>14, <2>1, AllocOf
  <2>3. \A q \in Request : /\ q \in found <=> A[q].live
                           /\ q \notin (expected \ found) \ failing
                           /\ q \in (found \ expected) \ failing /\ A[q].live => A[q].deleting
    <3>1. ASSUME NEW q \in Request
          PROVE  /\ q \notin (expected \ found) \ failing
                 /\ q \in (found \ expected) \ failing /\ A[q].live => A[q].deleting
      <4>1. PICK n \in Svc \X Request : n = <<s, q>>
        OBVIOUS
      <4>2. n[1] = s /\ n[2] = q /\ alloc'[n] = alloc[n] /\ A[q] = alloc[n]
        BY <2>2, <4>1
      <4> QED
        BY <1>10, <4>2
    <3> QED
      BY <1>6, <2>2, <3>1 DEF Exists
  <2>4. addrs = GrantedIn(A, found \cap expected)
    BY <1>5, <1>8, <2>2 DEF GrantedIn, Granted
  <2>5. \A a \in addrs : \E q \in Request : A[q].granted = a
    BY <1>5, <2>4 DEF GrantedIn
  <2>6. ASSUME s \notin slipped'
        PROVE  RequestsMet(A, rec.obj.cfg) /\ addrs = GrantedIn(A, expected)
    <3>1. failing = {}
      BY <1>7, <2>6 DEF SyncedBy
    <3>2. \A q \in expected : q \in found
      BY <1>5, <2>3, <3>1
    <3>3. \A q \in Request \ expected : A[q].live => A[q].deleting
      BY <2>3, <3>1
    <3>4. found \cap expected = expected
      BY <3>2
    <3>5. RequestsMet(A, rec.obj.cfg)
      BY <1>4, <1>5, <2>3, <3>2, <3>3 DEF RequestsMet
    <3> QED
      BY <2>4, <3>4, <3>5
  <2> QED
    BY <1>4, <1>9, <2>1, <2>5, <2>6 DEF AddressesKnown
<1>16. AddressInv(s)'
  BY <1>9, <1>15 DEF AddressInv
<1>17. Works(s)'
  BY <1>9 DEF Works
<1> QED
  BY <1>11, <1>12, <1>13, <1>16, <1>17, WorkerKeeps

LEMMA EnsureKeeps == ASSUME TypeOK, ServiceInv, EnsureService PROVE ServiceInv'
<1>1. /\ rec.phase = "ensure" /\ rec # NoRec /\ rec.phase # "idle"
      /\ UNCHANGED <<svc, alloc, cache, log, cachedAllocs, allocNews, cachedEps, slipped, early>>
  BY RecTypes DEF EnsureService, informers
<1>2. PICK s \in Svc : s = rec.svc
  BY <1>1, RecTypes
<1>3. Works(s) /\ ReadInv(s) /\ AddressInv(s) /\ GuardInv(s)
  BY <1>1, <1>2 DEF Works, ServiceInv, WorkInv
<1>4. PICK new : new = RulesFor(rec.obj.cfg, rec.addrs, cachedEps[s])
  OBVIOUS
<1>5. PICK rules : /\ router' = [router EXCEPT ![s] = rules]
                   /\ Failed \/ (Done /\ rules = new)
  BY <1>2, <1>4 DEF EnsureService
<1>6. router'[s] = rules /\ \A x \in Svc \ {s} : router'[x] = router[x]
  BY <1>5 DEF TypeOK
<1>7. WorkerStep(s) /\ CacheInv'
  <2>1. Failed \/ queue' = queue
    BY <1>5 DEF Done
  <2>2. rec' = NoRec
    BY <1>5 DEF Failed, Done
  <2> QED
    BY <1>1, <1>3, <1>6, <2>1, <2>2, WorkSteps
<1>8. Guarded(s)'
  BY <1>1, <1>3 DEF Guarded, GuardInv, Granting
<1>9. CASE Failed
  BY <1>3, <1>7, <1>8, <1>9, RetryKeeps
<1>10. CASE Done /\ rules = new
  <2>1. rec' = NoRec /\ queue' = queue
    BY <1>10 DEF Done
  <2>2. Awaited(s) => Awaited(s)'
    BY <1>1, <2>1 DEF Awaited, Attended
  <2>3. ASSUME ~Awaited(s) PROVE Settled(s)'
    <3>1. PICK A : A = AllocsOf(s)
      OBVIOUS
    <3>2. AllocsOf(s)' = A
      BY <1>1, <3>1 DEF AllocsOf
    <3>3. svc[s] = rec.obj /\ ~rec.obj.deleting /\ Managed(rec.obj.cfg)
      BY <1>1, <1>3, <2>3 DEF ReadInv, Granting, Awaited
    <3>4. AddressesKnown(s, A) /\ rec.obj.ingress = LBIPs(rec.obj.cfg, rec.addrs)
      BY <1>1, <1>3, <2>3, <3>1 DEF AddressInv, Awaited
    <3>5. CleanedUp(svc[s])
      BY <3>3 DEF CleanedUp
    <3>6. new.lb \subseteq rec.addrs /\ new.snat \subseteq rec.addrs
      BY <1>4 DEF RulesFor, LBIPs, SNATIPs, ForSNAT
    <3>7. RoutesGranted(A, new)
      BY <3>4, <3>6 DEF RoutesGranted, AddressesKnown
    <3>8. s \notin slipped => Exact(svc[s], A, new, cachedEps[s])
      BY <1>4, <3>3, <3>4 DEF Exact, AddressesKnown
    <3> QED
      BY <1>1, <1>6, <1>10, <3>2, <3>5, <3>7, <3>8 DEF Settled
  <2>4. ~Works(s)'
    BY <2>1 DEF Works
  <2> QED
    BY <1>7, <1>8, <2>2, <2>3, <2>4, WorkerKeeps
<1> QED
  BY <1>5, <1>9, <1>10

-----------------------------------------------------------------------------
LEMMA ServiceInvInit == Init => ServiceInv
<1> SUFFICES ASSUME Init PROVE ServiceInv
  OBVIOUS
<1>1. /\ cache = svc /\ log = [s \in Svc |-> << >>] /\ alloc = [n \in Svc \X Request |-> Missing]
      /\ router = [s \in Svc |-> NoRules] /\ queue = Svc /\ rec = NoRec
      /\ \A s \in Svc : ~svc[s].deleting /\ ~svc[s].fin
  BY DEF Init
<1>2. \A s \in Svc : log[s] = << >> /\ Position(s) = {}
  BY <1>1 DEF Position
<1>3. StreamInv
  BY <1>1, <1>2 DEF StreamInv, StreamShown, FinalizerIsOurs, DeletionWaits, Finalized
<1>4. \A n \in Svc \X Request : ~alloc[n].live
  BY <1>1 DEF Missing
<1>5. AllocsShown
  BY <1>4 DEF AllocsShown, Exists
<1>6. WorkInv
  BY <1>1 DEF WorkInv, Works
<1>7. \A s \in Svc : Guarded(s) /\ Awaited(s)
  BY <1>1, <1>4 DEF Guarded, Clean, Awaited, Attended, AllocsOf
<1> QED
  BY <1>3, <1>5, <1>6, <1>7 DEF ServiceInv, CacheInv, RestInv

LEMMA StutterKeeps == ASSUME TypeOK, ServiceInv, UNCHANGED vars PROVE ServiceInv'
<1>1. /\ UNCHANGED <<svc, rec, router, slipped, early>>
      /\ UNCHANGED <<alloc, cache, log, cachedAllocs, allocNews, cachedEps, queue>>
  BY DEF vars, informers
<1>2. StreamInv'
  BY <1>1, StreamSame DEF ServiceInv, CacheInv
<1>3. AllocsShown'
  BY <1>1 DEF AllocsShown, ServiceInv, CacheInv, Exists
<1>4. \A x \in Svc : /\ Attended(x) => Attended(x)'
                     /\ Awaited(x) => Awaited(x)'
                     /\ AllocsOf(x)' = AllocsOf(x) /\ cachedEps'[x] = cachedEps[x]
  BY <1>1 DEF Attended, Awaited, AllocsOf
<1> QED
  BY <1>1, <1>2, <1>3, <1>4, AsideKeeps

LEMMA ServiceInvStep == TypeOK /\ TypeOK' /\ ServiceInv /\ [Next]_vars => ServiceInv'
<1> SUFFICES ASSUME TypeOK, TypeOK', ServiceInv, [Next]_vars PROVE ServiceInv'
  OBVIOUS
<1>1. CASE UNCHANGED vars
  BY <1>1, StutterKeeps
<1>2. CASE Users
  BY <1>2, UsersKeep, EndpointsKeep DEF Users
<1>3. CASE Watches
  BY <1>3, WatchesKeep DEF Watches
<1>4. CASE AllocationController
  BY <1>4, AllocationsKeep DEF AllocationController
<1>5. CASE \E s \in Svc : Start(s)
  BY <1>5, StartKeeps
<1>6. CASE Finalize \/ RemoveFinalizer \/ ClearIngress \/ PatchStatus
  BY <1>6, FinalizeKeeps, RemoveFinalizerKeeps, ClearIngressKeeps, PatchStatusKeeps
<1>7. CASE CleanRouter \/ CleanAllocs \/ SyncAllocs \/ ListFails \/ EnsureService
  BY <1>7, CleanRouterKeeps, CleanAllocsKeeps, SyncAllocsKeeps, ListFailsKeeps, EnsureKeeps
<1> QED
  BY <1>1, <1>2, <1>3, <1>4, <1>5, <1>6, <1>7, CrashKeeps DEF Next, Reconcile

(***************************************************************************)
(* The inductive invariant of the Service controller: whatever Reconcile,  *)
(* the informers, users and the allocation controller do, and in whatever  *)
(* order, a Service is settled, or something is ahead of it.               *)
(***************************************************************************)
THEOREM ServiceInvariant == Spec => [](TypeOK /\ ServiceInv)
<1>1. Init => TypeOK /\ ServiceInv
  BY TypeInit, ServiceInvInit
<1>2. (TypeOK /\ ServiceInv) /\ [Next]_vars => (TypeOK /\ ServiceInv)'
  BY TypeStep, ServiceInvStep
<1> QED
  BY <1>1, <1>2, PTL DEF Spec

-----------------------------------------------------------------------------
(***************************************************************************)
(* "We need this to guarantee that we get a chance to clean up RouterOS    *)
(* resources when the service is deleted" (service_reconciler.go): rules   *)
(* and allocations of a Service exist only under its finalizer, unless it  *)
(* was once reconciled before the caches showed the controller's writes.   *)
(***************************************************************************)
THEOREM RulesUnderFinalizer == Spec => []GuardedByFinalizer
<1>1. TypeOK /\ ServiceInv => GuardedByFinalizer
  <2> SUFFICES ASSUME ServiceInv, NEW s \in Svc \ early
               PROVE  \/ svc[s].live /\ svc[s].fin
                      \/ /\ router[s] = NoRules
                         /\ \A q \in Request : Exists(<<s, q>>) => alloc[<<s, q>>].deleting
    BY DEF GuardedByFinalizer
  <2>1. Finalized(svc[s]) \/ Clean(AllocsOf(s), router[s])
    BY DEF ServiceInv, RestInv, Guarded
  <2> QED
    BY <2>1, AllocOf DEF Finalized, Clean, Exists
<1> QED
  BY <1>1, ServiceInvariant, PTL

LEMMA QuietIsSettled ==
  ASSUME ServiceInv, NEW s \in Svc, ~Ahead(s)
  PROVE  Guarded(s) /\ Settled(s) /\ cachedEps[s] = eps[s]
<1>1. ~Awaited(s) /\ ~Works(s) /\ cachedEps[s] = eps[s]
  BY DEF Ahead, Awaited, Attended, Works
<1> QED
  BY <1>1 DEF ServiceInv, RestInv

(***************************************************************************)
(* cleanupService leaves nothing behind: with nothing ahead of a Service,  *)
(* it is not waiting for its deletion, and one that is gone or no longer   *)
(* managed has no finalizer, no rules and no allocation that stays.        *)
(***************************************************************************)
THEOREM CleanupComplete == Spec => []NothingLeftBehind
<1>1. TypeOK /\ ServiceInv => NothingLeftBehind
  <2> SUFFICES ASSUME ServiceInv, NEW s \in Svc \ early, ~Ahead(s)
               PROVE  /\ ~svc[s].deleting
                      /\ ~svc[s].live \/ ~Managed(svc[s].cfg) =>
                           /\ ~svc[s].fin /\ router[s] = NoRules
                           /\ \A q \in Request : Exists(<<s, q>>) => alloc[<<s, q>>].deleting
    BY DEF NothingLeftBehind
  <2>1. Guarded(s) /\ CleanedUp(svc[s])
    BY QuietIsSettled DEF Settled
  <2>2. (svc[s].deleting => svc[s].fin) /\ (svc[s].fin => svc[s].live)
    BY DEF ServiceInv, CacheInv, StreamInv, DeletionWaits
  <2>3. ~svc[s].deleting /\ (~svc[s].live \/ ~Managed(svc[s].cfg) => ~svc[s].fin)
    BY <2>1, <2>2 DEF CleanedUp
  <2>4. ~svc[s].fin => Clean(AllocsOf(s), router[s])
    BY <2>1 DEF Guarded, Finalized
  <2> QED
    BY <2>3, <2>4, AllocOf DEF Clean, Exists
<1> QED
  BY <1>1, ServiceInvariant, PTL

(***************************************************************************)
(* An address that the router forwards or translates for a Service is one  *)
(* of its allocations', or a reconciliation that removes the rule (its     *)
(* EnsureService or DeleteService) is ahead of the Service.                *)
(***************************************************************************)
THEOREM StrayRoutesRemoved == Spec => []StrayRouteIsBusy
<1>1. TypeOK /\ ServiceInv => StrayRouteIsBusy
  <2> SUFFICES ASSUME ServiceInv, NEW s \in Svc \ early, ~Ahead(s),
                      NEW a \in router[s].lb \cup router[s].snat
               PROVE  \E q \in Request : alloc[<<s, q>>].granted = a
    BY DEF StrayRouteIsBusy
  <2>1. RoutesGranted(AllocsOf(s), router[s])
    BY QuietIsSettled DEF Settled
  <2> QED
    BY <2>1, AllocOf DEF RoutesGranted
<1> QED
  BY <1>1, ServiceInvariant, PTL

(***************************************************************************)
(* Reconcile ends with exactly what is asked for: with nothing ahead of a  *)
(* managed Service whose last reconciliation logged no error, it has the   *)
(* expected allocations, their load balancer addresses are its ingress,    *)
(* and the router has the rules for them and for the current endpoints.    *)
(***************************************************************************)
THEOREM QuietServicesExact == Spec => []QuietIsExact
<1>1. TypeOK /\ ServiceInv => QuietIsExact
  <2> SUFFICES ASSUME TypeOK, ServiceInv, NEW s \in Svc,
                      ~Ahead(s), s \notin slipped, svc[s].live, ~svc[s].deleting, Managed(svc[s].cfg)
               PROVE  LET o == svc[s]
                          addrs == Granted(s, Requested(o.cfg)) IN
                      /\ \A q \in Requested(o.cfg) : Exists(<<s, q>>)
                      /\ \A q \in Request \ Requested(o.cfg) : Exists(<<s, q>>) => alloc[<<s, q>>].deleting
                      /\ o.ingress = LBIPs(o.cfg, addrs)
                      /\ router[s] = RulesFor(o.cfg, addrs, eps[s])
    BY DEF QuietIsExact
  <2>1. PICK A : A = AllocsOf(s)
    OBVIOUS
  <2>2. PICK qs : qs = Requested(svc[s].cfg)
    OBVIOUS
  <2>3. qs \subseteq Request
    <3>1. svc[s].cfg \in Config
      BY ServiceConfigAssumption DEF TypeOK, Object
    <3> QED
      BY <2>2, <3>1, RequestedType
  <2>4. Exact(svc[s], A, router[s], eps[s])
    BY <2>1, QuietIsSettled DEF Settled
  <2>5. \A q \in Request : A[q] = alloc[<<s, q>>]
    BY <2>1, AllocOf
  <2>6. Granted(s, qs) = GrantedIn(A, qs)
    BY <2>3, <2>5 DEF Granted, GrantedIn
  <2> QED
    BY <2>2, <2>3, <2>4, <2>5, <2>6 DEF Exact, RequestsMet, Exists
<1> QED
  BY <1>1, ServiceInvariant, PTL

=============================================================================
