-------------------- MODULE IPAllocationController_proofs ---------------------
(***************************************************************************)
(* Proofs about IPAllocationController, in three parts.                    *)
(*   1. Type correctness.                                                  *)
(*   2. UniqueInv (module IPAllocationInvariant) is an invariant of the    *)
(*      controller, and with it UniqueAddress; so the controller           *)
(*      implements AddressLedger.                                          *)
(*   3. The controller never loses sight of an allocation it has not       *)
(*      finished, and what it leaves alone as Programmed is advertised.    *)
(***************************************************************************)
EXTENDS IPAllocationInvariant, TLAPS

USE DEF NoIP, NoTime, NoPool, NoFamily

\* What the helpers of the handler return.
LEMMA StoredType == \A t \in Nat : Stored(t) \in Nat /\ Stored(t) <= t
  BY ClockAssumption DEF Stored

LEMMA GoneType == \A rv \in Nat : Gone(rv) \in Object /\ Fresh(rv) \in Object
  BY DEF Gone, Fresh, Object, Phase, Reason

LEMMA IdleType == Idle \in Reconciliation
  BY GoneType DEF Idle, Reconciliation, PC

LEMMA PendingType == NoPending \in Pending
  BY DEF NoPending, Pending

LEMMA PoolType ==
  ASSUME TypeOK, NEW p \in Pool
  PROVE  pools[p].advertise \in BOOLEAN
<1>1. pools[p] \in PoolSpec \cup {NoSpec}
  BY PoolAssumption DEF TypeOK
<1>2. CASE pools[p] \in PoolSpec
  BY <1>2 DEF PoolSpec
<1>3. CASE pools[p] = NoSpec
  <2>1. NoSpec.advertise = FALSE
    BY DEF NoSpec
  <2> QED
    BY <1>3, <2>1, Zenon
<1> QED
  BY <1>1, <1>2, <1>3

LEMMA GrantedType ==
  ASSUME NEW o \in Object, NEW ip \in IP, NEW b \in BOOLEAN, NEW now \in Nat
  PROVE  GrantedStatus(o, ip, b, now) \in Object
  BY StoredType DEF GrantedStatus, Object, Phase

LEMMA DenyReasonType ==
  ASSUME NEW a \in Alloc
  PROVE  DenyReason(a) \in Reason
<1>1. Request[a].address \in Nat /\ Request[a].pool \in Pool \cup {NoPool}
  BY RequestAssumption DEF AllocationSpec
<1> QED
  BY <1>1 DEF DenyReason, Reason, Failure, AllocationFailure

LEMMA DeniedType ==
  ASSUME NEW o \in Object, NEW r \in Reason
  PROVE  DeniedStatus(o, r) \in Object
  BY DEF DeniedStatus, Object, Phase

\* Every write leaves well-formed objects and a well-formed stream.
LEMMA WriteType ==
  ASSUME TypeOK, NEW a \in Alloc, NEW o \in Object, NEW own \in BOOLEAN,
         Write(a, o, own) \/ Put(a, o, own)
  PROVE  api' \in [Alloc -> Object] /\ events' \in Seq(Event)
<1>1. CASE UNCHANGED <<api, events>>
  BY <1>1 DEF TypeOK
<1>2. CASE Write(a, o, own)
  <2> DEFINE v == [o EXCEPT !.rv = api[a].rv + 1]
  <2>1. v \in Object
    <3>1. api[a].rv \in Nat
      BY DEF TypeOK, Object
    <3> QED
      BY <3>1 DEF Object
  <2>2. [name |-> a, obj |-> v, own |-> own] \in Event
    BY <2>1 DEF Event
  <2> HIDE DEF v
  <2>3. api' = [api EXCEPT ![a] = v] /\ events' = Append(events, [name |-> a, obj |-> v, own |-> own])
    BY <1>2 DEF Write, v
  <2> QED
    BY <2>1, <2>2, <2>3 DEF TypeOK
<1> QED
  BY <1>1, <1>2 DEF Put

LEMMA ReturnType ==
  ASSUME TypeOK, rec.pc # "idle", NEW failed, Return(failed)
  PROVE  rec' \in Reconciliation /\ rec'.pc = "idle" /\ queue' \subseteq Alloc
  BY IdleType DEF TypeOK, Return, Idle

-----------------------------------------------------------------------------
(***************************************************************************)
(* Type correctness of the controller, of its expectations and of the      *)
(* stored objects: every operation, call, failure and crash leaves them    *)
(* well formed.                                                            *)
(***************************************************************************)
LEMMA WriteStepType ==
  ASSUME TypeOK, NEW a \in Alloc, Create(a) \/ Delete(a) \/ Annotate(a)
  PROVE  TypeOK'
<1>1. api[a] \in Object /\ api[a].rv \in Nat
  BY DEF TypeOK, Object
<1>2. Gone(api[a].rv) \in Object /\ Fresh(api[a].rv) \in Object
  BY <1>1, GoneType
<1>3. [api[a] EXCEPT !.deleting = TRUE] \in Object
  BY <1>1 DEF Object
<1>4. PICK o \in Object : Write(a, o, FALSE)
  BY <1>1, <1>2, <1>3 DEF Create, Delete, Annotate
<1>5. api' \in [Alloc -> Object] /\ events' \in Seq(Event)
  BY <1>4, WriteType
<1>6. UNCHANGED <<controllerVars, pools>> /\ ops' = ops + 1
  BY DEF Create, Delete, Annotate, Operation
<1> QED
  BY <1>5, <1>6 DEF TypeOK, controllerVars, expectations

LEMMA SetPoolType == ASSUME TypeOK, NEW p \in Pool, SetPool(p) PROVE TypeOK'
<1>1. pools' \in [Pool -> PoolSpecs]
  BY DEF SetPool, TypeOK
<1> QED
  BY <1>1 DEF SetPool, TypeOK, controllerVars, expectations, Operation

LEMMA TickType == ASSUME TypeOK, Tick PROVE TypeOK'
  BY DEF Tick, TypeOK, expectations, Operation

LEMMA DeliverType == ASSUME TypeOK, Deliver PROVE TypeOK'
<1>1. Head(events) \in Event /\ Tail(events) \in Seq(Event)
  BY DEF Deliver, TypeOK
<1>2. Head(events).name \in Alloc /\ Head(events).obj \in Object
  BY <1>1 DEF Event
<1> QED
  BY <1>1, <1>2 DEF Deliver, TypeOK, expectations

LEMMA CrashType == ASSUME TypeOK, Crash PROVE TypeOK'
  BY IdleType, PendingType DEF Crash, TypeOK, Fault, Idle

LEMMA StartType == ASSUME TypeOK, NEW a \in Alloc, Start(a) PROVE TypeOK'
<1>1. Branch(cache[a]) \in PC \ {"program"}
  BY DEF TypeOK, Object, Branch, PC
<1>2. cache[a] \in Object /\ cache[a].addr \in IP \cup {NoIP}
  BY DEF TypeOK, Object
<1>3. Branch(cache[a]) = "cleanup" => cache[a].addr \in IP
  BY <1>2 DEF Branch, Allocated
<1>4. /\ rec' \in Reconciliation
      /\ rec'.pc # "idle" => rec'.name \in Alloc
      /\ rec'.pc \in {"cleanup", "program"} => rec'.ip \in IP
  BY <1>1, <1>2, <1>3, IdleType DEF Start, Reconciliation, Idle
<1> QED
  BY <1>4 DEF Start, TypeOK, expectations, Misread

\* The expectations stay well formed.
LEMMA ExpectationTypes ==
  ASSUME NEW pa \in [IP -> Pending], NEW pr \in [IP -> Nat], NEW a \in Alloc,
         NEW ip \in IP \cup {NoIP}, NEW t \in Nat, NEW objs
  PROVE  /\ StageAllocation(pa, a, ip, t) \in [IP -> Pending]
         /\ UnstageAllocation(pa, a, ip, t) \in [IP -> Pending]
         /\ StageReleasePending(pa, ip, t) \in [IP -> Pending]
         /\ ConfirmAllocations(pa, objs) \in [IP -> Pending]
         /\ ClearRelease(pr, ip) \in [IP -> Nat]
         /\ StageReleaseTimes(pa, pr, ip, t) \in [IP -> Nat]
         /\ ConfirmReleases(pr, objs, t) \in [IP -> Nat]
<1>1. [id |-> a, at |-> t] \in Pending
  BY DEF Pending
<1>2. StageAllocation(pa, a, ip, t) \in [IP -> Pending]
  BY <1>1 DEF StageAllocation
<1>3. UnstageAllocation(pa, a, ip, t) \in [IP -> Pending]
  BY PendingType DEF UnstageAllocation
<1>4. StageReleasePending(pa, ip, t) \in [IP -> Pending]
  BY PendingType DEF StageReleasePending
<1>5. ConfirmAllocations(pa, objs) \in [IP -> Pending]
  BY PendingType DEF ConfirmAllocations
<1>6. ClearRelease(pr, ip) \in [IP -> Nat]
  BY DEF ClearRelease
<1>7. StageReleaseTimes(pa, pr, ip, t) \in [IP -> Nat]
  BY DEF StageReleaseTimes
<1>8. ConfirmReleases(pr, objs, t) \in [IP -> Nat]
  BY DEF ConfirmReleases
<1> QED
  BY <1>2, <1>3, <1>4, <1>5, <1>6, <1>7, <1>8

LEMMA CleanupType == ASSUME TypeOK, CleanupAdvertisement PROVE TypeOK'
<1>1. /\ rec \in Reconciliation /\ rec.name \in Alloc /\ rec.pc = "cleanup"
      /\ rec.ip \in IP \cup {NoIP}
  BY DEF CleanupAdvertisement, TypeOK, Reconciliation
<1>2. CASE Fault /\ Return(TRUE) /\ UNCHANGED <<expectations, clock>> /\ adv' \in {adv, adv \ {rec.ip}}
  <2>1. rec' \in Reconciliation /\ rec'.pc = "idle" /\ queue' \subseteq Alloc
    BY <1>1, <1>2, ReturnType
  <2> QED
    BY <1>2, <2>1 DEF CleanupAdvertisement, TypeOK, Fault, expectations
<1>3. CASE /\ clock' = clock + 1 /\ adv' = adv \ {rec.ip}
           /\ pendingReleases' = StageReleaseTimes(pendingAllocations, pendingReleases, rec.ip, clock + 1)
           /\ pendingAllocations' = StageReleasePending(pendingAllocations, rec.ip, clock + 1)
           /\ rec' = [rec EXCEPT !.pc = "unfinalize", !.at = clock + 1]
           /\ UNCHANGED <<queue, faults>>
  <2>1. clock + 1 \in Nat
    BY DEF TypeOK
  <2>2. rec' \in Reconciliation /\ rec'.name \in Alloc /\ rec'.pc = "unfinalize"
    BY <1>1, <1>3, <2>1 DEF Reconciliation, PC
  <2>3. pendingReleases' \in [IP -> Nat] /\ pendingAllocations' \in [IP -> Pending]
    BY <1>1, <1>3, <2>1, ExpectationTypes DEF TypeOK
  <2> QED
    BY <1>3, <2>1, <2>2, <2>3 DEF CleanupAdvertisement, TypeOK
<1> QED
  BY <1>2, <1>3 DEF CleanupAdvertisement

LEMMA RemoveFinalizerType == ASSUME TypeOK, RemoveFinalizer PROVE TypeOK'
<1> DEFINE a == rec.name
<1>1. /\ rec \in Reconciliation /\ a \in Alloc /\ rec.pc = "unfinalize"
      /\ rec.ip \in IP \cup {NoIP} /\ rec.at \in Nat
  BY DEF RemoveFinalizer, TypeOK, Reconciliation
<1>2. Unfinalized(api[a]) \in Object
  <2>1. api[a] \in Object /\ api[a].rv \in Nat
    BY <1>1 DEF TypeOK, Object
  <2>2. [api[a] EXCEPT !.fin = FALSE] \in Object
    BY <2>1 DEF Object
  <2> QED
    BY <2>1, <2>2, GoneType DEF Unfinalized
<1>3. api' \in [Alloc -> Object] /\ events' \in Seq(Event)
  <2>1. UNCHANGED <<api, events>> \/ Put(a, Unfinalized(api[a]), TRUE)
    BY DEF RemoveFinalizer
  <2> QED
    BY <1>1, <1>2, <2>1, WriteType DEF TypeOK
<1>4. rec' \in Reconciliation /\ rec'.pc = "idle" /\ queue' \subseteq Alloc
  BY <1>1, ReturnType DEF RemoveFinalizer
<1>5. pendingReleases' \in [IP -> Nat]
  <2>1. \/ pendingReleases' = pendingReleases
        \/ pendingReleases' = UnstageRelease(pendingReleases, rec.ip, rec.at)
    BY Zenon DEF RemoveFinalizer
  <2> QED
    BY <1>1, <2>1, SMTT(30) DEF UnstageRelease, TypeOK
<1>6. faults' \in Nat
  <2>1. faults' = faults \/ faults' = faults + 1
    BY Zenon DEF RemoveFinalizer, Fault
  <2> QED
    BY <2>1 DEF TypeOK
<1> QED
  BY <1>3, <1>4, <1>5, <1>6 DEF RemoveFinalizer, TypeOK

LEMMA AddFinalizerType == ASSUME TypeOK, AddFinalizer PROVE TypeOK'
<1> DEFINE a == rec.name
<1>1. rec \in Reconciliation /\ a \in Alloc /\ rec.pc = "finalize"
  BY DEF AddFinalizer, TypeOK
<1>2. [api[a] EXCEPT !.fin = TRUE] \in Object
  <2>1. api[a] \in Object
    BY <1>1 DEF TypeOK
  <2> QED
    BY <2>1 DEF Object
<1>3. api' \in [Alloc -> Object] /\ events' \in Seq(Event)
  <2>1. UNCHANGED <<api, events>> \/ Put(a, [api[a] EXCEPT !.fin = TRUE], TRUE)
    BY DEF AddFinalizer
  <2> QED
    BY <1>1, <1>2, <2>1, WriteType DEF TypeOK
<1>4. rec' \in Reconciliation /\ rec'.pc = "idle" /\ queue' \subseteq Alloc
  BY <1>1, ReturnType DEF AddFinalizer
<1>5. faults' \in Nat
  <2>1. faults' = faults \/ faults' = faults + 1
    BY Zenon DEF AddFinalizer, Fault
  <2> QED
    BY <2>1 DEF TypeOK
<1> QED
  BY <1>3, <1>4, <1>5 DEF AddFinalizer, TypeOK, expectations

LEMMA DecideCases ==
  ASSUME TypeOK, Decide
  PROVE  \/ \E p \in Pool, ip \in IP, now \in Nat :
              /\ <<p, ip>> \in Candidates(rec.name)
              /\ now \in {clock + 1, clock + 2}
              /\ Grant(p, ip, now)
         \/ Deny
         \/ PoolListFails
<1>1. CASE \E c \in Choices(rec.name), now \in {clock + 1, clock + 2} : Grant(c[1], c[2], now)
  <2>1. PICK c \in Choices(rec.name), now \in {clock + 1, clock + 2} : Grant(c[1], c[2], now)
    BY <1>1
  <2>2. c \in Candidates(rec.name)
    BY DEF Choices
  <2>3. c \in Pool \X IP
    BY <2>2 DEF Candidates
  <2>4. c[1] \in Pool /\ c[2] \in IP /\ c = <<c[1], c[2]>>
    BY <2>3
  <2>5. now \in Nat
    BY DEF TypeOK
  <2> QED
    BY <2>1, <2>2, <2>4, <2>5
<1> QED
  BY <1>1 DEF Decide

LEMMA DecideType == ASSUME TypeOK, Decide PROVE TypeOK'
<1>1. /\ rec \in Reconciliation /\ rec.name \in Alloc /\ rec.pc = "decide"
      /\ rec.obj \in Object
      /\ UNCHANGED <<api, cache, events, adv, pools, doubtful, ops>>
  BY DEF TypeOK, Reconciliation, Decide
<1>2. ConfirmedAllocations \in [IP -> Pending] /\ ConfirmedReleases \in [IP -> Nat]
  BY PendingType DEF TypeOK, ConfirmedAllocations, ConfirmedReleases,
                     ConfirmAllocations, ConfirmReleases
<1>3. ASSUME NEW p \in Pool, NEW ip \in IP, NEW now \in Nat, Grant(p, ip, now)
      PROVE  TypeOK'
  <2> DEFINE o == GrantedStatus(rec.obj, ip, pools[p].advertise, now)
  <2>2. o \in Object /\ pools[p].advertise \in BOOLEAN
    BY <1>1, PoolType, GrantedType
  <2>3. (o # rec.obj) \in BOOLEAN /\ clock + 1 \in Nat
    BY DEF TypeOK
  <2>4. rec' = [rec EXCEPT !.pc = "program", !.obj = o, !.ip = ip, !.at = clock + 1,
                           !.advertise = pools[p].advertise, !.dirty = o # rec.obj]
    BY <1>3 DEF Grant
  <2> HIDE DEF o
  <2>5. rec' \in Reconciliation /\ rec'.name \in Alloc /\ rec'.ip \in IP
    BY <1>1, <2>2, <2>3, <2>4 DEF Reconciliation, PC
  <2>6. [id |-> rec.name, at |-> clock + 1] \in Pending
    BY <1>1, <2>3 DEF Pending
  <2>7. pendingAllocations' \in [IP -> Pending] /\ pendingReleases' \in [IP -> Nat]
    BY <1>2, <1>3, <2>6 DEF Grant, StageAllocation, ClearRelease
  <2>8. clock' \in Nat /\ UNCHANGED <<queue, faults>>
    BY <1>3 DEF Grant
  <2> QED
    BY <1>1, <2>5, <2>7, <2>8 DEF TypeOK
<1>4. CASE Deny
  <2> DEFINE o == DeniedStatus(rec.obj, DenyReason(rec.name))
  <2>2. o \in Object
    BY <1>1, DenyReasonType, DeniedType
  <2>3. rec' = [rec EXCEPT !.pc = "update", !.obj = o, !.dirty = o # rec.obj]
    BY <1>4 DEF Deny
  <2>4. (o # rec.obj) \in BOOLEAN
    OBVIOUS
  <2> HIDE DEF o
  <2>5. rec' \in Reconciliation /\ rec'.name \in Alloc /\ rec'.pc = "update"
    BY <1>1, <2>2, <2>3, <2>4 DEF Reconciliation, PC
  <2> QED
    BY <1>1, <1>2, <1>4, <2>5 DEF Deny, TypeOK
<1>5. CASE PoolListFails
  <2>1. rec' \in Reconciliation /\ rec'.pc = "idle" /\ queue' \subseteq Alloc
    BY <1>1, <1>5, ReturnType DEF PoolListFails
  <2> QED
    BY <1>1, <1>5, <2>1 DEF PoolListFails, TypeOK, Fault, expectations
<1> QED
  BY <1>3, <1>4, <1>5, DecideCases

LEMMA ProgramType == ASSUME TypeOK, Program PROVE TypeOK'
<1>1. /\ rec \in Reconciliation /\ rec.name \in Alloc
      /\ rec.obj \in Object /\ rec.ip \in IP
  BY DEF Program, TypeOK, Reconciliation
<1>2. /\ Programmed(rec.obj) \in Object /\ NotAdvertised(rec.obj) \in Object
      /\ ProgrammingFailed(rec.obj) \in Object
  BY <1>1 DEF Programmed, NotAdvertised, ProgrammingFailed, Object, Phase, Reason, Failure
<1>3. rec' \in Reconciliation /\ rec'.name \in Alloc /\ rec'.pc = "update"
  BY <1>1, <1>2 DEF Program, Reconciliation, PC
<1>4. faults' \in Nat
  <2>1. faults' = faults \/ faults' = faults + 1
    BY Zenon DEF Program, Fault
  <2> QED
    BY <2>1 DEF TypeOK
<1>5. adv' \subseteq IP
  <2>1. adv' \in {adv, adv \cup {rec.ip}, adv \ {rec.ip}}
    BY DEF Program
  <2> QED
    BY <1>1, <2>1 DEF TypeOK
<1> QED
  BY <1>3, <1>4, <1>5 DEF Program, TypeOK, expectations

LEMMA UpdateStatusType == ASSUME TypeOK, UpdateStatus PROVE TypeOK'
<1> DEFINE a == rec.name
<1>1. /\ rec \in Reconciliation /\ a \in Alloc /\ rec.pc = "update"
      /\ rec.obj \in Object /\ rec.ip \in IP \cup {NoIP}
  BY DEF UpdateStatus, TypeOK, Reconciliation
<1>2. api' \in [Alloc -> Object] /\ events' \in Seq(Event)
  <2>1. UNCHANGED <<api, events>> \/ Put(a, rec.obj, TRUE)
    BY DEF UpdateStatus
  <2> QED
    BY <1>1, <2>1, WriteType DEF TypeOK
<1>3. rec' \in Reconciliation /\ rec'.pc = "idle" /\ queue' \subseteq Alloc
  <2>1. Return(rec.obj.reason \in Failure) \/ Return(TRUE)
    BY Zenon DEF UpdateStatus
  <2> QED
    BY <1>1, <2>1, ReturnType
<1>4. pendingAllocations' \in [IP -> Pending]
  <2>1. \/ pendingAllocations' = pendingAllocations
        \/ pendingAllocations' = UnstageAllocation(pendingAllocations, a, rec.ip, rec.at)
    BY DEF UpdateStatus
  <2> QED
    BY <2>1, PendingType DEF UnstageAllocation, TypeOK
<1>5. faults' \in Nat
  <2>1. faults' = faults \/ faults' = faults + 1
    BY Zenon DEF UpdateStatus, Fault
  <2> QED
    BY <2>1 DEF TypeOK
<1> QED
  BY <1>2, <1>3, <1>4, <1>5 DEF UpdateStatus, TypeOK

LEMMA TypeStep == TypeOK /\ [Next]_vars => TypeOK'
<1> SUFFICES ASSUME TypeOK, [Next]_vars PROVE TypeOK'
  OBVIOUS
<1>1. CASE UNCHANGED vars
  BY <1>1 DEF vars, expectations, TypeOK
<1>2. ASSUME NEW a \in Alloc, Create(a) \/ Delete(a) \/ Annotate(a) PROVE TypeOK'
  BY <1>2, WriteStepType
<1>3. ASSUME NEW p \in Pool, SetPool(p) PROVE TypeOK'
  BY <1>3, SetPoolType
<1>4. CASE Tick
  BY <1>4, TickType
<1>5. ASSUME NEW a \in Alloc, Start(a) PROVE TypeOK'
  BY <1>5, StartType
<1>6. CASE Worker
  BY <1>6, CleanupType, RemoveFinalizerType, AddFinalizerType, DecideType,
     ProgramType, UpdateStatusType DEF Worker
<1> QED
  BY <1>1, <1>2, <1>3, <1>4, <1>5, <1>6, DeliverType, CrashType DEF Next

(***************************************************************************)
(* Every state that Reconcile and the environment reach is well typed.     *)
(***************************************************************************)
THEOREM TypeCorrect == Spec => []TypeOK
<1>1. Init => TypeOK
  BY IdleType, GoneType, PendingType DEF Init, TypeOK, Idle
<1> QED
  BY <1>1, TypeStep, PTL DEF Spec

-----------------------------------------------------------------------------
(***************************************************************************)
(* Part 2.  UniqueInv is inductive.                                        *)
(***************************************************************************)
HIDE DEF NoPool, NoFamily

LEMMA EventTypes ==
  ASSUME TypeOK
  PROVE  /\ Len(events) \in Nat
         /\ \A i \in Position : /\ events[i] \in Event
                                /\ events[i].name \in Alloc
                                /\ events[i].obj \in Object
                                /\ events[i].own \in BOOLEAN
                                /\ events[i].obj.rv \in Nat
                                /\ events[i].obj.since \in Nat
<1>1. Len(events) \in Nat /\ \A i \in Position : events[i] \in Event
  BY DEF TypeOK, Position
<1> QED
  BY <1>1 DEF Event, Object

LEMMA ObjectTypes ==
  ASSUME TypeOK
  PROVE  /\ clock \in Nat
         /\ \A a \in Alloc : /\ api[a] \in Object /\ cache[a] \in Object
                             /\ api[a].rv \in Nat /\ cache[a].rv \in Nat
                             /\ api[a].since \in Nat /\ cache[a].since \in Nat
         /\ \A ip \in IP : pendingAllocations[ip].at \in Nat
  BY DEF TypeOK, Object, Pending

\* An object without a status has no address.
LEMMA GoneStatus ==
  ASSUME NEW rv \in Nat, NEW g, g = Gone(rv)
  PROVE  g.phase = "" /\ g.since = 0
  BY DEF Gone

LEMMA FreshStatus ==
  ASSUME NEW rv \in Nat, NEW f, f = Fresh(rv)
  PROVE  f.phase = "" /\ f.since = 0
<1>1. PICK g : g = Gone(rv)
  OBVIOUS
<1>2. f = [g EXCEPT !.live = TRUE]
  BY <1>1 DEF Fresh
<1>3. g.phase = "" /\ g.since = 0
  BY <1>1, GoneStatus
<1>4. f.phase = g.phase /\ f.since = g.since
  BY <1>1, <1>2 DEF Gone
<1> QED
  BY <1>3, <1>4

\* What a write changes: one object, and one more event at the end.
LEMMA WriteFacts ==
  ASSUME TypeOK, NEW a \in Alloc, NEW o \in Object, NEW own \in BOOLEAN,
         Write(a, o, own)
  PROVE  /\ api'[a].rv = api[a].rv + 1
         /\ api'[a].live = o.live /\ api'[a].deleting = o.deleting
         /\ api'[a].fin = o.fin /\ api'[a].reason = o.reason
         /\ api'[a].phase = o.phase /\ api'[a].addr = o.addr
         /\ api'[a].since = o.since
         /\ \A x \in Alloc \ {a} : api'[x] = api[x]
         /\ Len(events') = Len(events) + 1
         /\ \A i \in Position : events'[i] = events[i]
         /\ events'[Len(events) + 1].name = a
         /\ events'[Len(events) + 1].obj = api'[a]
         /\ events'[Len(events) + 1].own = own
<1> DEFINE v == [o EXCEPT !.rv = api[a].rv + 1]
<1> DEFINE e == [name |-> a, obj |-> v, own |-> own]
<1>1. api[a].rv \in Nat
  BY ObjectTypes
<1>2. /\ v.rv = api[a].rv + 1 /\ v.live = o.live /\ v.deleting = o.deleting
      /\ v.fin = o.fin /\ v.reason = o.reason
      /\ v.phase = o.phase /\ v.addr = o.addr /\ v.since = o.since /\ v \in Object
  BY <1>1 DEF Object
<1>3. e.name = a /\ e.obj = v /\ e.own = own /\ e \in Event
  BY <1>2 DEF Event
<1>4. api' = [api EXCEPT ![a] = v] /\ events' = Append(events, e)
  BY DEF Write
<1> HIDE DEF v, e
<1>5. api'[a] = v /\ \A x \in Alloc \ {a} : api'[x] = api[x]
  BY <1>4 DEF TypeOK
<1>6. /\ Len(events') = Len(events) + 1
      /\ \A i \in Position : events'[i] = events[i]
      /\ events'[Len(events) + 1] = e
  BY <1>3, <1>4 DEF TypeOK, Position
<1> QED
  BY <1>2, <1>3, <1>5, <1>6

(***************************************************************************)
(* Every write keeps the stream in order; only the controller's own may    *)
(* end a deletion.                                                         *)
(***************************************************************************)
LEMMA WriteOrder ==
  ASSUME TypeOK, VersionsOrdered, DeletionIsOurs,
         NEW a \in Alloc, NEW o \in Object, NEW own \in BOOLEAN,
         Write(a, o, own), UNCHANGED cache,
         ~own /\ api[a].live /\ api[a].deleting
           => /\ o.live /\ o.deleting
              /\ o.phase = api[a].phase /\ o.addr = api[a].addr
  PROVE  VersionsOrdered' /\ DeletionIsOurs'
<1> DEFINE n == Len(events)
<1>1. UNCHANGED cache
  OBVIOUS
<1>2. /\ api'[a].rv = api[a].rv + 1
      /\ api'[a].live = o.live /\ api'[a].deleting = o.deleting
      /\ api'[a].phase = o.phase /\ api'[a].addr = o.addr
      /\ \A x \in Alloc \ {a} : api'[x] = api[x]
      /\ Len(events') = n + 1 /\ n \in Nat
      /\ \A i \in 1..n : events'[i] = events[i]
      /\ events'[n + 1].name = a /\ events'[n + 1].obj = api'[a]
      /\ events'[n + 1].own = own
  BY WriteFacts, EventTypes DEF Position
<1>3. \A i \in 1..n : events[i].name \in Alloc /\ events[i].obj.rv \in Nat
  BY EventTypes DEF Position
<1>4. Position' = 1..(n + 1) /\ Position = 1..n
  BY <1>2 DEF Position
<1> HIDE DEF n
<1>5. \A i \in Position' : i \in 1..n \/ i = n + 1
  BY <1>2, <1>4
<1>6. \A x \in Alloc : OwnWriteInFlight(x) => OwnWriteInFlight(x)'
  BY <1>2 DEF OwnWriteInFlight, n
<1>7. VersionsOrdered'
  <2>1. \A x \in Alloc : api[x].rv \in Nat /\ cache[x].rv \in Nat
    BY ObjectTypes
  <2>2. \A x \in Alloc : cache'[x].rv <= api'[x].rv
    BY <1>1, <1>2, <2>1 DEF VersionsOrdered
  <2>3. \A i \in Position' : /\ cache'[events'[i].name].rv < events'[i].obj.rv
                             /\ events'[i].obj.rv <= api'[events'[i].name].rv
    <3> SUFFICES ASSUME NEW i \in Position'
                 PROVE  /\ cache'[events'[i].name].rv < events'[i].obj.rv
                        /\ events'[i].obj.rv <= api'[events'[i].name].rv
      OBVIOUS
    <3>1. CASE i \in 1..n
      <4>1. /\ cache[events[i].name].rv < events[i].obj.rv
            /\ events[i].obj.rv <= api[events[i].name].rv
        BY <1>4, <3>1 DEF VersionsOrdered
      <4>2. api[events[i].name].rv <= api'[events[i].name].rv
        BY <1>2, <1>3, <2>1, <3>1, SMTT(30)
      <4>3. /\ events[i].name \in Alloc /\ events[i].obj.rv \in Nat
            /\ api[events[i].name].rv \in Nat /\ api'[events[i].name].rv \in Nat
        BY <1>2, <1>3, <2>1, <3>1
      <4> QED
        BY <1>1, <1>2, <3>1, <4>1, <4>2, <4>3
    <3>2. CASE i = n + 1
      BY <1>1, <1>2, <2>1, <3>2 DEF VersionsOrdered
    <3> QED
      BY <1>5, <3>1, <3>2
  <2>4. \A i, j \in Position' :
          i < j /\ events'[i].name = events'[j].name => events'[i].obj.rv < events'[j].obj.rv
    <3> SUFFICES ASSUME NEW i \in Position', NEW j \in Position',
                        i < j, events'[i].name = events'[j].name
                 PROVE  events'[i].obj.rv < events'[j].obj.rv
      OBVIOUS
    <3>1. i \in 1..n
      BY <1>2, <1>4
    <3>2. CASE j \in 1..n
      BY <1>2, <1>4, <3>1, <3>2 DEF VersionsOrdered
    <3>3. CASE j = n + 1
      BY <1>2, <1>3, <1>4, <2>1, <3>1, <3>3 DEF VersionsOrdered
    <3> QED
      BY <1>5, <3>2, <3>3
  <2> QED
    BY <2>2, <2>3, <2>4 DEF VersionsOrdered
<1>8. DeletionIsOurs'
  <2>1. ASSUME NEW x \in Alloc, NEW v, DeletingPersists(x, v), x # a \/ ~own
        PROVE  DeletingPersists(x, v)'
    BY <1>2, <2>1 DEF DeletingPersists
  <2>2. ASSUME NEW x \in Alloc, ~OwnWriteInFlight(x)'
        PROVE  DeletingPersists(x, cache[x])'
    <3>1. x # a \/ ~own
      BY <1>2, <1>4, <2>2 DEF OwnWriteInFlight
    <3> QED
      BY <1>1, <1>6, <2>1, <2>2, <3>1 DEF DeletionIsOurs
  <2>3. ASSUME NEW i \in Position',
               \A j \in Position' : i < j /\ events'[j].name = events'[i].name => ~events'[j].own
        PROVE  DeletingPersists(events[i].name, events[i].obj)'
    <3>1. CASE i \in 1..n
      <4>1. events[i].name # a \/ ~own
        BY <1>2, <1>4, <2>3, <3>1
      <4>2. \A j \in Position : i < j /\ events[j].name = events[i].name => ~events[j].own
        BY <1>2, <1>4, <2>3, <3>1
      <4>3. DeletingPersists(events[i].name, events[i].obj)
        BY <1>4, <3>1, <4>2 DEF DeletionIsOurs
      <4> QED
        BY <1>2, <1>3, <2>1, <3>1, <4>1, <4>3
    <3>2. CASE i = n + 1
      BY <1>2, <3>2 DEF DeletingPersists
    <3> QED
      BY <1>5, <3>1, <3>2
  <2> QED
    BY <2>2, <2>3 DEF DeletionIsOurs
<1> QED
  BY <1>7, <1>8

(***************************************************************************)
(* A write that gives nobody an address, and that does not end a deletion  *)
(* unless it is the controller's own, preserves the part of the invariant  *)
(* that is about the stored, cached and travelling objects.                *)
(***************************************************************************)
QuietWrite(a, o, own) ==
  /\ Write(a, o, own)
  /\ Allocated(o) => HasAddress(api[a], o.addr) /\ o.since = api[a].since
  /\ o.since <= clock
  /\ ~own /\ api[a].live /\ api[a].deleting
       => /\ o.live /\ o.deleting
          /\ o.phase = api[a].phase /\ o.addr = api[a].addr
  /\ UNCHANGED <<cache, clock, pendingAllocations>>
  /\ doubtful \subseteq doubtful'

LEMMA QuietWritePreserves ==
  ASSUME TypeOK, StoreInv, NEW a \in Alloc, NEW o \in Object, NEW own \in BOOLEAN,
         QuietWrite(a, o, own)
  PROVE  /\ StoreInv'
         /\ \A x \in Alloc : \A ip \in IP : Holds(x, ip)' => Holds(x, ip)
<1> DEFINE n == Len(events)
<1>1. /\ Write(a, o, own) /\ UNCHANGED <<cache, clock, pendingAllocations>>
      /\ Known' \subseteq Known
  BY DEF QuietWrite, Known
<1>2. /\ api'[a].rv = api[a].rv + 1
      /\ api'[a].live = o.live /\ api'[a].deleting = o.deleting
      /\ api'[a].phase = o.phase /\ api'[a].addr = o.addr
      /\ api'[a].since = o.since
      /\ \A x \in Alloc \ {a} : api'[x] = api[x]
      /\ Len(events') = n + 1 /\ n \in Nat
      /\ \A i \in 1..n : events'[i] = events[i]
      /\ events'[n + 1].name = a /\ events'[n + 1].obj = api'[a]
      /\ events'[n + 1].own = own
  BY <1>1, WriteFacts, EventTypes DEF Position
<1>3. \A i \in 1..n : /\ events[i].name \in Alloc /\ events[i].obj.rv \in Nat
                      /\ events[i].obj.since \in Nat
  BY EventTypes DEF Position
<1>4. Position' = 1..(n + 1) /\ Position = 1..n
  BY <1>2 DEF Position
<1> HIDE DEF n
<1>5. \A i \in Position' : i \in 1..n \/ i = n + 1
  BY <1>2, <1>4
<1>6. \A ip : HasAddress(api'[a], ip) => HasAddress(api[a], ip) /\ api'[a].since = api[a].since
  BY <1>2 DEF QuietWrite, HasAddress, Allocated
<1>7. \A x \in Alloc : \A ip \in IP : Holds(x, ip)' => Holds(x, ip)
  BY <1>2, <1>6 DEF Holds, HasAddress
<1>8. \A x \in Alloc : OwnWriteInFlight(x) => OwnWriteInFlight(x)'
  BY <1>2 DEF OwnWriteInFlight, n
<1>9. TimesInPast'
  BY <1>1, <1>2, <1>4, <1>5 DEF QuietWrite, TimesInPast, StoreInv
<1>11. StreamShowsAddress'
  BY <1>2, <1>3, <1>4, <1>5, <1>6 DEF StreamShowsAddress, StoreInv, HasAddress, Allocated
<1>12. CacheShowsAddress'
  BY <1>1, <1>7, <1>8 DEF CacheShowsAddress, StoreInv
<1>13. AddressKnown'
  BY <1>1, <1>7 DEF AddressKnown, StoreInv, Known
<1>14. OnlyOwnerConfirms'
  BY <1>1, <1>2, <1>3, <1>4, <1>5, <1>6 DEF OnlyOwnerConfirms, StoreInv
<1>15. VersionsOrdered' /\ DeletionIsOurs'
  BY <1>1, WriteOrder DEF QuietWrite, StoreInv
<1>16. UniqueAddress'
  BY <1>1, <1>7 DEF UniqueAddress, StoreInv, Known
<1> QED
  BY <1>7, <1>9, <1>11, <1>12, <1>13, <1>14, <1>15, <1>16 DEF StoreInv

\* What the environment does to the objects does not disturb the worker.
LEMMA WorkerUndisturbed ==
  ASSUME TypeOK, TypeOK', WorkerInv, UNCHANGED <<rec, cache, expectations, doubtful>>,
         clock <= clock',
         \A x \in Alloc : \A ip \in IP : Holds(x, ip)' => Holds(x, ip),
         \A x \in Alloc : api[x].live /\ api[x].deleting => api'[x].live /\ api'[x].deleting
  PROVE  WorkerInv'
<1>1. /\ rec' = rec /\ cache' = cache /\ pendingAllocations' = pendingAllocations
      /\ pendingReleases' = pendingReleases /\ Known' = Known /\ Known \subseteq IP
  BY DEF expectations, Known
<1>2. rec.pc # "idle" => rec.name \in Alloc
  BY DEF TypeOK
<1>3. ReleasedIsFree'
  BY <1>1 DEF ReleasedIsFree, WorkerInv
<1>4. ReadInv'
  <2>1. clock \in Nat /\ clock' \in Nat /\ rec.obj.since \in Nat
    BY DEF TypeOK, Reconciliation, Object
  <2> QED
    BY <1>1, <1>2, <2>1 DEF ReadInv, CacheShowsWorker, WorkerInv
<1>5. rec.pc # "idle" /\ rec.ip \in IP /\ OnlyWorkerHolds => OnlyWorkerHolds'
  BY <1>1 DEF OnlyWorkerHolds
<1>6. ReleaseInv'
  BY <1>1, <1>2, <1>5 DEF ReleaseInv, WorkerInv
<1>7. GrantInv'
  BY <1>1, <1>5 DEF GrantInv, WorkerInv
<1> QED
  BY <1>3, <1>4, <1>6, <1>7 DEF WorkerInv

LEMMA EnvironmentWrites ==
  ASSUME TypeOK, UniqueInv, NEW a \in Alloc, Create(a) \/ Delete(a) \/ Annotate(a)
  PROVE  UniqueInv'
<1>1. TypeOK'
  BY WriteStepType
<1>2. api[a] \in Object /\ api[a].rv \in Nat /\ api[a].since <= clock /\ clock \in Nat
  BY ObjectTypes DEF UniqueInv, StoreInv, TimesInPast
<1>3. /\ UNCHANGED <<cache, clock, pendingAllocations>>
      /\ UNCHANGED <<rec, cache, expectations, doubtful>>
  BY DEF Create, Delete, Annotate, controllerVars, expectations
<1>4. PICK o \in Object :
        /\ Write(a, o, FALSE)
        /\ Allocated(o) => HasAddress(api[a], o.addr) /\ o.since = api[a].since
        /\ o.since <= clock
        /\ api[a].live /\ api[a].deleting
             => /\ o.live /\ o.deleting /\ o.phase = api[a].phase /\ o.addr = api[a].addr
  <2>1. CASE Create(a)
    <3> DEFINE o == Fresh(api[a].rv)
    <3>1. o \in Object
      BY <1>2, GoneType
    <3>2. Write(a, o, FALSE) /\ ~api[a].live
      BY <2>1 DEF Create
    <3>3. ~Allocated(o) /\ o.since = 0
      BY <1>2, GoneStatus, FreshStatus DEF Allocated
    <3> HIDE DEF o
    <3>4. o.since <= clock
      BY <1>2, <3>3
    <3> QED
      BY <3>1, <3>2, <3>3, <3>4, Zenon
  <2>2. CASE Delete(a) /\ ~api[a].fin
    <3> DEFINE o == Gone(api[a].rv)
    <3>1. o \in Object
      BY <1>2, GoneType
    <3>2. Write(a, o, FALSE) /\ ~api[a].deleting
      BY <2>2 DEF Delete
    <3>3. ~Allocated(o) /\ o.since = 0
      BY <1>2, GoneStatus, FreshStatus DEF Allocated
    <3> HIDE DEF o
    <3>4. o.since <= clock
      BY <1>2, <3>3
    <3> QED
      BY <3>1, <3>2, <3>3, <3>4, Zenon
  <2>3. CASE Delete(a) /\ api[a].fin
    <3> DEFINE o == [api[a] EXCEPT !.deleting = TRUE]
    <3>1. /\ o \in Object /\ o.phase = api[a].phase /\ o.addr = api[a].addr
          /\ o.since = api[a].since
      BY <1>2 DEF Object
    <3>2. Write(a, o, FALSE) /\ ~api[a].deleting
      BY <2>3 DEF Delete
    <3> HIDE DEF o
    <3> QED
      BY <1>2, <3>1, <3>2 DEF HasAddress, Allocated
  <2>4. CASE Annotate(a)
    BY <1>2, <2>4 DEF Annotate, HasAddress, Allocated
  <2> QED
    BY <2>1, <2>2, <2>3, <2>4
<1>5. QuietWrite(a, o, FALSE)
  BY <1>3, <1>4 DEF QuietWrite
<1>6. /\ StoreInv' /\ \A x \in Alloc : \A ip \in IP : Holds(x, ip)' => Holds(x, ip)
  BY <1>5, QuietWritePreserves DEF UniqueInv
<1>7. /\ api'[a].live = o.live /\ api'[a].deleting = o.deleting
      /\ \A x \in Alloc \ {a} : api'[x] = api[x]
  BY <1>4, WriteFacts
<1>8. \A x \in Alloc : api[x].live /\ api[x].deleting => api'[x].live /\ api'[x].deleting
  BY <1>4, <1>7
<1>9. clock <= clock'
  BY <1>2, <1>3
<1> QED
  BY <1>1, <1>3, <1>6, <1>8, <1>9, WorkerUndisturbed DEF UniqueInv

LEMMA TimePasses ==
  ASSUME TypeOK, TypeOK', StoreInv, clock <= clock', doubtful \subseteq doubtful',
         UNCHANGED <<api, cache, events, pendingAllocations>>
  PROVE  StoreInv'
<1>1. TimesInPast'
  <2>1. clock \in Nat /\ clock' \in Nat
    BY DEF TypeOK
  <2> QED
    BY <2>1, ObjectTypes, EventTypes DEF TimesInPast, StoreInv, Position
<1>2. Known' \subseteq Known
  BY DEF Known
<1> QED
  BY <1>1, <1>2
     DEF StoreInv, VersionsOrdered, StreamShowsAddress, CacheShowsAddress, AddressKnown,
         OnlyOwnerConfirms, DeletionIsOurs, DeletingPersists, UniqueAddress, Holds,
         OwnWriteInFlight, Position

LEMMA QuietSteps ==
  ASSUME TypeOK, UniqueInv, (\E p \in Pool : SetPool(p)) \/ Tick
  PROVE  UniqueInv'
<1>1. TypeOK' /\ clock \in Nat
  BY SetPoolType, TickType, ObjectTypes
<1>2. clock <= clock' /\ UNCHANGED <<api, cache, events, rec, expectations, doubtful>>
  BY <1>1 DEF SetPool, Tick, controllerVars
<1>3. StoreInv'
  BY <1>1, <1>2, TimePasses DEF UniqueInv, expectations
<1>4. WorkerInv'
  BY <1>1, <1>2, WorkerUndisturbed DEF UniqueInv, Holds
<1> QED
  BY <1>3, <1>4 DEF UniqueInv

LEMMA DeliverPreserves == ASSUME TypeOK, UniqueInv, Deliver PROVE UniqueInv'
<1> DEFINE n == Len(events)
<1> DEFINE b == events[1].name
<1>1. n \in Nat /\ n >= 1 /\ b \in Alloc /\ events[1].obj \in Object
  <2>1. events \in Seq(Event) /\ events # << >>
    BY DEF Deliver, TypeOK
  <2>2. n \in Nat /\ n >= 1
    BY <2>1
  <2> QED
    BY <2>2, EventTypes DEF Position
<1>2. Len(events') = n - 1 /\ \A i \in 1..(n - 1) : events'[i] = events[i + 1]
  BY <1>1 DEF Deliver, TypeOK
<1>3. /\ cache'[b] = events[1].obj /\ \A x \in Alloc \ {b} : cache'[x] = cache[x]
      /\ UNCHANGED <<api, rec, pendingAllocations, pendingReleases, clock, doubtful>>
      /\ Known' = Known /\ Known \subseteq IP
  BY <1>1 DEF Deliver, TypeOK, expectations, Known
<1>4. /\ \A i \in 1..n : /\ events[i].name \in Alloc /\ events[i].obj.rv \in Nat
                         /\ events[i].obj.since \in Nat
      /\ \A x \in Alloc : api[x].rv \in Nat /\ cache[x].rv \in Nat
  BY EventTypes, ObjectTypes DEF Position
<1>5. Position' = 1..(n - 1) /\ Position = 1..n
  BY <1>2 DEF Position
<1> HIDE DEF n
<1>6. \A i \in Position' : i + 1 \in Position /\ events'[i] = events[i + 1] /\ i \in Nat
  BY <1>1, <1>2, <1>5
<1>7. 1 \in Position
  BY <1>1, <1>5
<1>8. \A ip \in IP : Holds(b, ip) => HasAddress(cache'[b], ip)
  BY <1>3, <1>7 DEF UniqueInv, StoreInv, StreamShowsAddress, Holds, HasAddress
<1>9. \A x \in Alloc \ {b} : OwnWriteInFlight(x) => OwnWriteInFlight(x)'
  <2> SUFFICES ASSUME NEW x \in Alloc \ {b}, NEW i \in 1..n, events[i].name = x, events[i].own
               PROVE  OwnWriteInFlight(x)'
    BY DEF OwnWriteInFlight, n
  <2>1. i - 1 \in Position' /\ events'[i - 1] = events[i]
    <3>1. i # 1
      OBVIOUS
    <3>2. i - 1 \in 1..(n - 1) /\ (i - 1) + 1 = i
      BY <1>1, <3>1
    <3> QED
      BY <1>2, <1>5, <3>2
  <2> QED
    BY <2>1 DEF OwnWriteInFlight, Position
<1>10. TimesInPast'
  BY <1>3, <1>6, <1>7 DEF TimesInPast, UniqueInv, StoreInv
<1>11. VersionsOrdered'
  <2>1. \A x \in Alloc : cache'[x].rv <= api'[x].rv
    BY <1>3, <1>7 DEF VersionsOrdered, UniqueInv, StoreInv
  <2>2. \A i \in Position' : /\ cache'[events'[i].name].rv < events'[i].obj.rv
                             /\ events'[i].obj.rv <= api'[events'[i].name].rv
    <3> SUFFICES ASSUME NEW i \in Position'
                 PROVE  /\ cache'[events'[i].name].rv < events'[i].obj.rv
                        /\ events'[i].obj.rv <= api'[events'[i].name].rv
      OBVIOUS
    <3>1. i + 1 \in Position /\ events'[i] = events[i + 1] /\ 1 < i + 1
      BY <1>5, <1>6
    <3>2. events[i + 1].name \in Alloc
      BY <1>4, <1>5, <3>1
    <3> QED
      BY <1>3, <1>7, <3>1, <3>2 DEF VersionsOrdered, UniqueInv, StoreInv
  <2>3. \A i, j \in Position' :
          i < j /\ events'[i].name = events'[j].name => events'[i].obj.rv < events'[j].obj.rv
    <3> SUFFICES ASSUME NEW i \in Position', NEW j \in Position',
                        i < j, events'[i].name = events'[j].name
                 PROVE  events'[i].obj.rv < events'[j].obj.rv
      OBVIOUS
    <3>1. i + 1 < j + 1
      BY <1>6
    <3> QED
      BY <1>6, <3>1 DEF VersionsOrdered, UniqueInv, StoreInv
  <2> QED
    BY <2>1, <2>2, <2>3 DEF VersionsOrdered
<1>12. StreamShowsAddress'
  BY <1>3, <1>6 DEF StreamShowsAddress, UniqueInv, StoreInv
<1>13. \A x \in Alloc : \A ip \in IP : Holds(x, ip)' <=> Holds(x, ip)
  BY <1>3 DEF Holds
<1>14. CacheShowsAddress'
  BY <1>3, <1>8, <1>9, <1>13 DEF CacheShowsAddress, UniqueInv, StoreInv
<1>15. AddressKnown'
  BY <1>3, <1>8, <1>13 DEF AddressKnown, UniqueInv, StoreInv
<1>16. OnlyOwnerConfirms'
  BY <1>3, <1>6, <1>7 DEF OnlyOwnerConfirms, UniqueInv, StoreInv
<1>17. DeletionIsOurs'
  <2>1. ASSUME NEW x \in Alloc, ~OwnWriteInFlight(x)'
        PROVE  DeletingPersists(x, cache[x])'
    <3>1. CASE x = b
      <4>1. \A j \in Position : 1 < j /\ events[j].name = b => ~events[j].own
        <5> SUFFICES ASSUME NEW j \in Position, 1 < j, events[j].name = b
                     PROVE  ~events[j].own
          OBVIOUS
        <5>1. j - 1 \in 1..(n - 1) /\ (j - 1) + 1 = j
          BY <1>1, <1>5
        <5>2. j - 1 \in Position' /\ events'[j - 1] = events[j]
          BY <1>2, <1>5, <5>1
        <5> QED
          BY <2>1, <3>1, <5>2 DEF OwnWriteInFlight, Position
      <4>2. DeletingPersists(b, events[1].obj)
        BY <1>7, <4>1 DEF DeletionIsOurs, UniqueInv, StoreInv
      <4> QED
        BY <1>3, <3>1, <4>2 DEF DeletingPersists
    <3>2. CASE x # b
      BY <1>3, <1>9, <2>1, <3>2 DEF DeletionIsOurs, DeletingPersists, UniqueInv, StoreInv
    <3> QED
      BY <3>1, <3>2
  <2>2. ASSUME NEW i \in Position',
               \A j \in Position' : i < j /\ events'[j].name = events'[i].name => ~events'[j].own
        PROVE  DeletingPersists(events[i].name, events[i].obj)'
    <3>1. \A j \in Position : i + 1 < j /\ events[j].name = events[i + 1].name => ~events[j].own
      <4> SUFFICES ASSUME NEW j \in Position, i + 1 < j, events[j].name = events[i + 1].name
                   PROVE  ~events[j].own
        OBVIOUS
      <4>1. j - 1 \in Position' /\ (j - 1) + 1 = j /\ i < j - 1
        BY <1>1, <1>5, <1>6
      <4> QED
        BY <1>6, <2>2, <4>1
    <3>2. DeletingPersists(events[i + 1].name, events[i + 1].obj)
      BY <1>6, <3>1 DEF DeletionIsOurs, UniqueInv, StoreInv
    <3> QED
      BY <1>3, <1>6, <3>2 DEF DeletingPersists
  <2> QED
    BY <2>1, <2>2 DEF DeletionIsOurs
<1>18. UniqueAddress'
  BY <1>3, <1>13 DEF UniqueAddress, UniqueInv, StoreInv
<1>19. WorkerInv'
  <2>1. ReadInv'
    <3> SUFFICES ASSUME rec.pc # "idle" PROVE ReadInv'
      BY <1>3 DEF ReadInv
    <3>1. rec.name \in Alloc /\ rec.obj.rv \in Nat
      BY DEF TypeOK, Reconciliation, Object
    <3>2. rec.obj.rv <= cache'[rec.name].rv
      BY <1>3, <1>4, <1>5, <1>7, <3>1 DEF ReadInv, WorkerInv, VersionsOrdered, UniqueInv, StoreInv
    <3>3. CacheShowsWorker => CacheShowsWorker'
      BY <1>3, <1>8, <1>13, <3>1 DEF CacheShowsWorker
    <3> QED
      BY <1>3, <3>2, <3>3 DEF ReadInv, WorkerInv, UniqueInv
  <2>2. ReleasedIsFree' /\ GrantInv'
    BY <1>3 DEF ReleasedIsFree, GrantInv, OnlyWorkerHolds, Holds, WorkerInv, UniqueInv
  <2>3. ReleaseInv'
    <3>1. rec.pc # "idle" => rec.name \in Alloc
      BY DEF TypeOK
    <3>2. OnlyWorkerHolds => OnlyWorkerHolds'
      BY <1>3 DEF OnlyWorkerHolds, Holds
    <3> QED
      BY <1>3, <1>8, <1>13, <3>1, <3>2 DEF ReleaseInv, WorkerInv, UniqueInv
  <2> QED
    BY <2>1, <2>2, <2>3 DEF WorkerInv
<1> QED
  BY <1>10, <1>11, <1>12, <1>14, <1>15, <1>16, <1>17, <1>18, <1>19 DEF UniqueInv, StoreInv

LEMMA CrashPreserves == ASSUME TypeOK, UniqueInv, Crash PROVE UniqueInv'
<1>1. /\ cache' = api /\ events' = << >> /\ rec' = Idle /\ api' = api /\ clock' = clock
      /\ Known' = Known /\ Known \subseteq IP
      /\ \A ip \in IP : pendingAllocations'[ip] = NoPending /\ pendingReleases'[ip] = NoTime
  BY DEF Crash, Known
<1>2. Position' = {}
  BY <1>1 DEF Position
<1>3. NoPending.at = 0 /\ NoPending.id = NoAlloc /\ clock \in Nat
  BY DEF NoPending, TypeOK
<1>4. rec'.pc = "idle"
  BY <1>1 DEF Idle
<1>5. TimesInPast' /\ VersionsOrdered' /\ StreamShowsAddress'
  BY <1>1, <1>2, <1>3, ObjectTypes DEF TimesInPast, VersionsOrdered, StreamShowsAddress, UniqueInv, StoreInv
<1>6. CacheShowsAddress' /\ AddressKnown'
  BY <1>1 DEF CacheShowsAddress, AddressKnown, Holds, HasAddress
<1>7. OnlyOwnerConfirms'
  BY <1>1, <1>2, <1>3 DEF OnlyOwnerConfirms
<1>8. DeletionIsOurs' /\ UniqueAddress'
  BY <1>1, <1>2 DEF DeletionIsOurs, DeletingPersists, UniqueAddress, Holds, UniqueInv, StoreInv
<1>9. WorkerInv'
  BY <1>1, <1>4 DEF WorkerInv, ReleasedIsFree, ReadInv, ReleaseInv, GrantInv
<1> QED
  BY <1>5, <1>6, <1>7, <1>8, <1>9 DEF UniqueInv, StoreInv

LEMMA IdleWorker == ASSUME rec' = Idle, ReleasedIsFree' PROVE WorkerInv'
<1>1. rec'.pc = "idle"
  BY DEF Idle
<1> QED
  BY <1>1 DEF WorkerInv, ReadInv, ReleaseInv, GrantInv

(***************************************************************************)
(* A name whose own writes have arrived is read as the API server has it;  *)
(* otherwise the addresses that could be mistaken are doubtful.            *)
(***************************************************************************)
LEMMA StartPreserves ==
  ASSUME TypeOK, UniqueInv, NEW a \in Alloc, Start(a)
  PROVE  UniqueInv'
<1>1. /\ TypeOK' /\ rec.pc = "idle"
      /\ UNCHANGED <<api, cache, events, pendingAllocations, pendingReleases, clock>>
      /\ doubtful' = doubtful \cup Misread(a)
  BY StartType DEF Start, expectations
<1>2. /\ doubtful \subseteq doubtful' /\ Known' \subseteq Known /\ Known \subseteq IP
      /\ \A ip \in Known' : ip \notin Misread(a)
  BY <1>1 DEF Known
<1>3. StoreInv'
  BY <1>1, <1>2, TimePasses, ObjectTypes DEF UniqueInv
<1>4. \A x \in Alloc : \A ip \in IP : Holds(x, ip)' <=> Holds(x, ip)
  BY <1>1 DEF Holds
<1>5. ReleasedIsFree'
  BY <1>1, <1>2, <1>4 DEF ReleasedIsFree, WorkerInv, UniqueInv
<1>6. CASE Branch(cache[a]) = "idle"
  BY <1>3, <1>5, <1>6, IdleWorker DEF Start, UniqueInv
<1>7. CASE Branch(cache[a]) # "idle"
  <2> DEFINE o == cache[a]
  <2>1. /\ rec'.pc = Branch(o) /\ rec'.name = a /\ rec'.obj = o
        /\ rec'.ip = IF Branch(o) = "cleanup" THEN o.addr ELSE NoIP
    BY <1>7 DEF Start, Idle
  <2>2. o \in Object
    BY ObjectTypes
  <2>3. ReadInv'
    <3>1. Branch(o) \notin {"program", "update"}
      BY <2>2 DEF Branch, Object
    <3>2. ASSUME Branch(o) = "decide" PROVE CacheShowsWorker'
      <4>1. CASE ~OwnWriteInFlight(a)
        BY <1>1, <1>2, <1>4, <2>1, <4>1
           DEF CacheShowsWorker, CacheShowsAddress, UniqueInv, StoreInv
      <4>2. CASE OwnWriteInFlight(a)
        <5>1. \A ip \in Known' : ip # api[a].addr
          BY <1>2, <3>2, <4>2 DEF Misread
        <5> QED
          BY <1>1, <2>1, <5>1 DEF CacheShowsWorker, Holds
      <4> QED
        BY <4>1, <4>2
    <3> QED
      BY <1>1, <2>1, <3>1, <3>2, ObjectTypes DEF ReadInv, TimesInPast, UniqueInv, StoreInv
  <2>4. ReleaseInv'
    <3>1. rec'.pc = "unfinalize" => rec'.ip \notin IP
      BY <2>1, IPAssumption
    <3>2. ASSUME rec'.pc = "cleanup", rec'.ip \in Known'
          PROVE  /\ api'[a].live /\ api'[a].deleting /\ OnlyWorkerHolds'
                 /\ HasAddress(cache[a], rec.ip)'
      <4>1. Branch(o) = "cleanup" /\ rec'.ip = o.addr /\ o.addr \in Known
        BY <1>2, <2>1, <3>2
      <4>2. o.live /\ o.deleting /\ Allocated(o)
        BY <2>2, <4>1 DEF Branch, Object
      <4>3. ~OwnWriteInFlight(a)
        BY <1>2, <3>2, <4>1 DEF Misread
      <4>4. /\ api[a].live /\ api[a].deleting
            /\ api[a].phase = o.phase /\ api[a].addr = o.addr
        BY <4>2, <4>3 DEF DeletionIsOurs, DeletingPersists, UniqueInv, StoreInv
      <4>5. Holds(a, o.addr)
        BY <4>2, <4>4 DEF Holds, Allocated
      <4>6. OnlyWorkerHolds'
        BY <1>2, <1>4, <2>1, <4>1, <4>5 DEF OnlyWorkerHolds, UniqueAddress, UniqueInv, StoreInv
      <4>7. HasAddress(cache[a], rec'.ip)
        BY <4>1, <4>2 DEF HasAddress
      <4>8. HasAddress(cache[a], rec.ip)'
        BY <1>1, <4>7
      <4>9. api'[a].live /\ api'[a].deleting
        BY <1>1, <4>4
      <4> QED
        BY <4>6, <4>8, <4>9
    <3>3. Known' \subseteq IP
      BY <1>2
    <3> QED
      BY <2>1, <3>1, <3>2, <3>3 DEF ReleaseInv
  <2>5. GrantInv'
    <3>1. Branch(o) \notin {"program", "update"}
      BY <2>2 DEF Branch, Object
    <3> QED
      BY <2>1, <3>1 DEF GrantInv
  <2> QED
    BY <1>3, <1>5, <2>3, <2>4, <2>5 DEF WorkerInv, UniqueInv
<1> QED
  BY <1>6, <1>7

\* Withdrawing the advertisement and staging the release.
LEMMA CleanupPreserves ==
  ASSUME TypeOK, UniqueInv, CleanupAdvertisement
  PROVE  UniqueInv'
<1>1. /\ TypeOK' /\ rec.pc = "cleanup" /\ rec.name \in Alloc /\ rec.ip \in IP
      /\ rec \in Reconciliation
      /\ UNCHANGED <<api, cache, events, doubtful>>
      /\ Known' = Known /\ Known \subseteq IP
  BY CleanupType DEF CleanupAdvertisement, TypeOK, Known
<1>2. \A x \in Alloc : \A ip \in IP : Holds(x, ip)' <=> Holds(x, ip)
  BY <1>1 DEF Holds
<1>3. CASE Return(TRUE) /\ UNCHANGED <<expectations, clock>>
  <2>1. StoreInv'
    BY <1>1, <1>3, TimePasses, ObjectTypes DEF UniqueInv, expectations
  <2>2. ReleasedIsFree'
    BY <1>1, <1>2, <1>3 DEF ReleasedIsFree, WorkerInv, UniqueInv, expectations
  <2> QED
    BY <1>3, <2>1, <2>2, IdleWorker DEF Return, UniqueInv
<1>4. CASE /\ clock' = clock + 1
           /\ pendingReleases' = StageReleaseTimes(pendingAllocations, pendingReleases, rec.ip, clock + 1)
           /\ pendingAllocations' = StageReleasePending(pendingAllocations, rec.ip, clock + 1)
           /\ rec' = [rec EXCEPT !.pc = "unfinalize", !.at = clock + 1]
  <2>1. clock \in Nat /\ \A ip \in IP : pendingAllocations[ip].at \in Nat /\ pendingAllocations[ip].at <= clock
    BY ObjectTypes DEF TimesInPast, UniqueInv, StoreInv
  <2>2. ~ReleaseOutdated(pendingAllocations, rec.ip, clock + 1)
    BY <1>1, <2>1 DEF ReleaseOutdated
  <2>3. /\ pendingReleases'[rec.ip] = clock + 1
        /\ \A ip \in IP \ {rec.ip} : pendingReleases'[ip] = pendingReleases[ip]
        /\ pendingAllocations'[rec.ip] = NoPending
        /\ \A ip \in IP \ {rec.ip} : pendingAllocations'[ip] = pendingAllocations[ip]
    BY <1>1, <1>4, <2>2 DEF StageReleaseTimes, StageReleasePending, TypeOK
  <2>4. /\ rec'.pc = "unfinalize" /\ rec'.at = clock + 1 /\ rec'.name = rec.name
        /\ rec'.ip = rec.ip /\ rec'.obj = rec.obj
    BY <1>1, <1>4 DEF Reconciliation
  <2>5. NoPending.at = 0 /\ NoPending.id = NoAlloc
    BY DEF NoPending
  <2>6. rec.ip \in Known =>
          /\ api[rec.name].live /\ api[rec.name].deleting /\ OnlyWorkerHolds
          /\ Holds(rec.name, rec.ip) => HasAddress(cache[rec.name], rec.ip)
    BY <1>1 DEF ReleaseInv, WorkerInv, UniqueInv
  <2>7. TimesInPast'
    BY <1>1, <1>4, <2>1, <2>3, <2>5, ObjectTypes, EventTypes DEF TimesInPast, UniqueInv, StoreInv, Position
  <2>8. AddressKnown'
    BY <1>1, <1>2, <2>3, <2>6 DEF AddressKnown, OnlyWorkerHolds, UniqueInv, StoreInv
  <2>9. OnlyOwnerConfirms'
    BY <1>1, <2>3, <2>5 DEF OnlyOwnerConfirms, Position, UniqueInv, StoreInv
  <2>10. StoreInv'
    BY <1>1, <1>2, <2>7, <2>8, <2>9 DEF UniqueInv, StoreInv, VersionsOrdered, StreamShowsAddress,
         CacheShowsAddress, DeletionIsOurs, DeletingPersists, UniqueAddress, OwnWriteInFlight, Position
  <2>11. ReleasedIsFree'
    BY <1>1, <1>2, <2>3, <2>4, <2>6 DEF ReleasedIsFree, OnlyWorkerHolds, WorkerInv, UniqueInv
  <2>12. ReadInv'
    <3>1. rec.obj.since \in Nat /\ rec.obj.since <= clock /\ rec.obj.rv <= cache[rec.name].rv
      BY <1>1 DEF ReadInv, WorkerInv, UniqueInv, Reconciliation, Object
    <3> QED
      BY <1>1, <1>4, <2>1, <2>4, <3>1 DEF ReadInv
  <2>13. ReleaseInv'
    <3>1. rec.ip \in Known => OnlyWorkerHolds'
      BY <1>1, <1>2, <2>4, <2>6 DEF OnlyWorkerHolds
    <3> QED
      BY <1>1, <1>2, <2>3, <2>4, <2>6, <3>1 DEF ReleaseInv
  <2>14. GrantInv'
    BY <2>4 DEF GrantInv
  <2> QED
    BY <2>10, <2>11, <2>12, <2>13, <2>14 DEF WorkerInv, UniqueInv
<1> QED
  BY <1>3, <1>4 DEF CleanupAdvertisement

LEMMA PutCases ==
  ASSUME NEW a, NEW o, NEW own, Put(a, o, own)
  PROVE  UNCHANGED <<api, events>> \/ Write(a, o, own)
  BY DEF Put

\* Removing the finalizer ends the deletion, or else takes the release back.
LEMMA RemoveFinalizerPreserves ==
  ASSUME TypeOK, UniqueInv, RemoveFinalizer
  PROVE  UniqueInv'
<1> DEFINE a == rec.name
<1> DEFINE o == Unfinalized(api[a])
<1>1. /\ TypeOK' /\ rec.pc = "unfinalize" /\ a \in Alloc /\ rec.ip \in IP \cup {NoIP}
      /\ rec' = Idle /\ clock \in Nat
      /\ UNCHANGED <<cache, clock, pendingAllocations, doubtful>>
      /\ Known' = Known /\ Known \subseteq IP
  BY RemoveFinalizerType, ObjectTypes
     DEF RemoveFinalizer, TypeOK, Reconciliation, Return, Known
<1>2. /\ api[a] \in Object /\ api[a].rv \in Nat /\ api[a].since <= clock
      /\ rec.ip \in IP => pendingReleases[rec.ip] = rec.at
      /\ rec.ip \in Known => api[a].live /\ api[a].deleting
  BY <1>1, ObjectTypes DEF ReleaseInv, WorkerInv, TimesInPast, UniqueInv, StoreInv
<1>3. NoIP \notin IP
  BY IPAssumption
<1>4. /\ \A ip \in IP : pendingReleases'[ip] # NoTime => pendingReleases[ip] # NoTime
      /\ ~Put(a, o, TRUE) /\ rec.ip \in IP => pendingReleases'[rec.ip] = NoTime
  <2>1. CASE UNCHANGED pendingReleases
    <3>1. ~Put(a, o, TRUE) /\ rec.ip \in IP => pendingReleases'[rec.ip] = NoTime
      BY <1>1, <1>2, <1>3, <2>1 DEF RemoveFinalizer, UnstageRelease, TypeOK
    <3> QED
      BY <2>1, <3>1
  <2>2. CASE pendingReleases' = UnstageRelease(pendingReleases, rec.ip, rec.at)
    BY <1>1, <1>2, <1>3, <2>2 DEF UnstageRelease, TypeOK
  <2> QED
    BY <2>1, <2>2 DEF RemoveFinalizer
<1>5. CASE UNCHANGED <<api, events>> /\ ~Put(a, o, TRUE)
  <2>1. StoreInv'
    BY <1>1, <1>5, TimePasses DEF UniqueInv
  <2>2. ReleasedIsFree'
    BY <1>1, <1>4, <1>5 DEF ReleasedIsFree, Holds, WorkerInv, UniqueInv
  <2> QED
    BY <1>1, <2>1, <2>2, IdleWorker DEF UniqueInv
<1>6. CASE Put(a, o, TRUE)
  <2>1. CASE ~api[a].deleting
    <3>1. /\ o \in Object /\ o.phase = api[a].phase /\ o.addr = api[a].addr
          /\ o.since = api[a].since
      BY <1>2, <2>1 DEF Unfinalized, Object
    <3>2. UNCHANGED <<api, events>> \/ Write(a, o, TRUE)
      BY <1>6, PutCases
    <3>3. rec.ip \notin Known
      BY <1>2, <2>1
    <3> HIDE DEF o
    <3>4. StoreInv' /\ \A x \in Alloc : \A ip \in IP : Holds(x, ip)' => Holds(x, ip)
      <4>1. CASE UNCHANGED <<api, events>>
        BY <1>1, <4>1, TimePasses DEF UniqueInv, Holds
      <4>2. CASE Write(a, o, TRUE)
        <5>1. QuietWrite(a, o, TRUE)
          BY <1>1, <1>2, <3>1, <4>2 DEF QuietWrite, HasAddress, Allocated
        <5> QED
          BY <1>1, <3>1, <5>1, QuietWritePreserves DEF UniqueInv
      <4> QED
        BY <3>2, <4>1, <4>2
    <3>5. ReleasedIsFree'
      BY <1>1, <1>4, <3>3, <3>4 DEF ReleasedIsFree, WorkerInv, UniqueInv
    <3> QED
      BY <1>1, <3>4, <3>5, IdleWorker DEF UniqueInv
  <2>2. CASE api[a].deleting
    <3>1. PICK g : g = Gone(api[a].rv)
      OBVIOUS
    <3>2. g \in Object /\ g.phase = "" /\ g.since = 0 /\ o = g
      BY <1>2, <2>2, <3>1, GoneType, GoneStatus DEF Unfinalized
    <3>3. ~Allocated(g)
      BY <3>2 DEF Allocated
    <3> HIDE DEF o
    <3>4. CASE Write(a, g, TRUE)
      <4>1. QuietWrite(a, g, TRUE)
        <5>1. g.since <= clock /\ doubtful \subseteq doubtful'
          <6>1. g.since = 0 /\ clock \in Nat /\ doubtful' = doubtful
            BY <1>1, <3>2
          <6> QED
            BY <6>1
        <5> QED
          BY <1>1, <3>3, <3>4, <5>1, Zenon DEF QuietWrite
      <4>2. StoreInv' /\ \A x \in Alloc : \A ip \in IP : Holds(x, ip)' => Holds(x, ip)
        BY <1>1, <3>2, <4>1, QuietWritePreserves DEF UniqueInv
      <4>3. \A x \in Alloc : \A ip \in IP : x = a => ~Holds(x, ip)'
        BY <1>1, <3>2, <3>3, <3>4, WriteFacts, ZenonT(40) DEF Holds, Allocated
      <4>4. ReleasedIsFree'
        BY <1>1, <1>4, <4>2, <4>3 DEF ReleasedIsFree, WorkerInv, UniqueInv
      <4> QED
        BY <1>1, <4>2, <4>4, IdleWorker DEF UniqueInv
    <3>5. CASE UNCHANGED <<api, events>> /\ g = api[a]
      <4>1. StoreInv'
        BY <1>1, <3>5, TimePasses DEF UniqueInv
      <4>2. \A ip \in IP : ~Holds(a, ip)
        BY <3>3, <3>5 DEF Holds
      <4>3. ReleasedIsFree'
        BY <1>1, <1>4, <3>5, <4>2 DEF ReleasedIsFree, Holds, WorkerInv, UniqueInv
      <4> QED
        BY <1>1, <4>1, <4>3, IdleWorker DEF UniqueInv
    <3> QED
      BY <1>6, <3>2, <3>4, <3>5 DEF Put
  <2> QED
    BY <2>1, <2>2
<1> QED
  BY <1>5, <1>6 DEF RemoveFinalizer

LEMMA AddFinalizerPreserves ==
  ASSUME TypeOK, UniqueInv, AddFinalizer
  PROVE  UniqueInv'
<1> DEFINE a == rec.name
<1> DEFINE o == [api[a] EXCEPT !.fin = TRUE]
<1>1. /\ TypeOK' /\ rec.pc = "finalize" /\ a \in Alloc /\ rec' = Idle
      /\ UNCHANGED <<cache, clock, pendingAllocations, pendingReleases, doubtful>>
      /\ Known' = Known /\ Known \subseteq IP
      /\ clock \in Nat /\ api[a] \in Object /\ api[a].since <= clock
  BY AddFinalizerType, ObjectTypes
     DEF AddFinalizer, TypeOK, Return, expectations, TimesInPast, Known, UniqueInv, StoreInv
<1>2. /\ o \in Object /\ o.live = api[a].live /\ o.deleting = api[a].deleting
      /\ o.phase = api[a].phase /\ o.addr = api[a].addr /\ o.since = api[a].since
  BY <1>1 DEF Object
<1>3. UNCHANGED <<api, events>> \/ Write(a, o, TRUE)
  BY PutCases DEF AddFinalizer
<1> HIDE DEF o
<1>4. CASE UNCHANGED <<api, events>>
  <2>1. StoreInv'
    BY <1>1, <1>4, TimePasses DEF UniqueInv
  <2>2. ReleasedIsFree'
    BY <1>1, <1>4 DEF ReleasedIsFree, Holds, WorkerInv, UniqueInv
  <2> QED
    BY <1>1, <2>1, <2>2, IdleWorker DEF UniqueInv
<1>5. CASE Write(a, o, TRUE)
  <2>1. QuietWrite(a, o, TRUE)
    BY <1>1, <1>2, <1>5 DEF QuietWrite, HasAddress, Allocated
  <2>2. StoreInv' /\ \A x \in Alloc : \A ip \in IP : Holds(x, ip)' => Holds(x, ip)
    BY <1>1, <1>2, <2>1, QuietWritePreserves DEF UniqueInv
  <2>3. ReleasedIsFree'
    BY <1>1, <2>2 DEF ReleasedIsFree, WorkerInv, UniqueInv
  <2> QED
    BY <1>1, <2>2, <2>3, IdleWorker DEF UniqueInv
<1> QED
  BY <1>3, <1>4, <1>5

(***************************************************************************)
(* A change of the pending allocations that leaves every address known and *)
(* stages new ones with the current time only.                             *)
(***************************************************************************)
LEMMA PendingChanges ==
  ASSUME TypeOK, TypeOK', StoreInv, UNCHANGED <<api, cache, events, doubtful>>,
         clock <= clock',
         \A ip \in Known : \A x \in Alloc :
           Holds(x, ip) => HasAddress(cache[x], ip) \/ pendingAllocations'[ip].id = x,
         \A ip \in IP : \/ pendingAllocations'[ip] = pendingAllocations[ip]
                        \/ pendingAllocations'[ip] = NoPending
                        \/ clock < pendingAllocations'[ip].at /\ pendingAllocations'[ip].at <= clock'
  PROVE  StoreInv'
<1>1. clock \in Nat /\ clock' \in Nat /\ NoPending.at = 0 /\ NoPending.id = NoAlloc
  BY DEF TypeOK, NoPending
<1>2. \A ip \in IP : pendingAllocations[ip].at \in Nat /\ pendingAllocations'[ip].at \in Nat
  BY DEF TypeOK, Pending
<1>3. TimesInPast'
  BY <1>1, <1>2, ObjectTypes, EventTypes DEF TimesInPast, StoreInv, Position
<1>4. Known' = Known /\ Known \subseteq IP /\ AddressKnown'
  BY DEF AddressKnown, Holds, Known
<1>5. OnlyOwnerConfirms'
  <2> SUFFICES ASSUME NEW ip \in Known, NEW x \in Alloc,
                      pendingAllocations'[ip].id \notin {x, NoAlloc},
                      NEW o, o.since \in Nat, o.since <= clock,
                      ~(HasAddress(o, ip) /\ pendingAllocations[ip].at <= o.since)
                        \/ pendingAllocations[ip].id \in {x, NoAlloc}
               PROVE  ~(HasAddress(o, ip) /\ pendingAllocations'[ip].at <= o.since)
    BY <1>4, ObjectTypes, EventTypes DEF OnlyOwnerConfirms, TimesInPast, StoreInv, Position
  <2>1. CASE pendingAllocations'[ip] = pendingAllocations[ip]
    BY <2>1
  <2>2. CASE pendingAllocations'[ip] = NoPending
    BY <1>1, <2>2
  <2>3. CASE clock < pendingAllocations'[ip].at
    BY <1>1, <1>2, <1>4, <2>3
  <2> QED
    BY <1>4, <2>1, <2>2, <2>3
<1> QED
  BY <1>3, <1>4, <1>5
     DEF StoreInv, VersionsOrdered, StreamShowsAddress, CacheShowsAddress, DeletionIsOurs,
         DeletingPersists, UniqueAddress, Holds, OwnWriteInFlight, Position

\* Confirm forgets only what the cache shows, and no release that is new.
LEMMA ConfirmFacts ==
  ASSUME TypeOK, StoreInv
  PROVE  /\ ConfirmedAllocations \in [IP -> Pending] /\ ConfirmedReleases \in [IP -> Nat]
         /\ \A ip \in IP : /\ ConfirmedAllocations[ip] \in {pendingAllocations[ip], NoPending}
                           /\ ConfirmedReleases[ip] \in {pendingReleases[ip], NoTime}
         /\ \A ip \in Known : \A x \in Alloc :
              Holds(x, ip) => HasAddress(cache[x], ip) \/ ConfirmedAllocations[ip].id = x
<1>1. /\ pendingAllocations \in [IP -> Pending] /\ pendingReleases \in [IP -> Nat]
      /\ NoPending \in Pending
  BY PendingType DEF TypeOK
<1>2. /\ ConfirmedAllocations \in [IP -> Pending] /\ ConfirmedReleases \in [IP -> Nat]
      /\ \A ip \in IP : /\ ConfirmedAllocations[ip] \in {pendingAllocations[ip], NoPending}
                        /\ ConfirmedReleases[ip] \in {pendingReleases[ip], NoTime}
  BY <1>1 DEF ConfirmedAllocations, ConfirmedReleases, ConfirmAllocations, ConfirmReleases
<1>3. ASSUME NEW ip \in Known, NEW x \in Alloc, Holds(x, ip), ~HasAddress(cache[x], ip)
      PROVE  ConfirmedAllocations[ip].id = x
  <2>1. pendingAllocations[ip].id = x
    BY <1>3 DEF AddressKnown, StoreInv
  <2>2. ASSUME NEW t \in AllocTimes(cache, Alloc, ip), t >= pendingAllocations[ip].at PROVE FALSE
    <3>1. PICK y \in Alloc : Allocated(cache[y]) /\ cache[y].addr = ip /\ cache[y].since = t
      BY <2>2 DEF AllocTimes
    <3>2. pendingAllocations[ip].at <= cache[y].since /\ HasAddress(cache[y], ip)
      BY <2>2, <3>1, ObjectTypes DEF HasAddress
    <3>3. y # x
      BY <1>3, <3>2
    <3> QED
      BY <2>1, <3>2, <3>3, AllocAssumption DEF OnlyOwnerConfirms, StoreInv
  <2>3. ConfirmedAllocations[ip] = pendingAllocations[ip]
    BY <2>2 DEF ConfirmedAllocations, ConfirmAllocations, Known
  <2> QED
    BY <2>1, <2>3
<1> QED
  BY <1>2, <1>3

\* An address that is granted is not held by anyone else.
LEMMA CandidateIsFree ==
  ASSUME TypeOK, UniqueInv, rec.pc = "decide",
         NEW a \in Alloc, NEW p \in Pool, NEW ip \in Known, <<p, ip>> \in Candidates(a)
  PROVE  \A x \in Alloc \ {a} : ~Holds(x, ip)
<1> SUFFICES ASSUME NEW x \in Alloc \ {a}, Holds(x, ip) PROVE FALSE
  OBVIOUS
<1>1. ip \in IP /\ ip \notin Used(a) /\ CanStage(ConfirmedAllocations, a, ip)
  BY DEF Candidates, Known
<1>2. ConfirmedAllocations[ip].id # x
  BY <1>1, AllocAssumption DEF CanStage
<1>3. HasAddress(cache[x], ip)
  BY <1>2, ConfirmFacts DEF UniqueInv
<1>4. cache[x].since \in UseTimes(ConfirmedAllocations, cache, a, ip)
  BY <1>3 DEF UseTimes, AllocTimes, HasAddress
<1>5. ConfirmedReleases[ip] # NoTime
  BY <1>1, <1>4 DEF Used, Resolve
<1>6. pendingReleases[ip] # NoTime
  BY <1>1, <1>5, ConfirmFacts DEF UniqueInv
<1> QED
  BY <1>6 DEF ReleasedIsFree, WorkerInv, UniqueInv

LEMMA GrantPreserves ==
  ASSUME TypeOK, TypeOK', UniqueInv, rec.pc = "decide",
         NEW p \in Pool, NEW ip \in IP, NEW now \in Nat,
         <<p, ip>> \in Candidates(rec.name), now \in {clock + 1, clock + 2},
         Grant(p, ip, now), UNCHANGED <<api, cache, events, doubtful>>
  PROVE  UniqueInv'
<1> DEFINE o == GrantedStatus(rec.obj, ip, pools[p].advertise, now)
<1>1. /\ rec \in Reconciliation /\ rec.name \in Alloc /\ rec.obj \in Object /\ clock \in Nat
      /\ rec.obj.since \in Nat
  BY DEF TypeOK, Reconciliation, Object
<1>2. /\ ip \in Known => \A x \in Alloc \ {rec.name} : ~Holds(x, ip)
      /\ Known' = Known /\ Known \subseteq IP
  BY <1>1, CandidateIsFree DEF Known
<1>3. /\ clock' = now /\ clock < clock + 1 /\ clock + 1 <= now /\ clock <= now
      /\ pendingAllocations'[ip] = [id |-> rec.name, at |-> clock + 1]
      /\ \A i \in IP \ {ip} : pendingAllocations'[i] = ConfirmedAllocations[i]
      /\ pendingReleases'[ip] = NoTime
      /\ \A i \in IP \ {ip} : pendingReleases'[i] = ConfirmedReleases[i]
  BY <1>1, ConfirmFacts DEF Grant, StageAllocation, ClearRelease, UniqueInv
<1>4. /\ rec'.pc = "program" /\ rec'.name = rec.name /\ rec'.obj = o /\ rec'.ip = ip
      /\ rec'.at = clock + 1
  BY <1>1 DEF Grant, Reconciliation
<1>5. o.phase = "Allocated" /\ o.addr = ip /\ o.rv = rec.obj.rv
      /\ o.since \in {rec.obj.since, Stored(now)}
  BY <1>1 DEF GrantedStatus, Object
<1> HIDE DEF o
<1>6. /\ rec.obj.since <= clock /\ rec.obj.rv <= cache[rec.name].rv /\ CacheShowsWorker
  BY DEF ReadInv, WorkerInv, UniqueInv
<1>7. \A x \in Alloc : \A i \in IP : Holds(x, i)' <=> Holds(x, i)
  BY DEF Holds
<1>8. StoreInv'
  <2>1. \A i \in Known : \A x \in Alloc :
          Holds(x, i) => HasAddress(cache[x], i) \/ pendingAllocations'[i].id = x
    BY <1>2, <1>3, ConfirmFacts DEF UniqueInv
  <2>2. \A i \in IP : \/ pendingAllocations'[i] = pendingAllocations[i]
                      \/ pendingAllocations'[i] = NoPending
                      \/ clock < pendingAllocations'[i].at /\ pendingAllocations'[i].at <= clock'
    BY <1>1, <1>3, ConfirmFacts DEF UniqueInv
  <2> QED
    BY <1>3, <2>1, <2>2, PendingChanges DEF UniqueInv
<1>9. ReleasedIsFree'
  BY <1>2, <1>3, <1>7, ConfirmFacts DEF ReleasedIsFree, WorkerInv, UniqueInv
<1>10. ReadInv'
  <2>1. o.since <= now
    <3>1. Stored(now) \in Nat /\ Stored(now) <= now
      BY StoredType
    <3> QED
      BY <1>1, <1>3, <1>5, <1>6, <3>1
  <2> QED
    BY <1>1, <1>2, <1>3, <1>4, <1>5, <1>6, <1>7, <2>1 DEF ReadInv, CacheShowsWorker
<1>11. ReleaseInv'
  BY <1>4 DEF ReleaseInv
<1>12. GrantInv'
  <2>1. HasAddress(rec'.obj, rec'.ip)
    BY <1>4, <1>5, IPAssumption DEF HasAddress, Allocated
  <2>2. ip \in Known => OnlyWorkerHolds'
    BY <1>2, <1>4, <1>7 DEF OnlyWorkerHolds
  <2> QED
    BY <1>2, <1>3, <1>4, <2>1, <2>2 DEF GrantInv
<1> QED
  BY <1>8, <1>9, <1>10, <1>11, <1>12 DEF WorkerInv, UniqueInv

LEMMA DenyPreserves ==
  ASSUME TypeOK, TypeOK', UniqueInv, rec.pc = "decide", Deny,
         UNCHANGED <<api, cache, events, doubtful>>
  PROVE  UniqueInv'
<1> DEFINE o == DeniedStatus(rec.obj, DenyReason(rec.name))
<1>1. rec \in Reconciliation /\ rec.name \in Alloc /\ rec.obj \in Object /\ clock \in Nat
  BY DEF TypeOK, Reconciliation
<1>2. /\ pendingAllocations' = ConfirmedAllocations /\ pendingReleases' = ConfirmedReleases
      /\ clock' = clock
      /\ rec'.pc = "update" /\ rec'.name = rec.name /\ rec'.obj = o /\ rec'.ip = rec.ip
  BY <1>1 DEF Deny, Reconciliation
<1>3. o.phase = "Failed" /\ o.since = 0 /\ o.rv = rec.obj.rv
  BY <1>1 DEF DeniedStatus, Object
<1> HIDE DEF o
<1>4. rec.ip = NoIP /\ NoIP \notin IP /\ Known' = Known /\ Known \subseteq IP
  BY IPAssumption DEF GrantInv, WorkerInv, UniqueInv, Known
<1>5. \A x \in Alloc : \A i \in IP : Holds(x, i)' <=> Holds(x, i)
  BY DEF Holds
<1>6. StoreInv'
  BY <1>1, <1>2, ConfirmFacts, PendingChanges DEF UniqueInv
<1>7. ReleasedIsFree'
  BY <1>2, <1>4, <1>5, ConfirmFacts DEF ReleasedIsFree, WorkerInv, UniqueInv
<1>8. ReadInv'
  <2>1. rec.obj.rv <= cache[rec.name].rv /\ CacheShowsWorker
    BY DEF ReadInv, WorkerInv, UniqueInv
  <2>2. CacheShowsWorker'
    BY <1>1, <1>2, <1>4, <1>5, <2>1 DEF CacheShowsWorker
  <2> QED
    BY <1>1, <1>2, <1>3, <2>1, <2>2 DEF ReadInv
<1>9. ReleaseInv' /\ GrantInv'
  BY <1>2, <1>3, <1>4 DEF ReleaseInv, GrantInv, Allocated
<1> QED
  BY <1>6, <1>7, <1>8, <1>9 DEF WorkerInv, UniqueInv

LEMMA DecidePreserves == ASSUME TypeOK, UniqueInv, Decide PROVE UniqueInv'
<1>1. /\ TypeOK' /\ rec.pc = "decide" /\ UNCHANGED <<api, cache, events, doubtful>>
      /\ Known' = Known /\ Known \subseteq IP
  BY DecideType DEF Decide, Known
<1>2. CASE PoolListFails
  <2>1. rec' = Idle /\ UNCHANGED <<pendingAllocations, pendingReleases, clock>>
    BY <1>2 DEF PoolListFails, Return, expectations
  <2>2. StoreInv'
    BY <1>1, <2>1, TimePasses, ObjectTypes DEF UniqueInv
  <2>3. ReleasedIsFree'
    BY <1>1, <2>1 DEF ReleasedIsFree, Holds, WorkerInv, UniqueInv
  <2> QED
    BY <2>1, <2>2, <2>3, IdleWorker DEF UniqueInv
<1> QED
  BY <1>1, <1>2, DecideCases, GrantPreserves, DenyPreserves

LEMMA ProgramPreserves == ASSUME TypeOK, UniqueInv, Program PROVE UniqueInv'
<1>1. /\ TypeOK' /\ rec.pc = "program" /\ rec \in Reconciliation /\ rec.name \in Alloc
      /\ rec.obj \in Object /\ rec.ip \in IP /\ clock \in Nat
      /\ UNCHANGED <<api, cache, events, pendingAllocations, pendingReleases, clock, doubtful>>
      /\ Known' = Known /\ Known \subseteq IP
  BY ProgramType DEF Program, TypeOK, Reconciliation, expectations, Known
<1>2. PICK o \in {Programmed(rec.obj), NotAdvertised(rec.obj), ProgrammingFailed(rec.obj)} :
        /\ rec'.pc = "update" /\ rec'.name = rec.name /\ rec'.ip = rec.ip /\ rec'.at = rec.at
        /\ rec'.obj = o
  BY <1>1 DEF Program, Reconciliation
<1>3. /\ HasAddress(rec.obj, rec.ip) /\ (rec.ip \in Known => OnlyWorkerHolds)
      /\ pendingAllocations[rec.ip] = [id |-> rec.name, at |-> rec.at]
      /\ pendingReleases[rec.ip] = NoTime
  BY <1>1 DEF GrantInv, WorkerInv, UniqueInv
<1>4. HasAddress(o, rec.ip) /\ o.since = rec.obj.since /\ o.rv = rec.obj.rv
  BY <1>1, <1>3 DEF Programmed, NotAdvertised, ProgrammingFailed, Object, HasAddress, Allocated
<1>5. \A x \in Alloc : \A ip \in IP : Holds(x, ip)' <=> Holds(x, ip)
  BY <1>1 DEF Holds
<1>6. StoreInv'
  BY <1>1, TimePasses DEF UniqueInv
<1>7. ReleasedIsFree'
  BY <1>1, <1>5 DEF ReleasedIsFree, WorkerInv, UniqueInv
<1>8. ReadInv'
  <2>1. rec.obj.since <= clock /\ rec.obj.rv <= cache[rec.name].rv /\ CacheShowsWorker
    BY <1>1 DEF ReadInv, WorkerInv, UniqueInv
  <2>2. CacheShowsWorker'
    BY <1>1, <1>2, <1>5, <2>1 DEF CacheShowsWorker
  <2> QED
    BY <1>1, <1>2, <1>4, <2>1, <2>2 DEF ReadInv
<1>9. GrantInv' /\ ReleaseInv'
  <2>1. rec.ip \in Known => OnlyWorkerHolds'
    BY <1>1, <1>2, <1>3, <1>5 DEF OnlyWorkerHolds
  <2>2. rec.ip # NoIP
    BY <1>1, IPAssumption
  <2> QED
    BY <1>1, <1>2, <1>3, <1>4, <2>1, <2>2 DEF GrantInv, ReleaseInv
<1> QED
  BY <1>6, <1>7, <1>8, <1>9 DEF WorkerInv, UniqueInv

\* The write that gives an allocation its address; if it is mistaken for a
\* failed one, the address is forgotten and doubtful.
LEMMA AddressWritePreserves ==
  ASSUME TypeOK, UniqueInv, rec.pc = "update", rec.ip \in IP, rec.name \in Alloc,
         api[rec.name].rv = rec.obj.rv, Write(rec.name, rec.obj, TRUE),
         UNCHANGED <<cache, clock, pendingReleases>>, doubtful \subseteq doubtful',
         \A i \in IP : \/ pendingAllocations'[i] = pendingAllocations[i]
                       \/ i \in doubtful' /\ pendingAllocations'[i] = NoPending
  PROVE  StoreInv' /\ \A x \in Alloc : \A ip \in IP :
                        Holds(x, ip)' => Holds(x, ip) \/ pendingReleases[ip] = NoTime
<1> DEFINE n == Len(events)
<1>1. PICK a \in Alloc : a = rec.name
  OBVIOUS
<1>2. PICK o \in Object : o = rec.obj
  BY DEF TypeOK, Reconciliation
<1>3. PICK ip \in IP : ip = rec.ip
  OBVIOUS
<1>4. /\ HasAddress(o, ip)
      /\ ip \in Known => \A x \in Alloc \ {a} : ~Holds(x, ip)
      /\ pendingAllocations[ip].id = a /\ pendingReleases[ip] = NoTime
  BY <1>1, <1>2, <1>3 DEF GrantInv, OnlyWorkerHolds, WorkerInv, UniqueInv
<1>21. /\ Known' \subseteq Known /\ Known \subseteq IP
       /\ \A i \in Known' : pendingAllocations'[i] = pendingAllocations[i]
  BY DEF Known
<1>5. o.since <= clock /\ o.rv <= cache[a].rv /\ api[a].rv = o.rv /\ Write(a, o, TRUE)
  BY <1>1, <1>2 DEF ReadInv, WorkerInv, UniqueInv
<1>6. /\ \A x \in Alloc \ {a} : api'[x] = api[x]
      /\ api'[a].phase = o.phase /\ api'[a].addr = o.addr /\ api'[a].since = o.since
      /\ Len(events') = n + 1 /\ n \in Nat
      /\ \A i \in 1..n : events'[i] = events[i]
      /\ events'[n + 1].name = a /\ events'[n + 1].obj = api'[a] /\ events'[n + 1].own
  BY <1>5, WriteFacts, EventTypes, ZenonT(40) DEF Position
<1>7. Position' = 1..(n + 1) /\ Position = 1..n
  BY <1>6 DEF Position
<1>8. \A i \in 1..n : events[i].name \in Alloc /\ events[i].obj.rv \in Nat
  BY EventTypes DEF Position
<1> HIDE DEF n
<1>9. \A i \in Position' : i \in 1..n \/ i = n + 1
  BY <1>6, <1>7
\* The object that was read is the current one, so nothing of it is under way.
<1>10. \A i \in 1..n : events[i].name # a
  BY <1>5, <1>7, <1>8, ObjectTypes DEF VersionsOrdered, UniqueInv, StoreInv
<1>11. \A i : HasAddress(api'[a], i) <=> i = ip
  BY <1>4, <1>6 DEF HasAddress, Allocated
<1>12. /\ \A x \in Alloc \ {a} : \A i \in IP : Holds(x, i)' <=> Holds(x, i)
       /\ \A i \in IP : Holds(a, i)' <=> i = ip
  BY <1>6, <1>11 DEF Holds, HasAddress
<1>13. \A x \in Alloc : OwnWriteInFlight(x) => OwnWriteInFlight(x)'
  BY <1>6 DEF OwnWriteInFlight, n
<1>14. TimesInPast'
  <2>1. \A i \in IP : pendingAllocations'[i].at <= clock
    <3>1. NoPending.at = 0 /\ clock \in Nat
      BY DEF NoPending, TypeOK
    <3> QED
      BY <3>1 DEF TimesInPast, UniqueInv, StoreInv
  <2> QED
    BY <1>5, <1>6, <1>7, <1>9, <2>1 DEF TimesInPast, UniqueInv, StoreInv
<1>15. VersionsOrdered' /\ DeletionIsOurs'
  BY <1>5, WriteOrder DEF UniqueInv, StoreInv
<1>16. StreamShowsAddress'
  BY <1>6, <1>7, <1>8, <1>9, <1>10 DEF StreamShowsAddress, UniqueInv, StoreInv, HasAddress
<1>17. CacheShowsAddress'
  <2>1. OwnWriteInFlight(a)'
    BY <1>6, <1>7 DEF OwnWriteInFlight
  <2> QED
    BY <1>12, <1>13, <2>1 DEF CacheShowsAddress, UniqueInv, StoreInv
<1>18. AddressKnown'
  BY <1>4, <1>12, <1>21 DEF AddressKnown, UniqueInv, StoreInv
<1>19. OnlyOwnerConfirms'
  BY <1>21, <1>4, <1>6, <1>7, <1>8, <1>9, <1>10, <1>11 DEF OnlyOwnerConfirms, UniqueInv, StoreInv
<1>20. UniqueAddress'
  BY <1>4, <1>12, <1>21 DEF UniqueAddress, UniqueInv, StoreInv
<1> QED
  BY <1>4, <1>12, <1>14, <1>15, <1>16, <1>17, <1>18, <1>19, <1>20 DEF StoreInv

LEMMA UpdateStatusPreserves == ASSUME TypeOK, UniqueInv, UpdateStatus PROVE UniqueInv'
<1> DEFINE unstaged == UnstageAllocation(pendingAllocations, rec.name, rec.ip, rec.at)
<1>1. /\ TypeOK' /\ rec.pc = "update" /\ rec \in Reconciliation /\ rec.name \in Alloc
      /\ rec.obj \in Object /\ rec.ip \in IP \cup {NoIP} /\ rec' = Idle /\ clock \in Nat
      /\ UNCHANGED <<cache, clock, pendingReleases>>
  BY UpdateStatusType DEF UpdateStatus, TypeOK, Reconciliation, Return
<1>2. NoIP \notin IP
  BY IPAssumption
<1>3. ASSUME StoreInv', doubtful \subseteq doubtful', \A x \in Alloc : \A ip \in IP :
               Holds(x, ip)' => Holds(x, ip) \/ pendingReleases[ip] = NoTime
      PROVE  UniqueInv'
  <2>1. Known' \subseteq Known /\ Known \subseteq IP
    BY <1>3 DEF Known
  <2>2. ReleasedIsFree'
    BY <1>1, <1>3, <2>1 DEF ReleasedIsFree, WorkerInv, UniqueInv
  <2> QED
    BY <1>1, <1>3, <2>2, IdleWorker DEF UniqueInv
<1>4. CASE UNCHANGED <<api, events, pendingAllocations, doubtful>>
  <2>1. StoreInv'
    BY <1>1, <1>4, TimePasses DEF UniqueInv
  <2> QED
    BY <1>3, <1>4, <2>1 DEF Holds
<1>5. CASE rec.ip \in IP /\ UNCHANGED <<api, events, doubtful>> /\ pendingAllocations' = unstaged
  <2>1. /\ rec.ip \in Known => OnlyWorkerHolds
        /\ pendingAllocations[rec.ip] = [id |-> rec.name, at |-> rec.at]
        /\ CacheShowsWorker /\ Known \subseteq IP
    BY <1>1, <1>5 DEF GrantInv, ReadInv, WorkerInv, UniqueInv, Known
  <2>2. /\ pendingAllocations'[rec.ip] = NoPending
        /\ \A ip \in IP \ {rec.ip} : pendingAllocations'[ip] = pendingAllocations[ip]
    BY <1>5, <2>1 DEF UnstageAllocation, TypeOK
  <2>3. \A ip \in Known : \A x \in Alloc :
          Holds(x, ip) => HasAddress(cache[x], ip) \/ pendingAllocations'[ip].id = x
    BY <1>5, <2>1, <2>2 DEF OnlyWorkerHolds, CacheShowsWorker, AddressKnown, UniqueInv, StoreInv
  <2>4. StoreInv'
    BY <1>1, <1>5, <2>2, <2>3, PendingChanges DEF UniqueInv
  <2> QED
    BY <1>3, <1>5, <2>4 DEF Holds
<1>6. CASE /\ api[rec.name].live /\ api[rec.name].rv = rec.obj.rv
           /\ Write(rec.name, rec.obj, TRUE)
           /\ \/ UNCHANGED <<pendingAllocations, doubtful>>
              \/ /\ doubtful' = doubtful \cup ({rec.ip} \cap IP)
                 /\ pendingAllocations' = IF rec.ip = NoIP THEN pendingAllocations ELSE unstaged
  <2>1. CASE rec.ip \in IP
    <3>1. \A i \in IP : \/ pendingAllocations'[i] = pendingAllocations[i]
                        \/ i \in doubtful' /\ pendingAllocations'[i] = NoPending
      BY <1>2, <1>6, <2>1 DEF UnstageAllocation, TypeOK
    <3>2. doubtful \subseteq doubtful'
      BY <1>6
    <3> QED
      BY <1>1, <1>3, <1>6, <2>1, <3>1, <3>2, AddressWritePreserves
  <2>2. CASE rec.ip = NoIP
    <3>1. ~Allocated(rec.obj) /\ rec.obj.since <= clock
      BY <1>1, <2>2 DEF GrantInv, ReadInv, WorkerInv, UniqueInv
    <3>2. QuietWrite(rec.name, rec.obj, TRUE) /\ doubtful \subseteq doubtful'
      BY <1>1, <1>6, <2>2, <3>1 DEF QuietWrite
    <3> QED
      BY <1>1, <1>3, <3>2, QuietWritePreserves DEF UniqueInv
  <2> QED
    BY <1>1, <2>1, <2>2
<1>7. CASE /\ UNCHANGED <<api, events>>
           /\ doubtful' = doubtful \cup ({rec.ip} \cap IP)
           /\ pendingAllocations' = IF rec.ip = NoIP THEN pendingAllocations ELSE unstaged
           /\ rec.ip \in IP /\ api[rec.name] = rec.obj
  <2>1. doubtful \subseteq doubtful' /\ Known' \subseteq Known /\ rec.ip \notin Known'
    BY <1>7 DEF Known
  <2>2. \A i \in IP \ {rec.ip} : pendingAllocations'[i] = pendingAllocations[i]
    BY <1>2, <1>7 DEF UnstageAllocation, TypeOK
  <2>3. \A i \in IP : pendingAllocations'[i].at <= clock
    <3>1. NoPending.at = 0
      BY DEF NoPending
    <3> QED
      BY <1>1, <1>2, <1>7, <3>1 DEF UnstageAllocation, TypeOK, TimesInPast, UniqueInv, StoreInv
  <2>4. TimesInPast'
    BY <1>1, <1>7, <2>3 DEF UniqueInv, StoreInv, TimesInPast, Position
  <2>5. VersionsOrdered' /\ DeletionIsOurs'
    BY <1>1, <1>7 DEF UniqueInv, StoreInv, VersionsOrdered, DeletionIsOurs, DeletingPersists,
                      OwnWriteInFlight, Position
  <2>6. StreamShowsAddress' /\ CacheShowsAddress' /\ UniqueAddress'
    BY <1>1, <1>7, <2>1 DEF UniqueInv, StoreInv, StreamShowsAddress, CacheShowsAddress,
                            UniqueAddress, Holds, OwnWriteInFlight, Position
  <2>7. AddressKnown' /\ OnlyOwnerConfirms'
    BY <1>1, <1>7, <2>1, <2>2 DEF UniqueInv, StoreInv, AddressKnown, OnlyOwnerConfirms,
                                  Holds, Known, Position
  <2>8. StoreInv'
    BY <2>4, <2>5, <2>6, <2>7 DEF StoreInv
  <2> QED
    BY <1>3, <1>7, <2>1, <2>8 DEF Holds
<1> QED
  <2>1. Put(rec.name, rec.obj, TRUE) =>
          \/ Write(rec.name, rec.obj, TRUE)
          \/ UNCHANGED <<api, events>> /\ api[rec.name] = rec.obj
    BY DEF Put
  <2>2. CASE rec.ip = NoIP
    BY <1>1, <1>2, <1>4, <1>6, <2>1, <2>2 DEF UpdateStatus
  <2>3. CASE rec.ip \in IP
    BY <1>1, <1>2, <1>4, <1>5, <1>6, <1>7, <2>1, <2>3 DEF UpdateStatus
  <2> QED
    BY <1>1, <2>2, <2>3

LEMMA UniqueInvStep == TypeOK /\ UniqueInv /\ [Next]_vars => UniqueInv'
<1> SUFFICES ASSUME TypeOK, UniqueInv, [Next]_vars PROVE UniqueInv'
  OBVIOUS
<1>1. CASE UNCHANGED vars
  <2>1. /\ TypeOK' /\ clock \in Nat
        /\ UNCHANGED <<api, cache, events, rec, pendingAllocations, pendingReleases, clock,
                       doubtful>>
    BY <1>1, TypeStep, ObjectTypes DEF vars, expectations
  <2>2. StoreInv'
    BY <2>1, TimePasses DEF UniqueInv
  <2>3. WorkerInv'
    BY <2>1, WorkerUndisturbed DEF UniqueInv, Holds, expectations
  <2> QED
    BY <2>2, <2>3 DEF UniqueInv
<1>2. CASE \E a \in Alloc : Create(a) \/ Delete(a) \/ Annotate(a)
  BY <1>2, EnvironmentWrites
<1>3. CASE \E a \in Alloc : Start(a)
  BY <1>3, StartPreserves
<1>4. CASE (\E p \in Pool : SetPool(p)) \/ Tick
  BY <1>4, QuietSteps
<1>5. CASE Deliver \/ Crash
  BY <1>5, DeliverPreserves, CrashPreserves
<1>6. CASE Worker
  BY <1>6, CleanupPreserves, RemoveFinalizerPreserves, AddFinalizerPreserves, DecidePreserves,
     ProgramPreserves, UpdateStatusPreserves DEF Worker
<1> QED
  BY <1>1, <1>2, <1>3, <1>4, <1>5, <1>6 DEF Next

LEMMA UniqueInvInit == Init => UniqueInv
<1> SUFFICES ASSUME Init PROVE UniqueInv
  OBVIOUS
<1>1. /\ \A a \in Alloc : api[a] = Gone(0) /\ cache[a] = Gone(0)
      /\ events = << >> /\ rec = Idle /\ clock = 1
      /\ \A ip \in IP : pendingAllocations[ip] = NoPending /\ pendingReleases[ip] = NoTime
  BY DEF Init
<1>2. \A a \in Alloc : /\ ~Allocated(api[a]) /\ ~Allocated(cache[a]) /\ ~cache[a].deleting
                       /\ api[a].since = 0 /\ cache[a].since = 0 /\ cache[a].rv = 0 /\ api[a].rv = 0
  <2>1. PICK g : g = Gone(0)
    OBVIOUS
  <2>2. g.phase = "" /\ g.since = 0 /\ g.rv = 0 /\ ~g.deleting
    BY <2>1 DEF Gone
  <2>3. ~Allocated(g)
    BY <2>2 DEF Allocated
  <2> QED
    BY <1>1, <2>1, <2>2, <2>3
<1>3. Position = {} /\ Known \subseteq IP /\ NoPending.at = 0 /\ NoPending.id = NoAlloc /\ rec.pc = "idle"
  BY <1>1 DEF Position, NoPending, Idle, Known
<1>4. StoreInv
  BY <1>1, <1>2, <1>3
     DEF StoreInv, TimesInPast, VersionsOrdered, StreamShowsAddress, CacheShowsAddress, AddressKnown,
         OnlyOwnerConfirms, DeletionIsOurs, DeletingPersists, UniqueAddress, Holds, HasAddress
<1>5. WorkerInv
  BY <1>1, <1>2, <1>3 DEF WorkerInv, ReleasedIsFree, ReadInv, ReleaseInv, GrantInv, Holds
<1> QED
  BY <1>4, <1>5 DEF UniqueInv

(***************************************************************************)
(* The invariant behind it holds in every state: at no point of a          *)
(* reconciliation (Reconcile, and IPAllocationExpectations) do the cache,  *)
(* the watch stream, the expectations and the stored objects disagree on   *)
(* who may be given an address.                                            *)
(***************************************************************************)
THEOREM UniqueInvariant == Spec => []UniqueInv
<1>1. Spec => []TypeOK
  BY TypeCorrect
<1>2. TypeOK /\ UniqueInv /\ [Next]_vars => UniqueInv'
  BY UniqueInvStep
<1> QED
  BY <1>1, <1>2, UniqueInvInit, PTL DEF Spec

(***************************************************************************)
(* No two allocations ever have the same address, for any number of        *)
(* allocations, addresses and pools and any interleaving of the reconciler *)
(* (Reconcile of ip_allocation_reconciler.go) with users, cache lag,       *)
(* failing calls and crashes.  The only exceptions are single addresses:   *)
(* one that a failed status update was applied with, and one of an         *)
(* allocation that was read before an own write had reached the cache.     *)
(***************************************************************************)
THEOREM AddressesUnique == Spec => []UniqueAddress
<1>1. UniqueInv => UniqueAddress
  BY DEF UniqueInv, StoreInv
<1> QED
  BY <1>1, UniqueInvariant, PTL

-----------------------------------------------------------------------------
\* With unique addresses, the ledger shows exactly who has what.
OwnerIsHolder ==
  /\ DOMAIN Owner = IP
  /\ \A ip \in IP : /\ Owner[ip] \in Alloc \cup {NoAlloc}
                    /\ \A a \in Alloc : Owner[ip] = a <=> ip \in Known /\ Holds(a, ip)

LEMMA OwnerFacts == UniqueAddress => OwnerIsHolder
<1> SUFFICES ASSUME UniqueAddress PROVE OwnerIsHolder
  OBVIOUS
<1>1. ASSUME NEW ip \in IP
      PROVE  /\ Owner[ip] \in Alloc \cup {NoAlloc}
             /\ \A a \in Alloc : Owner[ip] = a <=> ip \in Known /\ Holds(a, ip)
  <2>1. CASE ip \in Known /\ \E a \in Alloc : Holds(a, ip)
    <3>1. Owner[ip] = CHOOSE a \in Alloc : Holds(a, ip)
      BY <2>1 DEF Owner
    <3>2. Owner[ip] \in Alloc /\ Holds(Owner[ip], ip)
      BY <2>1, <3>1
    <3> QED
      BY <2>1, <3>2 DEF UniqueAddress
  <2>2. CASE ~(ip \in Known /\ \E a \in Alloc : Holds(a, ip))
    <3>1. Owner[ip] = NoAlloc
      BY <2>2 DEF Owner
    <3> QED
      BY <2>2, <3>1, AllocAssumption
  <2> QED
    BY <2>1, <2>2
<1> QED
  BY <1>1 DEF OwnerIsHolder, Owner

\* A step of the system changes at most one allocation.
LEMMA OneWrite ==
  ASSUME TypeOK, [Next]_vars
  PROVE  api' = api \/ \E a \in Alloc : \A x \in Alloc \ {a} : api'[x] = api[x]
<1>1. ASSUME NEW a \in Alloc, NEW o, NEW own, Write(a, o, own) \/ Put(a, o, own)
      PROVE  \A x \in Alloc \ {a} : api'[x] = api[x]
  BY <1>1 DEF Write, Put, TypeOK
<1>2. CASE UNCHANGED vars
  BY <1>2 DEF vars
<1>3. CASE \E a \in Alloc : Create(a) \/ Delete(a) \/ Annotate(a)
  BY <1>1, <1>3 DEF Create, Delete, Annotate
<1>4. CASE (\E a \in Alloc : Start(a)) \/ (\E p \in Pool : SetPool(p)) \/ Tick \/ Deliver \/ Crash
  BY <1>4 DEF Start, SetPool, Tick, Deliver, Crash
<1>5. CASE CleanupAdvertisement \/ Decide \/ Program
  BY <1>5 DEF CleanupAdvertisement, Decide, Program
<1>6. CASE RemoveFinalizer
  <2>1. rec.name \in Alloc
    BY <1>6 DEF RemoveFinalizer, TypeOK
  <2> QED
    BY <1>1, <1>6, <2>1 DEF RemoveFinalizer
<1>7. CASE AddFinalizer
  <2>1. rec.name \in Alloc
    BY <1>7 DEF AddFinalizer, TypeOK
  <2> QED
    BY <1>1, <1>7, <2>1 DEF AddFinalizer
<1>8. CASE UpdateStatus
  <2>1. rec.name \in Alloc
    BY <1>8 DEF UpdateStatus, TypeOK
  <2> QED
    BY <1>1, <1>8, <2>1 DEF UpdateStatus
<1> QED
  BY <1>2, <1>3, <1>4, <1>5, <1>6, <1>7, <1>8 DEF Next, Worker

(***************************************************************************)
(* Which addresses become doubtful in a step, and of whom: one that is     *)
(* read wrongly, or the one that the worker writes.                        *)
(***************************************************************************)
LEMMA DoubtCases ==
  ASSUME TypeOK, [Next]_vars
  PROVE  \/ doubtful' = doubtful
         \/ /\ api' = api
            /\ \E ip \in IP : doubtful' = doubtful \cup {ip}
         \/ /\ rec.pc = "update" /\ rec.ip \in IP /\ rec.name \in Alloc
            /\ doubtful' = doubtful \cup {rec.ip}
            /\ \A x \in Alloc \ {rec.name} : api'[x] = api[x]
            /\ \/ api'[rec.name].addr = rec.obj.addr
               \/ api' = api
<1>1. CASE \E a \in Alloc : Start(a)
  <2>1. PICK a \in Alloc : Start(a)
    BY <1>1
  <2>2. api' = api /\ doubtful' = doubtful \cup Misread(a)
    BY <2>1 DEF Start
  <2>3. CASE Misread(a) = {}
    BY <2>2, <2>3
  <2>4. CASE Misread(a) # {}
    <3>1. PICK ip \in IP : ip \in Misread(a)
      BY <2>4 DEF Misread
    <3>2. Misread(a) = {ip}
      BY <3>1 DEF Misread
    <3> QED
      BY <2>2, <3>2
  <2> QED
    BY <2>3, <2>4
<1>2. CASE UpdateStatus
  <2>1. /\ rec.pc = "update" /\ rec.name \in Alloc /\ rec.obj \in Object
        /\ rec.ip \in IP \cup {NoIP} /\ NoIP \notin IP
    BY <1>2, IPAssumption DEF UpdateStatus, TypeOK, Reconciliation
  <2>2. CASE doubtful' = doubtful
    BY <2>2
  <2>3. CASE doubtful' = doubtful \cup ({rec.ip} \cap IP) /\ Put(rec.name, rec.obj, TRUE)
    <3>1. CASE rec.ip = NoIP
      BY <2>1, <2>3, <3>1
    <3>2. CASE rec.ip \in IP
      <4>1. CASE UNCHANGED <<api, events>>
        BY <2>1, <2>3, <3>2, <4>1
      <4>2. CASE Write(rec.name, rec.obj, TRUE)
        BY <2>1, <2>3, <3>2, <4>2, WriteFacts
      <4> QED
        BY <2>3, <4>1, <4>2, PutCases
    <3> QED
      BY <2>1, <3>1, <3>2
  <2> QED
    BY <1>2, <2>2, <2>3 DEF UpdateStatus
<1>3. CASE [Next]_vars /\ ~UpdateStatus /\ ~ \E a \in Alloc : Start(a)
  <2>1. doubtful' = doubtful
    BY <1>3 DEF Next, Worker, vars, Create, Delete, Annotate, SetPool, Tick, Deliver, Crash,
       CleanupAdvertisement, RemoveFinalizer, AddFinalizer, Decide, Program, controllerVars
  <2> QED
    BY <2>1
<1> QED
  BY <1>1, <1>2, <1>3

\* A step that strikes out addresses of a, and leaves it with none of the others.
LEMMA StruckOut ==
  ASSUME OwnerIsHolder, OwnerIsHolder', NEW a \in Alloc, Known' \subseteq Known,
         \A x \in Alloc \ {a} : \A ip \in IP : Holds(x, ip)' <=> Holds(x, ip),
         \A ip \in Known : ip \notin Known' => Owner[ip] \in {a, NoAlloc},
         \A ip \in Known' : ~Holds(a, ip)'
  PROVE  [Ledger!Next]_Owner
<1>1. ASSUME NEW ip \in IP
      PROVE  Owner'[ip] = IF Owner[ip] = a THEN NoAlloc ELSE Owner[ip]
  <2>1. Owner'[ip] # a
    BY DEF OwnerIsHolder
  <2>2. \A x \in Alloc \ {a} : Owner'[ip] = x <=> Owner[ip] = x
    BY DEF OwnerIsHolder
  <2> QED
    BY <2>1, <2>2, AllocAssumption DEF OwnerIsHolder
<1>2. Owner' = [ip \in IP |-> Owner'[ip]]
  BY DEF Owner
<1>3. Owner' = [ip \in IP |-> IF Owner[ip] = a THEN NoAlloc ELSE Owner[ip]]
  BY <1>1, <1>2
<1> QED
  BY <1>3 DEF Ledger!Next, Ledger!Release, Ledger!Freed

LEMMA LedgerStep ==
  ASSUME TypeOK, UniqueInv, UniqueInv', [Next]_vars
  PROVE  [Ledger!Next]_Owner
<1>1. OwnerIsHolder /\ OwnerIsHolder'
  <2>1. (UniqueAddress => OwnerIsHolder) /\ (UniqueAddress => OwnerIsHolder)'
    BY OwnerFacts, PTL
  <2> QED
    BY <2>1 DEF UniqueInv, StoreInv
<1>2. CASE api' = api /\ doubtful' = doubtful
  BY <1>2 DEF Owner, Holds, Known
<1>3. CASE doubtful' = doubtful /\ \E a \in Alloc : \A x \in Alloc \ {a} : api'[x] = api[x]
  <2>1. PICK a \in Alloc : \A x \in Alloc \ {a} : api'[x] = api[x]
    BY <1>3
  <2>2. /\ \A x \in Alloc \ {a} : \A ip \in IP : Holds(x, ip)' <=> Holds(x, ip)
        /\ Known' = Known
    BY <1>3, <2>1 DEF Holds, Known
  <2>3. \A ip \in IP : \A x \in Alloc \ {a} : Owner'[ip] = x <=> Owner[ip] = x
    BY <1>1, <2>2 DEF OwnerIsHolder
  <2>4. ASSUME NEW ip \in IP, Owner'[ip] # a
        PROVE  Owner'[ip] = IF Owner[ip] = a THEN NoAlloc ELSE Owner[ip]
    BY <1>1, <2>3, <2>4, AllocAssumption DEF OwnerIsHolder
  <2>5. Owner' = [ip \in IP |-> Owner'[ip]]
    BY DEF Owner
  <2>6. CASE \A ip \in Known' : ~Holds(a, ip)'
    BY <1>1, <2>2, <2>6, StruckOut
  <2>7. ASSUME NEW ip \in IP, ip \in Known', Holds(a, ip)'
        PROVE  [Ledger!Next]_Owner
    <3>1. \A k \in IP : Owner'[k] = a <=> k = ip
      BY <1>1, <2>7 DEF OwnerIsHolder, Holds
    <3>2. Owner[ip] \in {a, NoAlloc}
      BY <1>1, <2>3, <3>1 DEF OwnerIsHolder
    <3>3. CASE Owner[ip] = NoAlloc
      <4>1. Owner' = [[k \in IP |-> IF Owner[k] = a THEN NoAlloc ELSE Owner[k]] EXCEPT ![ip] = a]
        BY <2>4, <2>5, <3>1
      <4> QED
        BY <3>3, <4>1 DEF Ledger!Next, Ledger!Assign, Ledger!Freed
    <3>4. CASE Owner[ip] = a
      <4>1. \A k \in IP : Owner[k] = a <=> k = ip
        BY <1>1, <3>4 DEF OwnerIsHolder, Holds
      <4>2. \A k \in IP : Owner'[k] = Owner[k]
        BY <2>4, <3>1, <4>1
      <4>3. Owner = [k \in IP |-> Owner[k]]
        BY DEF Owner
      <4>4. Owner' = Owner
        BY <2>5, <4>2, <4>3
      <4> QED
        BY <4>4
    <3> QED
      BY <3>2, <3>3, <3>4
  <2>8. Known' \subseteq IP
    BY <2>2 DEF Known
  <2> QED
    BY <2>6, <2>7, <2>8
<1>4. ASSUME api' = api, NEW ip \in IP, doubtful' = doubtful \cup {ip}
      PROVE  [Ledger!Next]_Owner
  <2>1. /\ \A x \in Alloc : \A k \in IP : Holds(x, k)' <=> Holds(x, k)
        /\ Known' = Known \ {ip}
    BY <1>4 DEF Holds, Known
  <2>2. CASE Owner[ip] \in Alloc
    <3>1. PICK b \in Alloc : b = Owner[ip]
      BY <2>2
    <3>2. Holds(b, ip)
      BY <1>1, <3>1 DEF OwnerIsHolder
    <3>3. \A k \in Known' : ~Holds(b, k)'
      BY <1>4, <2>1, <3>2 DEF Holds, Known
    <3>4. \A k \in Known : k \notin Known' => Owner[k] \in {b, NoAlloc}
      BY <2>1, <3>1
    <3> QED
      BY <1>1, <2>1, <3>3, <3>4, StruckOut
  <2>3. CASE Owner[ip] = NoAlloc
    <3>1. \A k \in IP : \A x \in Alloc : Owner'[k] = x <=> Owner[k] = x
      BY <1>1, <2>1, <2>3, AllocAssumption DEF OwnerIsHolder
    <3>2. \A k \in IP : Owner'[k] = Owner[k]
      BY <1>1, <3>1 DEF OwnerIsHolder
    <3>3. Owner = [k \in IP |-> Owner[k]] /\ Owner' = [k \in IP |-> Owner'[k]]
      BY DEF Owner
    <3>4. Owner' = Owner
      BY <3>2, <3>3
    <3> QED
      BY <3>4
  <2> QED
    BY <1>1, <2>2, <2>3 DEF OwnerIsHolder
<1>5. CASE /\ rec.pc = "update" /\ rec.ip \in IP /\ rec.name \in Alloc
           /\ doubtful' = doubtful \cup {rec.ip}
           /\ \A x \in Alloc \ {rec.name} : api'[x] = api[x]
           /\ api'[rec.name].addr = rec.obj.addr
  <2>0. PICK a \in Alloc : a = rec.name
    BY <1>5
  <2>1. /\ HasAddress(rec.obj, rec.ip) /\ (rec.ip \in Known => OnlyWorkerHolds)
    BY <1>5 DEF GrantInv, WorkerInv, UniqueInv
  <2>2. Known' = Known \ {rec.ip} /\ Known \subseteq IP /\ Known' \subseteq Known
    BY <1>5 DEF Known
  <2>3. \A k \in Known' : ~Holds(a, k)'
    BY <1>5, <2>0, <2>1, <2>2 DEF Holds, HasAddress
  <2>4. \A x \in Alloc \ {a} : \A k \in IP : Holds(x, k)' <=> Holds(x, k)
    BY <1>5, <2>0 DEF Holds
  <2>5. \A k \in Known : k \notin Known' => Owner[k] \in {a, NoAlloc}
    BY <1>1, <1>5, <2>0, <2>1, <2>2 DEF OwnerIsHolder, OnlyWorkerHolds
  <2> QED
    BY <1>1, <2>2, <2>3, <2>4, <2>5, StruckOut
<1> QED
  BY <1>2, <1>3, <1>4, <1>5, OneWrite, DoubtCases

LEMMA LedgerInit == Init => Ledger!Init
<1> SUFFICES ASSUME Init PROVE Ledger!Init
  OBVIOUS
<1>1. \A a \in Alloc : ~Allocated(api[a])
  <2>1. PICK g : g = Gone(0)
    OBVIOUS
  <2>2. g.phase = ""
    BY <2>1 DEF Gone
  <2> QED
    BY <2>1, <2>2 DEF Init, Allocated
<1> QED
  BY <1>1 DEF Ledger!Init, Owner, Holds

(***************************************************************************)
(* The reconciler (Reconcile of ip_allocation_reconciler.go) keeps a       *)
(* ledger: it gives out an address only while nobody has it, so that an    *)
(* address passes from one allocation to another only through a state in   *)
(* which it is free, and no step changes the addresses of two allocations. *)
(* An address the controller may have lost track of (doubtful) is struck   *)
(* out of the ledger in one step, and stays so.                            *)
(***************************************************************************)
THEOREM LedgerImplemented == Spec => ImplementsLedger
<1>1. Spec => []TypeOK /\ []UniqueInv
  BY TypeCorrect, UniqueInvariant
<1>2. TypeOK /\ UniqueInv /\ UniqueInv' /\ [Next]_vars => [Ledger!Next]_Owner
  BY LedgerStep
<1> QED
  BY <1>1, <1>2, LedgerInit, PTL DEF Spec, ImplementsLedger, Ledger!Spec

-----------------------------------------------------------------------------
(***************************************************************************)
(* Part 3.  The invariant says what the handler may rely on when it        *)
(* returns without an error: the stream ends in the current version of     *)
(* every object, so what was read from the cache is out of date only while *)
(* a newer version is on its way or already queued.                        *)
(***************************************************************************)
InStream(a) == \E i \in Position : events[i].name = a

\* Somebody will look at a once more, whatever the worker does now.
Attended(a) == a \in queue \/ InStream(a)

\* The last version in the stream, or the cached one, is the current one.
LastShown ==
  \A i \in Position :
    (\A j \in Position : i < j => events[j].name # events[i].name)
      => events[i].obj = api[events[i].name]
Synced == \A a \in Alloc : ~InStream(a) => cache[a] = api[a]

\* The API server removes a deleted object with its last finalizer.
FinalizerHolds == \A a \in Alloc : api[a].live /\ api[a].deleting => api[a].fin

StreamInv == LastShown /\ Synced /\ FinalizerHolds

\* A handler that is about to patch the finalizer sees the current object,
\* or will be called again.
PatchInv ==
  /\ rec.pc \in {"cleanup", "unfinalize"} =>
       Attended(rec.name) \/ (api[rec.name].live /\ api[rec.name].deleting)
  /\ rec.pc = "finalize" =>
       Attended(rec.name) \/ (api[rec.name].live /\ ~api[rec.name].fin)

\* Between handlers nothing is held; the status that a handler is about to
\* write ends the work, or is an error.
ResultInv ==
  /\ rec.pc = "idle" => rec.name = NoAlloc
  /\ rec.pc \in {"decide", "program", "update"} =>
       rec.obj.live /\ ~rec.obj.deleting /\ rec.obj.fin
  /\ rec.pc = "update" => rec.obj.reason \in Failure \/ (Ready(rec.obj) /\ rec.dirty)

BusyInv == StreamInv /\ PatchInv /\ ResultInv /\ NeverForgotten

\* What is about to be reported as Programmed is advertised.
AdvertisedInv ==
  rec.pc = "update" /\ rec.obj.reason \notin Failure /\ rec.obj.phase = "Programmed"
    => rec.obj.addr \in adv

-----------------------------------------------------------------------------
(***************************************************************************)
(* What one step may do to the controller's attention: it lets go only of  *)
(* an object that it does not change, and only when the object is gone or  *)
(* has just been found to be in the state the handler worked out.          *)
(***************************************************************************)
Dropped(a) ==
  \/ ~api[a].live
  \/ /\ rec.pc = "update" /\ rec.obj.reason \notin Failure
     /\ rec.name = a /\ api[a] = rec.obj

Releases == \A a \in Alloc : ~Busy(a)' => api'[a] = api[a] /\ (~Busy(a) \/ Dropped(a))

StepKeeps == StreamInv' /\ PatchInv' /\ ResultInv' /\ Releases

LEMMA BusyCases == \A a : Busy(a) <=> Attended(a) \/ rec.name = a
  BY DEF Busy, Attended, InStream, Position

LEMMA IdleFacts == Idle.pc = "idle" /\ Idle.name = NoAlloc
  BY DEF Idle

LEMMA GoneFlags ==
  ASSUME NEW rv \in Nat, NEW g, g = Gone(rv)
  PROVE  g \in Object /\ ~g.live /\ ~g.deleting
  BY GoneType DEF Gone

\* Every write goes down the stream and leaves it in step with the server.
LEMMA WriteStream ==
  ASSUME TypeOK, StreamInv, NEW a \in Alloc, NEW o \in Object, NEW own \in BOOLEAN,
         Write(a, o, own), UNCHANGED cache, o.live /\ o.deleting => o.fin
  PROVE  /\ StreamInv' /\ InStream(a)'
         /\ \A x \in Alloc : InStream(x) => InStream(x)'
         /\ \A x \in Alloc \ {a} : api'[x] = api[x]
<1> DEFINE n == Len(events)
<1>1. UNCHANGED cache
  OBVIOUS
<1>2. /\ api'[a].live = o.live /\ api'[a].deleting = o.deleting /\ api'[a].fin = o.fin
      /\ \A x \in Alloc \ {a} : api'[x] = api[x]
      /\ Len(events') = n + 1 /\ n \in Nat
      /\ \A i \in 1..n : events'[i] = events[i]
      /\ events'[n + 1].name = a /\ events'[n + 1].obj = api'[a]
  BY WriteFacts, EventTypes DEF Position
<1>3. \A i \in 1..n : events[i].name \in Alloc
  BY EventTypes DEF Position
<1>4. Position' = 1..(n + 1) /\ Position = 1..n
  BY <1>2 DEF Position
<1> HIDE DEF n
<1>5. /\ \A i \in Position' : i \in Position \/ i = n + 1
      /\ n + 1 \in Position' /\ \A i \in Position : i \in Position' /\ i < n + 1
  BY <1>2, <1>4
<1>6. InStream(a)' /\ \A x \in Alloc : InStream(x) => InStream(x)'
  BY <1>2, <1>4, <1>5 DEF InStream
<1>7. LastShown'
  <2> SUFFICES ASSUME NEW i \in Position',
                      \A j \in Position' : i < j => events'[j].name # events'[i].name
               PROVE  events'[i].obj = api'[events'[i].name]
    BY DEF LastShown
  <2>1. CASE i = n + 1
    BY <1>2, <2>1
  <2>2. CASE i \in Position
    <3>1. events[i].name # a /\ events[i].name \in Alloc
      BY <1>2, <1>3, <1>4, <1>5, <2>2
    <3>2. \A j \in Position : i < j => events[j].name # events[i].name
      BY <1>2, <1>4, <1>5, <2>2
    <3>3. events[i].obj = api[events[i].name]
      BY <2>2, <3>2 DEF StreamInv, LastShown
    <3> QED
      BY <1>2, <1>4, <2>2, <3>1, <3>3
  <2> QED
    BY <1>5, <2>1, <2>2
<1>8. Synced'
  BY <1>1, <1>2, <1>6 DEF Synced, StreamInv
<1>9. FinalizerHolds'
  BY <1>2 DEF FinalizerHolds, StreamInv
<1> QED
  BY <1>2, <1>6, <1>7, <1>8, <1>9 DEF StreamInv

LEMMA StreamSame ==
  ASSUME StreamInv, UNCHANGED <<api, cache, events>>
  PROVE  StreamInv' /\ \A x : InStream(x)' <=> InStream(x)
<1>1. Position' = Position /\ \A x : InStream(x)' <=> InStream(x)
  BY DEF Position, InStream
<1>2. LastShown'
  BY <1>1 DEF LastShown, StreamInv
<1>3. Synced' /\ FinalizerHolds'
  BY <1>1 DEF Synced, FinalizerHolds, StreamInv
<1> QED
  BY <1>1, <1>2, <1>3 DEF StreamInv

\* Users and other controllers.
LEMMA WriteKeeps ==
  ASSUME TypeOK, BusyInv, NEW a \in Alloc, Create(a) \/ Delete(a) \/ Annotate(a)
  PROVE  StepKeeps
<1>1. api[a] \in Object /\ api[a].rv \in Nat
  BY ObjectTypes
<1>2. UNCHANGED <<cache, queue, rec>>
  BY DEF Create, Delete, Annotate, controllerVars
<1>3. PICK o \in Object : Write(a, o, FALSE) /\ (o.live /\ o.deleting => o.fin)
  <2>1. CASE Create(a)
    <3>1. PICK f : f = Fresh(api[a].rv)
      OBVIOUS
    <3>2. f \in Object /\ ~f.deleting
      BY <1>1, <3>1, GoneType DEF Fresh, Gone
    <3> QED
      BY <2>1, <3>1, <3>2 DEF Create
  <2>2. CASE Delete(a) /\ api[a].fin
    <3>1. PICK d : d = [api[a] EXCEPT !.deleting = TRUE]
      OBVIOUS
    <3>2. d \in Object /\ d.fin
      BY <1>1, <2>2, <3>1 DEF Object
    <3> QED
      BY <2>2, <3>1, <3>2 DEF Delete
  <2>3. CASE Delete(a) /\ ~api[a].fin
    <3>1. PICK g : g = Gone(api[a].rv)
      OBVIOUS
    <3>2. g \in Object /\ ~g.live
      BY <1>1, <3>1, GoneType DEF Gone
    <3> QED
      BY <2>3, <3>1, <3>2 DEF Delete
  <2>4. CASE Annotate(a)
    BY <1>1, <2>4 DEF Annotate, BusyInv, StreamInv, FinalizerHolds
  <2> QED
    BY <2>1, <2>2, <2>3, <2>4
<1>4. /\ StreamInv' /\ InStream(a)'
      /\ \A x \in Alloc : InStream(x) => InStream(x)'
      /\ \A x \in Alloc \ {a} : api'[x] = api[x]
  BY <1>2, <1>3, WriteStream DEF BusyInv
<1>5. \A x \in Alloc : Attended(x) => Attended(x)'
  BY <1>2, <1>4 DEF Attended
<1>6. Attended(a)'
  BY <1>4 DEF Attended
<1>7. rec.pc # "idle" => rec.name \in Alloc
  BY DEF TypeOK
<1>8. PatchInv'
  BY <1>2, <1>4, <1>5, <1>6, <1>7 DEF PatchInv, BusyInv
<1>9. ResultInv'
  BY <1>2 DEF ResultInv, BusyInv
<1>10. Releases
  <2> SUFFICES ASSUME NEW x \in Alloc, ~Busy(x)'
               PROVE  api'[x] = api[x] /\ ~Busy(x)
    BY DEF Releases
  <2>1. ~Attended(x)' /\ rec'.name # x
    BY DEF Busy, Attended, InStream, Position
  <2> QED
    BY <1>2, <1>4, <1>5, <1>6, <2>1, BusyCases
<1> QED
  BY <1>4, <1>8, <1>9, <1>10 DEF StepKeeps

LEMMA QuietKeeps ==
  ASSUME TypeOK, BusyInv, UNCHANGED <<api, cache, events, queue, rec>>
  PROVE  StepKeeps
<1>1. StreamInv' /\ \A x : InStream(x)' <=> InStream(x)
  BY StreamSame DEF BusyInv
<1>2. \A x : Attended(x)' <=> Attended(x)
  BY <1>1 DEF Attended
<1>3. PatchInv' /\ ResultInv'
  BY <1>2 DEF PatchInv, ResultInv, BusyInv
<1>4. Releases
  BY DEF Releases, Busy
<1> QED
  BY <1>1, <1>3, <1>4 DEF StepKeeps

LEMMA CrashKeeps == ASSUME TypeOK, BusyInv, Crash PROVE StepKeeps
<1>1. /\ cache' = api /\ api' = api /\ events' = << >> /\ rec' = Idle
      /\ queue' = {a \in Alloc : api[a].live}
  BY DEF Crash
<1>2. Position' = {}
  BY <1>1 DEF Position
<1>3. LastShown' /\ Synced'
  BY <1>1, <1>2 DEF LastShown, Synced
<1>4. FinalizerHolds'
  BY <1>1 DEF FinalizerHolds, BusyInv, StreamInv
<1>5. PatchInv' /\ ResultInv'
  BY <1>1, IdleFacts DEF PatchInv, ResultInv
<1>6. Releases
  BY <1>1 DEF Releases, Busy, Dropped
<1> QED
  BY <1>3, <1>4, <1>5, <1>6 DEF StepKeeps, StreamInv

LEMMA DeliverKeeps == ASSUME TypeOK, BusyInv, Deliver PROVE StepKeeps
<1> DEFINE n == Len(events)
<1> DEFINE b == Head(events).name
<1>1. /\ cache' = [cache EXCEPT ![b] = Head(events).obj] /\ queue' = queue \cup {b}
      /\ events' = Tail(events) /\ api' = api /\ rec' = rec /\ events # << >>
  BY DEF Deliver
<1>2. /\ n \in Nat \ {0} /\ events[1].name = b /\ events[1].obj = Head(events).obj
      /\ Len(events') = n - 1 /\ \A i \in 1..(n - 1) : events'[i] = events[i + 1]
  BY <1>1 DEF TypeOK
<1>3. Position = 1..n /\ Position' = 1..(n - 1) /\ 1 \in Position
  BY <1>2 DEF Position
<1>4. b \in Alloc
  BY <1>2, <1>3, EventTypes
<1>5. cache'[b] = events[1].obj /\ \A x \in Alloc \ {b} : cache'[x] = cache[x]
  BY <1>1, <1>2, <1>4 DEF TypeOK
<1> HIDE DEF n, b
<1>6. /\ \A i \in Position : i = 1 \/ (i - 1 \in Position' /\ events'[i - 1] = events[i])
      /\ \A i \in Position' : i + 1 \in Position /\ events'[i] = events[i + 1]
      /\ \A i \in Position : i # 1 => 1 < i
      /\ \A i, j \in Position' : i < j <=> i + 1 < j + 1
      /\ \A j \in Position, i \in Position' : i + 1 < j => i < j - 1
  BY <1>2, <1>3
<1>7. \A x : InStream(x) => x = b \/ InStream(x)'
  <2> SUFFICES ASSUME NEW x, NEW i \in Position, events[i].name = x, x # b
               PROVE  InStream(x)'
    BY DEF InStream
  <2>1. i - 1 \in Position' /\ events'[i - 1] = events[i]
    BY <1>2, <1>6
  <2> QED
    BY <2>1 DEF InStream
<1>8. \A x : InStream(x)' => InStream(x)
  BY <1>6 DEF InStream
<1>9. LastShown'
  <2> SUFFICES ASSUME NEW i \in Position',
                      \A j \in Position' : i < j => events'[j].name # events'[i].name
               PROVE  events'[i].obj = api'[events'[i].name]
    BY DEF LastShown
  <2>1. i + 1 \in Position /\ events'[i] = events[i + 1]
    BY <1>6
  <2>2. ASSUME NEW j \in Position, i + 1 < j PROVE events[j].name # events[i + 1].name
    <3>1. j # 1
      BY <1>3, <2>2
    <3>2. j - 1 \in Position' /\ events'[j - 1] = events[j] /\ i < j - 1
      BY <1>6, <2>2, <3>1
    <3> QED
      BY <2>1, <3>2
  <2>3. events[i + 1].obj = api[events[i + 1].name]
    BY <2>1, <2>2 DEF LastShown, StreamInv, BusyInv
  <2> QED
    BY <1>1, <2>1, <2>3
<1>10. Synced'
  <2> SUFFICES ASSUME NEW x \in Alloc, ~InStream(x)' PROVE cache'[x] = api[x]
    BY <1>1 DEF Synced
  <2>1. CASE x # b
    BY <1>5, <1>7, <2>1 DEF Synced, StreamInv, BusyInv
  <2>2. CASE x = b
    <3>1. ASSUME NEW j \in Position, 1 < j PROVE events[j].name # b
      <4>1. j # 1
        BY <3>1
      <4>2. j - 1 \in Position' /\ events'[j - 1] = events[j]
        BY <1>6, <4>1
      <4> QED
        BY <2>2, <4>2 DEF InStream
    <3>2. events[1].obj = api[b]
      BY <1>2, <1>3, <3>1 DEF LastShown, StreamInv, BusyInv
    <3> QED
      BY <1>5, <2>2, <3>2
  <2> QED
    BY <2>1, <2>2
<1>11. FinalizerHolds'
  BY <1>1 DEF FinalizerHolds, StreamInv, BusyInv
<1>12. \A x : Attended(x) => Attended(x)'
  BY <1>1, <1>7 DEF Attended
<1>13. PatchInv' /\ ResultInv'
  BY <1>1, <1>12 DEF PatchInv, ResultInv, BusyInv
<1>14. Releases
  <2> SUFFICES ASSUME NEW x \in Alloc, ~Busy(x)' PROVE ~Busy(x)
    BY <1>1 DEF Releases
  <2>1. ~Attended(x)' /\ rec'.name # x
    BY DEF Busy, Attended, InStream, Position
  <2> QED
    BY <1>1, <1>12, <2>1, BusyCases
<1> QED
  BY <1>9, <1>10, <1>11, <1>13, <1>14 DEF StepKeeps, StreamInv

\* The worker takes a name: if it finds nothing to do, there is nothing to do.
LEMMA StartKeeps == ASSUME TypeOK, BusyInv, NEW a \in Alloc, Start(a) PROVE StepKeeps
<1>1. UNCHANGED <<api, cache, events>> /\ queue' = queue \ {a} /\ rec.pc = "idle"
  BY DEF Start
<1>2. PICK o \in Object : o = cache[a]
  BY ObjectTypes
<1>3. o.live \in BOOLEAN /\ o.deleting \in BOOLEAN /\ o.fin \in BOOLEAN
  BY DEF Object
<1>4. /\ Branch(o) = "idle" => ~o.live \/ (o.deleting /\ ~o.fin)
      /\ Branch(o) \in {"cleanup", "unfinalize"} => o.live /\ o.deleting
      /\ Branch(o) = "finalize" => o.live /\ ~o.fin
      /\ Branch(o) \in {"decide", "program", "update"} =>
           Branch(o) = "decide" /\ o.live /\ ~o.deleting /\ o.fin
  BY <1>3 DEF Branch
<1>5. \/ rec' = Idle /\ Branch(o) = "idle"
      \/ rec'.pc = Branch(o) /\ Branch(o) # "idle" /\ rec'.name = a /\ rec'.obj = o
  BY <1>2 DEF Start, Idle
<1>6. StreamInv' /\ \A x : InStream(x)' <=> InStream(x)
  BY <1>1, StreamSame DEF BusyInv
<1>7. InStream(a) \/ o = api[a]
  BY <1>2 DEF Synced, StreamInv, BusyInv
<1>8. PatchInv'
  BY <1>1, <1>4, <1>5, <1>6, <1>7, IdleFacts DEF PatchInv, Attended
<1>9. ResultInv'
  BY <1>4, <1>5, IdleFacts DEF ResultInv
<1>10. Releases
  <2> SUFFICES ASSUME NEW x \in Alloc, ~Busy(x)'
               PROVE  ~Busy(x) \/ Dropped(x)
    BY <1>1 DEF Releases
  <2>1. ~Attended(x)' /\ rec'.name # x
    BY DEF Busy, Attended, InStream, Position
  <2>2. CASE x = a
    <3>1. Branch(o) = "idle" /\ ~InStream(a)
      BY <1>5, <1>6, <2>1, <2>2 DEF Attended
    <3>2. ~api[a].live
      BY <1>4, <1>7, <3>1 DEF FinalizerHolds, StreamInv, BusyInv
    <3> QED
      BY <2>2, <3>2 DEF Dropped
  <2>3. CASE x # a /\ x # rec.name
    <3>1. ~Attended(x)
      BY <1>1, <1>6, <2>1, <2>3 DEF Attended
    <3> QED
      BY <2>3, <3>1, BusyCases
  <2>4. CASE x = rec.name
    BY <1>1, <2>4, AllocAssumption DEF ResultInv, BusyInv
  <2> QED
    BY <2>2, <2>3, <2>4
<1> QED
  BY <1>6, <1>8, <1>9, <1>10 DEF StepKeeps

\* A step inside a handler.
LEMMA WorkKeeps ==
  ASSUME BusyInv, UNCHANGED <<api, cache, events, queue>>, rec'.name = rec.name,
         PatchInv', ResultInv'
  PROVE  StepKeeps
<1>1. StreamInv'
  BY StreamSame DEF BusyInv
<1>2. Releases
  BY DEF Releases, Busy
<1> QED
  BY <1>1, <1>2 DEF StepKeeps

\* The end of the handler for a, after its last call: o is what that call wrote.
HandlerEnds(a, o) ==
  /\ rec.name = a /\ rec' = Idle /\ queue \subseteq queue' /\ UNCHANGED cache
  /\ \/ /\ UNCHANGED <<api, events>>
        /\ a \in queue' \/ Attended(a) \/ Dropped(a)
     \/ Write(a, o, TRUE) /\ (o.live /\ o.deleting => o.fin)

LEMMA EndKeeps ==
  ASSUME TypeOK, BusyInv, NEW a \in Alloc, NEW o \in Object, HandlerEnds(a, o)
  PROVE  StepKeeps
<1>1. rec.name = a /\ rec' = Idle /\ queue \subseteq queue' /\ UNCHANGED cache
  BY DEF HandlerEnds
<1>2. PatchInv' /\ ResultInv'
  BY <1>1, IdleFacts DEF PatchInv, ResultInv
<1>3. CASE /\ UNCHANGED <<api, events>>
           /\ a \in queue' \/ Attended(a) \/ Dropped(a)
  <2>1. StreamInv' /\ \A x : InStream(x)' <=> InStream(x)
    BY <1>1, <1>3, StreamSame DEF BusyInv
  <2>2. \A x : Attended(x) => Attended(x)'
    BY <1>1, <2>1 DEF Attended
  <2>3. Releases
    <3> SUFFICES ASSUME NEW x \in Alloc, ~Busy(x)' PROVE ~Busy(x) \/ Dropped(x)
      BY <1>3 DEF Releases
    <3>1. ~Attended(x)' /\ x \notin queue'
      BY DEF Busy, Attended, InStream, Position
    <3> QED
      BY <1>1, <1>3, <2>2, <3>1, BusyCases
  <2> QED
    BY <1>2, <2>1, <2>3 DEF StepKeeps
<1>4. CASE Write(a, o, TRUE) /\ (o.live /\ o.deleting => o.fin)
  <2>1. /\ StreamInv' /\ InStream(a)'
        /\ \A x \in Alloc : InStream(x) => InStream(x)'
        /\ \A x \in Alloc \ {a} : api'[x] = api[x]
    BY <1>1, <1>4, WriteStream DEF BusyInv
  <2>2. Releases
    <3> SUFFICES ASSUME NEW x \in Alloc, ~Busy(x)' PROVE api'[x] = api[x] /\ ~Busy(x)
      BY DEF Releases
    <3>1. x \notin queue' /\ ~InStream(x)'
      BY DEF Busy, InStream, Position
    <3>2. x # a
      BY <2>1, <3>1
    <3> QED
      BY <1>1, <2>1, <3>1, <3>2, BusyCases DEF Attended
  <2> QED
    BY <1>2, <2>1, <2>2 DEF StepKeeps
<1> QED
  BY <1>3, <1>4 DEF HandlerEnds

LEMMA CleanupKeeps == ASSUME TypeOK, BusyInv, CleanupAdvertisement PROVE StepKeeps
<1>1. PICK a \in Alloc : a = rec.name
  BY DEF CleanupAdvertisement, TypeOK
<1>2. UNCHANGED <<api, cache, events>> /\ rec.pc = "cleanup" /\ rec \in Reconciliation
  BY DEF CleanupAdvertisement, TypeOK
<1>3. CASE Return(TRUE)
  <2>1. HandlerEnds(a, api[a])
    BY <1>1, <1>2, <1>3 DEF HandlerEnds, Return
  <2> QED
    BY <2>1, EndKeeps, ObjectTypes
<1>4. CASE rec' = [rec EXCEPT !.pc = "unfinalize", !.at = clock + 1] /\ UNCHANGED queue
  <2>1. rec'.pc = "unfinalize" /\ rec'.name = rec.name
    BY <1>2, <1>4 DEF Reconciliation
  <2>2. \A x : Attended(x)' <=> Attended(x)
    BY <1>2, <1>4 DEF Attended, InStream, Position
  <2>3. PatchInv' /\ ResultInv'
    BY <1>2, <2>1, <2>2 DEF PatchInv, ResultInv, BusyInv
  <2> QED
    BY <1>2, <1>4, <2>1, <2>3, WorkKeeps
<1> QED
  BY <1>3, <1>4 DEF CleanupAdvertisement

LEMMA RemoveFinalizerKeeps == ASSUME TypeOK, BusyInv, RemoveFinalizer PROVE StepKeeps
<1>1. PICK a \in Alloc : a = rec.name
  BY DEF RemoveFinalizer, TypeOK
<1>2. UNCHANGED cache /\ rec.pc = "unfinalize" /\ rec' = Idle /\ queue \subseteq queue'
  BY DEF RemoveFinalizer, Return
<1>3. PICK o : o = Unfinalized(api[a])
  OBVIOUS
<1>4. o \in Object /\ (o.live /\ o.deleting => o.fin) /\ (api[a].live /\ api[a].deleting => o # api[a])
  <2>1. api[a] \in Object /\ api[a].rv \in Nat
    BY ObjectTypes
  <2>2. CASE api[a].deleting
    <3>1. o = Gone(api[a].rv)
      BY <1>3, <2>2 DEF Unfinalized
    <3>2. o \in Object /\ ~o.live
      BY <2>1, <3>1, GoneFlags
    <3> QED
      BY <3>2
  <2>3. CASE ~api[a].deleting
    <3>1. o = [api[a] EXCEPT !.fin = FALSE]
      BY <1>3, <2>3 DEF Unfinalized
    <3> QED
      BY <2>1, <2>3, <3>1 DEF Object
  <2> QED
    BY <2>2, <2>3
<1>5. \/ UNCHANGED <<api, events>> /\ a \in queue'
      \/ Put(a, o, TRUE)
  BY <1>1, <1>3 DEF RemoveFinalizer, Return
<1>6. Attended(a) \/ (api[a].live /\ api[a].deleting)
  BY <1>1, <1>2 DEF PatchInv, BusyInv
<1>7. HandlerEnds(a, o)
  BY <1>1, <1>2, <1>4, <1>5, <1>6 DEF HandlerEnds, Put
<1> QED
  BY <1>4, <1>7, EndKeeps

LEMMA AddFinalizerKeeps == ASSUME TypeOK, BusyInv, AddFinalizer PROVE StepKeeps
<1>1. PICK a \in Alloc : a = rec.name
  BY DEF AddFinalizer, TypeOK
<1>2. UNCHANGED cache /\ rec.pc = "finalize" /\ rec' = Idle /\ queue \subseteq queue'
  BY DEF AddFinalizer, Return
<1>3. PICK o : o = [api[a] EXCEPT !.fin = TRUE]
  OBVIOUS
<1>4. o \in Object /\ o.fin
  <2>1. api[a] \in Object
    BY ObjectTypes
  <2> QED
    BY <1>3, <2>1 DEF Object
<1>5. \/ UNCHANGED <<api, events>> /\ a \in queue'
      \/ Put(a, o, TRUE)
  BY <1>1, <1>3 DEF AddFinalizer, Return
<1>6. Attended(a) \/ ~api[a].fin
  BY <1>1, <1>2 DEF PatchInv, BusyInv
<1>7. HandlerEnds(a, o)
  BY <1>1, <1>2, <1>4, <1>5, <1>6 DEF HandlerEnds, Put
<1> QED
  BY <1>4, <1>7, EndKeeps

LEMMA DenyIsFailure == ASSUME NEW a \in Alloc PROVE DenyReason(a) \in Failure
<1>1. Request[a].address \in Nat /\ Request[a].pool \in Pool \cup {NoPool}
  BY RequestAssumption DEF AllocationSpec
<1> QED
  BY <1>1 DEF DenyReason, Failure, AllocationFailure

LEMMA DecideKeeps == ASSUME TypeOK, BusyInv, Decide PROVE StepKeeps
<1>1. PICK a \in Alloc : a = rec.name
  BY DEF Decide, TypeOK
<1>2. /\ UNCHANGED <<api, cache, events>> /\ rec.pc = "decide"
      /\ rec \in Reconciliation /\ rec.obj \in Object
  BY DEF Decide, TypeOK, Reconciliation
<1>3. rec.obj.live /\ ~rec.obj.deleting /\ rec.obj.fin
  BY <1>2 DEF ResultInv, BusyInv
<1>4. CASE PoolListFails
  <2>1. HandlerEnds(a, api[a])
    BY <1>1, <1>2, <1>4 DEF HandlerEnds, Return, PoolListFails
  <2> QED
    BY <2>1, EndKeeps, ObjectTypes
<1>5. CASE Deny
  <2>1. PICK r \in Failure : r = DenyReason(a)
    BY DenyIsFailure
  <2>2. PICK o : o = DeniedStatus(rec.obj, r)
    OBVIOUS
  <2>3. o.live /\ ~o.deleting /\ o.fin /\ o.reason \in Failure
    BY <1>2, <1>3, <2>2 DEF DeniedStatus, Object
  <2>4. rec' = [rec EXCEPT !.pc = "update", !.obj = o, !.dirty = o # rec.obj] /\ UNCHANGED queue
    BY <1>1, <1>5, <2>1, <2>2 DEF Deny
  <2>5. rec'.pc = "update" /\ rec'.obj = o /\ rec'.name = rec.name
    BY <1>2, <2>4 DEF Reconciliation
  <2>6. PatchInv' /\ ResultInv'
    BY <2>3, <2>5 DEF PatchInv, ResultInv
  <2> QED
    BY <1>2, <2>4, <2>5, <2>6, WorkKeeps
<1>6. ASSUME NEW p \in Pool, NEW ip \in IP, NEW now \in Nat, Grant(p, ip, now)
      PROVE  StepKeeps
  <2>2. PICK o : o = GrantedStatus(rec.obj, ip, pools[p].advertise, now)
    OBVIOUS
  <2>3. o.live /\ ~o.deleting /\ o.fin
    BY <1>2, <1>3, <2>2 DEF GrantedStatus, Object
  <2>4. /\ rec' = [rec EXCEPT !.pc = "program", !.obj = o, !.ip = ip, !.at = clock + 1,
                              !.advertise = pools[p].advertise, !.dirty = o # rec.obj]
        /\ UNCHANGED queue
    BY <1>6, <2>2 DEF Grant
  <2>5. rec'.pc = "program" /\ rec'.obj = o /\ rec'.name = rec.name
    BY <1>2, <2>4 DEF Reconciliation
  <2>6. PatchInv' /\ ResultInv'
    BY <2>3, <2>5 DEF PatchInv, ResultInv
  <2> QED
    BY <1>2, <2>4, <2>5, <2>6, WorkKeeps
<1> QED
  BY <1>4, <1>5, <1>6, DecideCases

\* The three outcomes of the router's call.
LEMMA ProgramCases ==
  ASSUME TypeOK, Program
  PROVE  /\ rec'.pc = "update" /\ rec'.name = rec.name
         /\ \/ /\ rec'.obj = Programmed(rec.obj) /\ rec'.dirty /\ rec.ip \in adv'
            \/ /\ rec'.obj = NotAdvertised(rec.obj) /\ rec'.dirty
            \/ rec'.obj = ProgrammingFailed(rec.obj)
         /\ adv \ {rec.ip} \subseteq adv'
  BY DEF Program, TypeOK, Reconciliation

LEMMA ProgramKeeps == ASSUME TypeOK, BusyInv, Program PROVE StepKeeps
<1>1. UNCHANGED <<api, cache, events, queue>> /\ rec.pc = "program" /\ rec.obj \in Object
  BY DEF Program, TypeOK, Reconciliation
<1>2. rec.obj.live /\ ~rec.obj.deleting /\ rec.obj.fin
  BY <1>1 DEF ResultInv, BusyInv
<1>3. rec'.obj.live /\ ~rec'.obj.deleting /\ rec'.obj.fin
  BY <1>1, <1>2, ProgramCases DEF Programmed, NotAdvertised, ProgrammingFailed, Object
<1>4. rec'.obj.reason \in Failure \/ (Ready(rec'.obj) /\ rec'.dirty)
  BY <1>1, ProgramCases DEF Programmed, NotAdvertised, ProgrammingFailed, Object, Failure, Ready
<1>5. PatchInv' /\ ResultInv'
  BY <1>3, <1>4, ProgramCases DEF PatchInv, ResultInv, Ready
<1> QED
  BY <1>1, <1>5, ProgramCases, WorkKeeps

LEMMA UpdateStatusKeeps == ASSUME TypeOK, BusyInv, UpdateStatus PROVE StepKeeps
<1>1. PICK a \in Alloc : a = rec.name
  BY DEF UpdateStatus, TypeOK
<1>2. PICK o \in Object : o = rec.obj
  BY DEF TypeOK, Reconciliation
<1>3. rec.pc = "update" /\ rec' = Idle /\ queue \subseteq queue' /\ UNCHANGED cache
  BY DEF UpdateStatus, Return
<1>4. ~o.deleting /\ (o.reason \in Failure \/ rec.dirty)
  BY <1>2, <1>3 DEF ResultInv, BusyInv
<1>5. \/ UNCHANGED <<api, events>> /\ a \in queue'
      \/ Put(a, o, TRUE) /\ (o.reason \in Failure => a \in queue')
  <2>1. CASE ~rec.dirty /\ Return(rec.obj.reason \in Failure) /\ UNCHANGED <<api, events>>
    BY <1>1, <1>2, <1>4, <2>1 DEF Return
  <2>2. CASE Put(rec.name, rec.obj, TRUE) /\ Return(rec.obj.reason \in Failure)
    BY <1>1, <1>2, <2>2 DEF Return
  <2>3. CASE Return(TRUE) /\ (UNCHANGED <<api, events>> \/ Put(rec.name, rec.obj, TRUE))
    BY <1>1, <1>2, <2>3 DEF Return
  <2> QED
    BY <2>1, <2>2, <2>3 DEF UpdateStatus
<1>6. HandlerEnds(a, o)
  BY <1>1, <1>2, <1>3, <1>4, <1>5 DEF HandlerEnds, Put, Dropped
<1> QED
  BY <1>6, EndKeeps

LEMMA BusyStep == TypeOK /\ BusyInv /\ [Next]_vars => StepKeeps
<1> SUFFICES ASSUME TypeOK, BusyInv, [Next]_vars PROVE StepKeeps
  OBVIOUS
<1>1. CASE UNCHANGED vars
  BY <1>1, QuietKeeps DEF vars
<1>2. CASE \E a \in Alloc : Create(a) \/ Delete(a) \/ Annotate(a)
  BY <1>2, WriteKeeps
<1>3. CASE \E a \in Alloc : Start(a)
  BY <1>3, StartKeeps
<1>4. CASE (\E p \in Pool : SetPool(p)) \/ Tick
  <2>1. UNCHANGED <<api, cache, events, queue, rec>>
    BY <1>4 DEF SetPool, Tick, controllerVars
  <2> QED
    BY <2>1, QuietKeeps
<1>5. CASE Deliver \/ Crash
  BY <1>5, DeliverKeeps, CrashKeeps
<1>6. CASE Worker
  BY <1>6, CleanupKeeps, RemoveFinalizerKeeps, AddFinalizerKeeps, DecideKeeps,
     ProgramKeeps, UpdateStatusKeeps DEF Worker
<1> QED
  BY <1>1, <1>2, <1>3, <1>4, <1>5, <1>6 DEF Next

LEMMA BusyInvStep == TypeOK /\ BusyInv /\ [Next]_vars => BusyInv'
<1> SUFFICES ASSUME TypeOK, BusyInv, [Next]_vars PROVE BusyInv'
  OBVIOUS
<1>1. StepKeeps
  BY BusyStep
<1>2. NeverForgotten'
  <2> SUFFICES ASSUME NEW a \in Alloc, ~Busy(a)'
               PROVE  ~api'[a].live \/ (~api'[a].deleting /\ api'[a].fin /\ Ready(api'[a]))
    BY DEF NeverForgotten
  <2>1. api'[a] = api[a] /\ (~Busy(a) \/ Dropped(a))
    BY <1>1 DEF StepKeeps, Releases
  <2>2. CASE ~Busy(a)
    BY <2>1, <2>2 DEF NeverForgotten, BusyInv
  <2>3. CASE Dropped(a)
    BY <2>1, <2>3 DEF Dropped, ResultInv, BusyInv
  <2> QED
    BY <2>1, <2>2, <2>3
<1> QED
  BY <1>1, <1>2 DEF BusyInv, StepKeeps

LEMMA BusyInvInit == Init => BusyInv
<1> SUFFICES ASSUME Init PROVE BusyInv
  OBVIOUS
<1>1. /\ \A a \in Alloc : api[a] = Gone(0) /\ cache[a] = Gone(0)
      /\ events = << >> /\ rec = Idle
  BY DEF Init
<1>2. \A a \in Alloc : ~api[a].live
  BY <1>1, GoneFlags
<1>3. Position = {}
  BY <1>1 DEF Position
<1> QED
  BY <1>1, <1>2, <1>3, IdleFacts
     DEF BusyInv, StreamInv, LastShown, Synced, FinalizerHolds, PatchInv, ResultInv, NeverForgotten

(***************************************************************************)
(* No early return, conflict, failing call, lost reply or crash of the     *)
(* reconciler (Reconcile of ip_allocation_reconciler.go) makes it lose     *)
(* sight of an allocation that it has not finished, however far its cache  *)
(* lags behind.                                                            *)
(***************************************************************************)
THEOREM NothingForgotten == Spec => []NeverForgotten
<1>1. BusyInv => NeverForgotten
  BY DEF BusyInv
<1> QED
  BY <1>1, TypeCorrect, BusyInvInit, BusyInvStep, PTL DEF Spec

-----------------------------------------------------------------------------
(***************************************************************************)
(* Advertisements.  The two calls that withdraw one hit the worker's own   *)
(* address only, which by UniqueInv nobody else has.                       *)
(***************************************************************************)
LEMMA Withdrawn ==
  ASSUME TypeOK, UniqueInv, [Next]_vars
  PROVE  \/ adv \subseteq adv'
         \/ /\ rec.pc \in {"cleanup", "program"} /\ rec.ip \in IP /\ rec.name \in Alloc
            /\ rec.ip \in Known => OnlyWorkerHolds
            /\ adv \ {rec.ip} \subseteq adv'
<1>1. CASE UNCHANGED adv
  BY <1>1
<1>2. CASE CleanupAdvertisement
  <2>1. rec.pc = "cleanup" /\ rec.ip \in IP /\ rec.name \in Alloc
    BY <1>2 DEF CleanupAdvertisement, TypeOK
  <2>2. rec.ip \in Known => OnlyWorkerHolds
    BY <2>1 DEF UniqueInv, WorkerInv, ReleaseInv
  <2>3. adv \ {rec.ip} \subseteq adv'
    BY <1>2 DEF CleanupAdvertisement
  <2> QED
    BY <2>1, <2>2, <2>3
<1>3. CASE Program
  <2>1. rec.pc = "program" /\ rec.ip \in IP /\ rec.name \in Alloc
    BY <1>3 DEF Program, TypeOK
  <2>2. rec.ip \in Known => OnlyWorkerHolds
    BY <2>1 DEF UniqueInv, WorkerInv, GrantInv
  <2>3. adv \ {rec.ip} \subseteq adv'
    BY <1>3, ProgramCases
  <2> QED
    BY <2>1, <2>2, <2>3
<1>4. CASE [Next]_vars /\ ~CleanupAdvertisement /\ ~Program
  BY <1>1, <1>4 DEF Next, Worker, vars, Create, Delete, Annotate, Start, SetPool, Tick, Deliver,
     Crash, RemoveFinalizer, AddFinalizer, Decide, UpdateStatus, controllerVars
<1> QED
  BY <1>2, <1>3, <1>4

LEMMA DoubtStays == ASSUME TypeOK, [Next]_vars PROVE doubtful \subseteq doubtful'
  BY DoubtCases

LEMMA AdvertisedStep ==
  ASSUME TypeOK, UniqueInv, BusyInv, AdvertisedInv, ProgrammedIsAdvertised, [Next]_vars
  PROVE  ProgrammedIsAdvertised'
<1> SUFFICES ASSUME NEW a \in Alloc, ~Busy(a)', api'[a].live, ~api'[a].deleting,
                    api'[a].phase = "Programmed", api'[a].addr \notin doubtful'
             PROVE  api'[a].addr \in adv'
  BY DEF ProgrammedIsAdvertised
<1>1. api'[a] = api[a] /\ (~Busy(a) \/ Dropped(a))
  BY BusyStep DEF StepKeeps, Releases
<1>2. api[a].addr \in adv /\ api[a].addr \notin doubtful
  BY <1>1, DoubtStays DEF ProgrammedIsAdvertised, AdvertisedInv, Dropped
<1>3. Holds(a, api[a].addr) /\ api[a].addr \in Known
  BY <1>1, <1>2, IPAssumption DEF Holds, Allocated, TypeOK, Known
<1>4. rec.pc \in {"cleanup", "program"} => a # rec.name
  BY <1>1, BusyCases DEF Dropped
<1>5. OnlyWorkerHolds /\ a # rec.name => api[a].addr # rec.ip
  BY <1>3 DEF OnlyWorkerHolds
<1> QED
  BY <1>1, <1>2, <1>3, <1>4, <1>5, Withdrawn

LEMMA ResultAdvertised ==
  ASSUME TypeOK, UniqueInv, BusyInv, AdvertisedInv, [Next]_vars
  PROVE  AdvertisedInv'
<1>1. CASE Program
  <2>1. rec.pc = "program" /\ rec.ip \in IP /\ rec.obj \in Object
    BY <1>1 DEF Program, TypeOK, Reconciliation
  <2>2. rec.obj.addr = rec.ip
    BY <2>1 DEF UniqueInv, WorkerInv, GrantInv, HasAddress
  <2> QED
    BY <1>1, <2>1, <2>2, ProgramCases
       DEF AdvertisedInv, Programmed, NotAdvertised, ProgrammingFailed, Object, Failure
<1>2. CASE UNCHANGED <<rec, adv>>
  BY <1>2 DEF AdvertisedInv
<1>3. CASE rec'.pc # "update"
  BY <1>3 DEF AdvertisedInv
<1>4. CASE Decide
  <2>1. rec.name \in Alloc /\ rec \in Reconciliation /\ rec.obj \in Object
    BY <1>4 DEF Decide, TypeOK, Reconciliation
  <2>2. CASE Deny
    <3>1. PICK o : o = DeniedStatus(rec.obj, DenyReason(rec.name))
      OBVIOUS
    <3>2. o.phase = "Failed"
      BY <2>1, <3>1 DEF DeniedStatus, Object
    <3>3. rec'.obj = o
      BY <2>1, <2>2, <3>1 DEF Deny, Reconciliation
    <3> QED
      BY <3>2, <3>3 DEF AdvertisedInv
  <2>3. CASE ~Deny
    <3>1. rec'.pc # "update"
      BY <1>4, <2>1, <2>3, DecideCases, IdleFacts DEF Grant, PoolListFails, Return, Reconciliation
    <3> QED
      BY <1>3, <3>1
  <2> QED
    BY <2>2, <2>3
<1>5. CASE CleanupAdvertisement \/ RemoveFinalizer \/ AddFinalizer \/ UpdateStatus \/ Crash
  <2>1. rec'.pc # "update"
    BY <1>5, IdleFacts DEF CleanupAdvertisement, RemoveFinalizer, AddFinalizer, UpdateStatus, Crash,
       Return, TypeOK, Reconciliation
  <2> QED
    BY <1>3, <2>1
<1>6. CASE \E a \in Alloc : Start(a)
  <2>1. PICK a \in Alloc : Start(a)
    BY <1>6
  <2>2. Branch(cache[a]) # "update"
    BY <2>1, ObjectTypes DEF Branch, Object
  <2>3. rec'.pc # "update"
    BY <2>1, <2>2, IdleFacts DEF Start, Idle
  <2> QED
    BY <1>3, <2>3
<1>7. CASE \/ UNCHANGED vars \/ Tick \/ Deliver
           \/ \E a \in Alloc : Create(a) \/ Delete(a) \/ Annotate(a)
           \/ \E p \in Pool : SetPool(p)
  BY <1>2, <1>7 DEF vars, Tick, Deliver, Create, Delete, Annotate, SetPool, controllerVars
<1> QED
  BY <1>1, <1>4, <1>5, <1>6, <1>7 DEF Next, Worker

(***************************************************************************)
(* An allocation that the reconciler (Reconcile of                         *)
(* ip_allocation_reconciler.go) leaves alone in phase Programmed is        *)
(* advertised by the router: no late cleanup and no withdrawal for a       *)
(* changed pool ever takes the advertisement of an address that has passed *)
(* to somebody else, unless the controller had lost track of that address. *)
(***************************************************************************)
THEOREM ProgrammedAdvertised == Spec => []ProgrammedIsAdvertised
<1>1. Spec => []TypeOK /\ []UniqueInv
  BY TypeCorrect, UniqueInvariant
<1>2. Init => AdvertisedInv /\ ProgrammedIsAdvertised
  <2> SUFFICES ASSUME Init PROVE AdvertisedInv /\ ProgrammedIsAdvertised
    OBVIOUS
  <2>1. \A a \in Alloc : ~api[a].live
    BY GoneFlags DEF Init
  <2> QED
    BY <2>1, IdleFacts DEF Init, AdvertisedInv, ProgrammedIsAdvertised
<1>3. TypeOK /\ UniqueInv /\ BusyInv /\ AdvertisedInv /\ [Next]_vars => AdvertisedInv'
  BY ResultAdvertised
<1>4. TypeOK /\ UniqueInv /\ BusyInv /\ AdvertisedInv /\ ProgrammedIsAdvertised /\ [Next]_vars
        => ProgrammedIsAdvertised'
  BY AdvertisedStep
<1> QED
  BY <1>1, <1>2, <1>3, <1>4, BusyInvInit, BusyInvStep, PTL DEF Spec

=============================================================================
