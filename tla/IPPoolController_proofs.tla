------------------------ MODULE IPPoolController_proofs ------------------------
(***************************************************************************)
(* Proofs about IPPoolController: type correctness, the counters of a pool *)
(* (StatusIsCurrent) and the allocations an edited pool moves              *)
(* (UnmarkedIsMoved).                                                      *)
(*                                                                         *)
(* The invariant of the last two says what the handler may rely on when it *)
(* ends without an error: what it read from the caches is what the API     *)
(* server holds, or the pool is queued, or an event that will queue it is  *)
(* on its way.  GenerationChangedPredicate makes the last part delicate:   *)
(* not every event of a pool queues it.                                    *)
(***************************************************************************)
EXTENDS IPPoolController, FiniteSetTheorems, TLAPS

\* What GenerationChangedPredicate should see: two versions agree on it.
SameSpec(o, n) == /\ o.live = n.live /\ o.deleting = n.deleting
                  /\ o.addrs = n.addrs /\ o.gen = n.gen
Follows(o, n) == SameSpec(o, n) \/ Enqueues(o, n)

Positions(s) == 1..Len(s)

(***************************************************************************)
(* The cache c and the stream s show the stored objects x: the last event  *)
(* of an object, or its cached copy, is the stored one.                    *)
(***************************************************************************)
LastShown(s, x) ==
  \A i \in Positions(s) :
    (\A j \in Positions(s) : i < j => s[j].name # s[i].name) => s[i].obj = x[s[i].name]
Synced(s, c, x) ==
  \A n \in DOMAIN x : (\A i \in Positions(s) : s[i].name # n) => c[n] = x[n]
Shown(s, c, x) == LastShown(s, x) /\ Synced(s, c, x)

(***************************************************************************)
(* A change of a pool's specification queues it when it is delivered.      *)
(***************************************************************************)
FirstFollows(s, c) ==
  \A i \in Positions(s) :
    (\A j \in Positions(s) : j < i => s[j].name # s[i].name) => Follows(c[s[i].name], s[i].obj)
NextFollows(s) ==
  \A i, j \in Positions(s) :
    /\ i < j /\ s[i].name = s[j].name
    /\ \A k \in Positions(s) : i < k /\ k < j => s[k].name # s[j].name
    => Follows(s[i].obj, s[j].obj)

\* A version after position i, up to m, that differs from o.
Differs(s, p, i, m, o) ==
  \E j \in Positions(s) : i < j /\ j <= m /\ s[j].name = p /\ ~SameSpec(o, s[j].obj)
Coming(s, c, p) == Differs(s, p, 0, Len(s), c[p])

\* What is seen of p is what is stored, or a different version follows;
\* and somebody else's write is always a different version.
SeenOrComing(s, c, x) ==
  /\ \A p \in Pool : Coming(s, c, p) \/ SameSpec(c[p], x[p])
  /\ \A i \in Positions(s) :
       Differs(s, s[i].name, i, Len(s), s[i].obj) \/ SameSpec(s[i].obj, x[s[i].name])
ForeignDiffers(s, c) ==
  \A i \in Positions(s) :
    ~s[i].own =>
      /\ Differs(s, s[i].name, 0, i, c[s[i].name])
      /\ \A k \in Positions(s) :
           k < i /\ s[k].name = s[i].name => Differs(s, s[i].name, k, i, s[k].obj)

PoolStream(s, c, x) == /\ Shown(s, c, x) /\ FirstFollows(s, c) /\ NextFollows(s)
                       /\ SeenOrComing(s, c, x) /\ ForeignDiffers(s, c)

StreamInv == /\ PoolStream(poolEvents, poolCache, pools)
             /\ Shown(allocEvents, allocCache, allocs)
             /\ \A a \in Alloc : allocs[a].live \/ allocs[a].addr = NoIP

\* p is going to be reconciled once more, whatever the worker does now.
Ahead(p) == p \in queue \/ Coming(poolEvents, poolCache, p) \/ allocEvents # << >>

InFlight(p) == rec.pc # "idle" /\ rec.name = p

\* The reconciliation in flight works with what is stored.
Agrees(p) == rec.pc # "finalize" => SameSpec(rec.pool, pools[p])
Counts(p) == /\ rec.pc # "finalize" => rec.pool.status = pools[p].status
             /\ rec.pc = "trigger" => \A a \in Alloc : rec.list[a].addr = allocs[a].addr

StatusOf(p) ==
  [total |-> FormatCount(Cardinality(pools[p].addrs)),
   allocated |-> FormatCount(Cardinality(HeldIn(p))),
   free |-> FormatCount(Cardinality(pools[p].addrs \ HeldIn(p)))]

StatusFor(p) == \/ Ahead(p)
                \/ InFlight(p) /\ Agrees(p) /\ Counts(p)
                \/ ~InFlight(p) /\ pools[p].status = StatusOf(p)

StatusInv == \A p \in Pool \ early : pools[p].live => StatusFor(p)

MovedFor(a, p) == \/ Ahead(p)
                  \/ InFlight(p) /\ Agrees(p) /\ (rec.pc = "trigger" => a \in rec.todo)

MovedInv ==
  \A a \in Alloc : Misplaced(a) /\ ~allocs[a].marked /\ a \notin allocQueue
                     => MovedFor(a, PoolName[a])

PoolInv == StreamInv /\ MovedInv /\ StatusInv

-----------------------------------------------------------------------------
(***************************************************************************)
(* Part 1.  Types.                                                         *)
(***************************************************************************)
USE DEF NoIP

LEMMA CountType == \A n \in Nat : FormatCount(n) \in Count
<1> SUFFICES ASSUME NEW n \in Nat PROVE FormatCount(n) \in Count
  OBVIOUS
<1>1. (n + 50) \div 100 \in Nat
  OBVIOUS
<1> QED
  BY <1>1 DEF FormatCount, Count

LEMMA StatusType == NoStatus \in Status
  BY DEF NoStatus, Status, NoCount, Count

LEMMA GoneType ==
  /\ PoolGone \in PoolObject /\ AllocGone \in AllocObject /\ AllocFresh \in AllocObject
  /\ \A addrs \in AddressSets : PoolFresh(addrs) \in PoolObject
  BY StatusType, IPPoolAssumption DEF PoolGone, PoolFresh, PoolObject, AllocGone, AllocFresh, AllocObject

LEMMA IdleType == Idle \in Reconciliation /\ Idle.pc = "idle"
  BY GoneType DEF Idle, NoList, Reconciliation

LEMMA EventTypes ==
  ASSUME TypeOK
  PROVE  /\ \A i \in Positions(poolEvents) :
              /\ poolEvents[i] \in PoolEvent /\ poolEvents[i].name \in Pool
              /\ poolEvents[i].obj \in PoolObject /\ poolEvents[i].own \in BOOLEAN
         /\ \A i \in Positions(allocEvents) :
              /\ allocEvents[i] \in AllocEvent /\ allocEvents[i].name \in Alloc
              /\ allocEvents[i].obj \in AllocObject
<1>1. \A i \in Positions(poolEvents) : poolEvents[i] \in PoolEvent
  BY DEF TypeOK, Positions
<1>2. \A i \in Positions(allocEvents) : allocEvents[i] \in AllocEvent
  BY DEF TypeOK, Positions
<1> QED
  BY <1>1, <1>2 DEF PoolEvent, AllocEvent

LEMMA WritePoolType ==
  ASSUME TypeOK, NEW p \in Pool, NEW o \in PoolObject, NEW own \in BOOLEAN, WritePool(p, o, own)
  PROVE  pools' \in [Pool -> PoolObject] /\ poolEvents' \in Seq(PoolEvent)
<1>1. PICK e \in PoolEvent : e = [name |-> p, obj |-> o, own |-> own]
  BY DEF PoolEvent
<1>2. poolEvents \in Seq(PoolEvent) /\ pools \in [Pool -> PoolObject]
  BY DEF TypeOK
<1>3. CASE o = pools[p]
  BY <1>2, <1>3 DEF WritePool
<1>4. CASE o # pools[p]
  <2>1. poolEvents' = Append(poolEvents, e) /\ pools' = [pools EXCEPT ![p] = o]
    BY <1>1, <1>4 DEF WritePool
  <2> QED
    BY <1>2, <2>1
<1> QED
  BY <1>3, <1>4

LEMMA WriteAllocType ==
  ASSUME TypeOK, NEW a \in Alloc, NEW o \in AllocObject, WriteAlloc(a, o)
  PROVE  allocs' \in [Alloc -> AllocObject] /\ allocEvents' \in Seq(AllocEvent)
<1>1. PICK e \in AllocEvent : e = [name |-> a, obj |-> o]
  BY DEF AllocEvent
<1>2. allocEvents \in Seq(AllocEvent) /\ allocs \in [Alloc -> AllocObject]
  BY DEF TypeOK
<1>3. CASE o = allocs[a]
  BY <1>2, <1>3 DEF WriteAlloc
<1>4. CASE o # allocs[a]
  <2>1. allocEvents' = Append(allocEvents, e) /\ allocs' = [allocs EXCEPT ![a] = o]
    BY <1>1, <1>4 DEF WriteAlloc
  <2> QED
    BY <1>2, <2>1
<1> QED
  BY <1>3, <1>4

LEMMA ReturnType ==
  ASSUME TypeOK, NEW failed \in BOOLEAN, Return(failed), rec.pc # "idle"
  PROVE  queue' \subseteq Pool /\ rec' \in Reconciliation /\ (rec'.pc # "idle" => rec'.name \in Pool)
  BY IdleType DEF Return, TypeOK

\* The addresses in use are some of the pool's.
LEMMA ListedType ==
  ASSUME TypeOK
  PROVE  /\ ListedAddresses \subseteq rec.pool.addrs
         /\ IsFiniteSet(rec.pool.addrs) /\ IsFiniteSet(ListedAddresses)
         /\ Cardinality(rec.pool.addrs) \in Nat /\ Cardinality(ListedAddresses) \in Nat
         /\ Cardinality(ListedAddresses) <= Cardinality(rec.pool.addrs)
<1>1. rec.pool.addrs \subseteq IP
  BY DEF TypeOK, Reconciliation, PoolObject
<1>2. ListedAddresses \subseteq rec.pool.addrs
  BY DEF ListedAddresses, MatchedAddress
<1>3. IsFiniteSet(rec.pool.addrs)
  BY <1>1, IPPoolFiniteAssumption, FS_Subset
<1> QED
  BY <1>2, <1>3, FS_Subset, FS_CardinalityType

LEMMA NewStatusType ==
  ASSUME TypeOK
  PROVE  NewStatus \in Status
<1> DEFINE total == Cardinality(rec.pool.addrs)
           allocated == Cardinality(ListedAddresses)
<1>1. total \in Nat /\ allocated \in Nat /\ total - allocated \in Nat
  BY ListedType
<1>2. FormatCount(total) \in Count /\ FormatCount(allocated) \in Count
      /\ FormatCount(total - allocated) \in Count
  BY <1>1, CountType
<1> QED
  BY <1>2 DEF NewStatus, Status

LEMMA MergePatchType ==
  ASSUME NEW current \in Status, NEW old \in Status, NEW new \in Status
  PROVE  MergePatch(current, old, new) \in Status
<1> DEFINE s == MergePatch(current, old, new)
<1>1. DOMAIN current = {"total", "allocated", "free"}
  BY DEF Status
<1>2. s = [total |-> s.total, allocated |-> s.allocated, free |-> s.free]
  BY <1>1 DEF MergePatch
<1>3. s.total \in Count /\ s.allocated \in Count /\ s.free \in Count
  BY <1>1 DEF MergePatch, Status
<1> QED
  BY <1>2, <1>3 DEF Status

LEMMA FinishedType ==
  ASSUME TypeOK, NEW o \in PoolObject
  PROVE  Finished(o) \in PoolObject
<1>1. rec.pool.status \in Status /\ o.status \in Status
  BY DEF TypeOK, Reconciliation, PoolObject
<1>2. MergePatch(o.status, rec.pool.status, NewStatus) \in Status
  BY <1>1, NewStatusType, MergePatchType
<1> QED
  BY <1>2, GoneType DEF Finished, PoolObject

\* The versions of a pool that somebody else or the controller writes.
LEMMA VersionType ==
  ASSUME NEW o \in PoolObject
  PROVE  /\ [o EXCEPT !.fin = TRUE] \in PoolObject
         /\ [o EXCEPT !.deleting = TRUE, !.gen = @ + 1] \in PoolObject
         /\ \A addrs \in AddressSets : [o EXCEPT !.addrs = addrs, !.gen = @ + 1] \in PoolObject
<1>1. PICK g \in Nat : g = o.gen + 1
  BY DEF PoolObject
<1>2. [o EXCEPT !.fin = TRUE] \in PoolObject
  BY DEF PoolObject
<1>3. [o EXCEPT !.deleting = TRUE, !.gen = g] \in PoolObject
  BY DEF PoolObject
<1>4. \A addrs \in SUBSET IP : [o EXCEPT !.addrs = addrs, !.gen = g] \in PoolObject
  BY DEF PoolObject
<1> QED
  BY <1>1, <1>2, <1>3, <1>4, IPPoolAssumption

\* One lemma per action; the environment first.
LEMMA PoolEnvironmentType ==
  ASSUME TypeOK, NEW p \in Pool, CreatePool(p) \/ EditPool(p) \/ DeletePool(p)
  PROVE  TypeOK'
<1>1. pools[p] \in PoolObject
  BY DEF TypeOK
<1>2. pools' \in [Pool -> PoolObject] /\ poolEvents' \in Seq(PoolEvent)
  <2>1. CASE CreatePool(p)
    BY <2>1, WritePoolType, GoneType DEF CreatePool
  <2>2. CASE EditPool(p)
    <3>1. PICK addrs \in AddressSets :
            WritePool(p, [pools[p] EXCEPT !.addrs = addrs, !.gen = @ + 1], FALSE)
      BY <2>2 DEF EditPool
    <3> QED
      BY <1>1, <3>1, VersionType, WritePoolType
  <2>3. CASE DeletePool(p)
    BY <2>3, <1>1, VersionType, WritePoolType, GoneType DEF DeletePool
  <2> QED
    BY <2>1, <2>2, <2>3
<1>3. UNCHANGED <<allocSide, controllers>> /\ ops' = ops + 1
  BY DEF CreatePool, EditPool, DeletePool, Operation
<1> QED
  BY <1>2, <1>3 DEF allocSide, controllers, TypeOK

LEMMA AllocEnvironmentType ==
  ASSUME TypeOK, NEW a \in Alloc, CreateAlloc(a) \/ DeleteAlloc(a)
  PROVE  TypeOK'
<1>1. allocs' \in [Alloc -> AllocObject] /\ allocEvents' \in Seq(AllocEvent)
  BY WriteAllocType, GoneType DEF CreateAlloc, DeleteAlloc
<1>2. UNCHANGED <<poolSide, controllers>> /\ ops' = ops + 1
  BY DEF CreateAlloc, DeleteAlloc, Operation
<1> QED
  BY <1>1, <1>2 DEF poolSide, controllers, TypeOK

LEMMA ReconcileAllocType ==
  ASSUME TypeOK, NEW a \in Alloc, ReconcileAlloc(a)
  PROVE  TypeOK'
<1>1. /\ [allocs[a] EXCEPT !.phase = "Failed", !.addr = NoIP] \in AllocObject
      /\ \A ip \in IP : [allocs[a] EXCEPT !.phase = "Allocated", !.addr = ip] \in AllocObject
  BY DEF TypeOK, AllocObject
<1>2. /\ allocs' \in [Alloc -> AllocObject] /\ allocEvents' \in Seq(AllocEvent)
      /\ allocQueue' \subseteq Alloc
  <2>1. CASE ~allocs[a].live
    BY <2>1 DEF ReconcileAlloc, allocSide, TypeOK
  <2>2. CASE allocs[a].live /\ Usable(a) = {}
    BY <2>2, <1>1, WriteAllocType DEF ReconcileAlloc, TypeOK
  <2>3. CASE allocs[a].live /\ Usable(a) # {}
    <3>1. PICK ip \in Usable(a) :
            /\ WriteAlloc(a, [allocs[a] EXCEPT !.phase = "Allocated", !.addr = ip])
            /\ allocQueue' = allocQueue \ {a}
      BY <2>3 DEF ReconcileAlloc
    <3>2. ip \in IP
      BY DEF Usable
    <3> QED
      BY <1>1, <3>1, <3>2, WriteAllocType DEF TypeOK
  <2> QED
    BY <2>1, <2>2, <2>3
<1> QED
  BY <1>2 DEF ReconcileAlloc, poolSide, TypeOK

LEMMA DeliverType ==
  ASSUME TypeOK, DeliverPool \/ DeliverAlloc
  PROVE  TypeOK'
<1>1. CASE DeliverPool
  <2>1. Head(poolEvents) \in PoolEvent /\ Tail(poolEvents) \in Seq(PoolEvent)
    BY <1>1 DEF DeliverPool, TypeOK
  <2>2. PICK e \in PoolEvent : e = Head(poolEvents)
    BY <2>1
  <2>3. e.name \in Pool /\ e.obj \in PoolObject
    BY DEF PoolEvent
  <2>4. poolCache' = [poolCache EXCEPT ![e.name] = e.obj] /\ queue' \subseteq queue \cup {e.name}
    BY <1>1, <2>2 DEF DeliverPool
  <2> QED
    BY <1>1, <2>1, <2>3, <2>4 DEF DeliverPool, allocSide, TypeOK
<1>2. CASE DeliverAlloc
  <2>1. Head(allocEvents) \in AllocEvent /\ Tail(allocEvents) \in Seq(AllocEvent)
    BY <1>2 DEF DeliverAlloc, TypeOK
  <2>2. PICK e \in AllocEvent : e = Head(allocEvents)
    BY <2>1
  <2>3. e.name \in Alloc /\ e.obj \in AllocObject
    BY DEF AllocEvent
  <2>4. /\ allocCache' = [allocCache EXCEPT ![e.name] = e.obj]
        /\ allocQueue' = allocQueue \cup {e.name}
    BY <1>2, <2>2 DEF DeliverAlloc
  <2> QED
    BY <1>2, <2>1, <2>3, <2>4 DEF DeliverAlloc, poolSide, TypeOK
<1> QED
  BY <1>1, <1>2

LEMMA CrashType ==
  ASSUME TypeOK, Crash
  PROVE  TypeOK'
  BY IdleType DEF Crash, Fault, TypeOK

LEMMA StartType ==
  ASSUME TypeOK, NEW p \in Pool, Start(p)
  PROVE  TypeOK'
<1>1. poolCache[p] \in PoolObject
  BY DEF TypeOK
<1>2. rec' \in Reconciliation /\ (rec'.pc # "idle" => rec'.name \in Pool)
  <2>1. CASE ~poolCache[p].live
    BY <2>1, IdleType DEF Start
  <2>2. CASE poolCache[p].live
    BY <2>2, <1>1, IdleType DEF Start, Reconciliation, PoolObject
  <2> QED
    BY <2>1, <2>2
<1> QED
  BY <1>2 DEF Start, poolSide, allocSide, TypeOK

LEMMA AddFinalizerType ==
  ASSUME TypeOK, AddFinalizer
  PROVE  TypeOK'
<1>1. PICK p \in Pool : p = rec.name
  BY DEF TypeOK, AddFinalizer
<1>2. PICK o \in PoolObject : o = [pools[p] EXCEPT !.fin = TRUE]
  BY VersionType DEF TypeOK
<1>3. pools' \in [Pool -> PoolObject] /\ poolEvents' \in Seq(PoolEvent)
  <2>1. UNCHANGED poolSide \/ WritePool(p, o, TRUE)
    BY <1>1, <1>2 DEF AddFinalizer
  <2> QED
    BY <2>1, WritePoolType DEF poolSide, TypeOK
<1>4. faults' \in Nat
  <2>1. faults' = faults \/ faults' = faults + 1
    BY DEF AddFinalizer, Fault
  <2> QED
    BY <2>1 DEF TypeOK
<1>5. queue' \subseteq Pool /\ rec' \in Reconciliation /\ (rec'.pc # "idle" => rec'.name \in Pool)
  <2>1. CASE Return(TRUE)
    BY <2>1, ReturnType DEF AddFinalizer
  <2>2. CASE rec' = [rec EXCEPT !.pc = "list", !.pool = o] /\ queue' = queue
    BY <1>1, <2>2 DEF TypeOK, Reconciliation
  <2> QED
    BY <1>1, <1>2, <2>1, <2>2 DEF AddFinalizer
<1> QED
  BY <1>3, <1>4, <1>5 DEF AddFinalizer, allocSide, TypeOK

LEMMA ListType ==
  ASSUME TypeOK, List
  PROVE  TypeOK'
<1>1. rec' \in Reconciliation /\ rec'.name = rec.name
  BY DEF List, TypeOK, Reconciliation
<1> QED
  BY <1>1 DEF List, poolSide, allocSide, TypeOK

LEMMA TriggerType ==
  ASSUME TypeOK, Trigger
  PROVE  TypeOK'
<1>1. PICK a \in rec.todo :
        LET marked == [allocs[a] EXCEPT !.marked = TRUE] IN
        \/ /\ WriteAlloc(a, marked)
           /\ rec' = [rec EXCEPT !.todo = @ \ {a}]
           /\ UNCHANGED <<queue, faults>>
        \/ /\ Return(TRUE) /\ UNCHANGED <<allocSide, faults>>
        \/ /\ Fault /\ Return(TRUE)
           /\ UNCHANGED allocSide \/ WriteAlloc(a, marked)
  BY DEF Trigger
<1>2. a \in Alloc
  BY DEF TypeOK, Reconciliation
<1>3. PICK o \in AllocObject : o = [allocs[a] EXCEPT !.marked = TRUE]
  BY <1>2 DEF TypeOK, AllocObject
<1>4. allocs' \in [Alloc -> AllocObject] /\ allocEvents' \in Seq(AllocEvent)
  <2>1. UNCHANGED allocSide \/ WriteAlloc(a, o)
    BY <1>1, <1>3
  <2> QED
    BY <1>2, <2>1, WriteAllocType DEF allocSide, TypeOK
<1>5. queue' \subseteq Pool /\ rec' \in Reconciliation /\ (rec'.pc # "idle" => rec'.name \in Pool)
  <2>1. CASE Return(TRUE)
    BY <2>1, ReturnType DEF Trigger
  <2>2. CASE rec' = [rec EXCEPT !.todo = @ \ {a}] /\ queue' = queue
    BY <2>2 DEF TypeOK, Reconciliation
  <2> QED
    BY <1>1, <2>1, <2>2
<1>6. faults' \in Nat
  <2>1. faults' = faults \/ faults' = faults + 1
    BY <1>1 DEF Fault
  <2> QED
    BY <2>1 DEF TypeOK
<1> QED
  BY <1>4, <1>5, <1>6 DEF Trigger, poolSide, TypeOK

LEMMA FinishType ==
  ASSUME TypeOK, Finish
  PROVE  TypeOK'
<1>1. PICK p \in Pool : p = rec.name
  BY DEF TypeOK, Finish
<1>2. PICK o \in PoolObject : o = Finished(pools[p])
  BY FinishedType DEF TypeOK
<1>3. pools' \in [Pool -> PoolObject] /\ poolEvents' \in Seq(PoolEvent)
  <2>1. UNCHANGED poolSide \/ WritePool(p, o, TRUE)
    BY <1>1, <1>2 DEF Finish
  <2> QED
    BY <2>1, WritePoolType DEF poolSide, TypeOK
<1>4. Return(TRUE) \/ Return(FALSE)
  BY DEF Finish
<1>5. queue' \subseteq Pool /\ rec' \in Reconciliation /\ (rec'.pc # "idle" => rec'.name \in Pool)
  BY <1>4, ReturnType DEF Finish
<1>6. faults' \in Nat
  <2>1. faults' = faults \/ faults' = faults + 1
    BY DEF Finish, Fault
  <2> QED
    BY <2>1 DEF TypeOK
<1> QED
  BY <1>3, <1>5, <1>6 DEF Finish, allocSide, TypeOK

LEMMA TypeStep == TypeOK /\ [Next]_vars => TypeOK'
<1> SUFFICES ASSUME TypeOK, [Next]_vars PROVE TypeOK'
  OBVIOUS
<1>1. CASE UNCHANGED vars
  BY <1>1 DEF vars, TypeOK
<1>2. ASSUME NEW p \in Pool, CreatePool(p) \/ EditPool(p) \/ DeletePool(p) PROVE TypeOK'
  BY <1>2, PoolEnvironmentType
<1>3. ASSUME NEW a \in Alloc, CreateAlloc(a) \/ DeleteAlloc(a) PROVE TypeOK'
  BY <1>3, AllocEnvironmentType
<1>4. CASE Worker
  BY <1>4, AddFinalizerType, ListType, TriggerType, FinishType DEF Worker
<1> QED
  BY <1>1, <1>2, <1>3, <1>4, StartType, ReconcileAllocType, DeliverType, CrashType DEF Next

(***************************************************************************)
(* Every state that the handler and the environment reach is well typed:   *)
(* in particular the free addresses of a status never get negative.        *)
(***************************************************************************)
THEOREM PoolTypeCorrect == Spec => []TypeOK
<1>1. Init => TypeOK
  BY IdleType, GoneType DEF Init, TypeOK
<1> QED
  BY <1>1, TypeStep, PTL DEF Spec

-----------------------------------------------------------------------------
(***************************************************************************)
(* Part 2.  The watch streams: what a write at their end and a delivery at *)
(* their head do.                                                          *)
(***************************************************************************)
\* u is s with e at its end; t is s without its head.
Appended(s, u, e) ==
  /\ Len(s) \in Nat /\ Len(u) = Len(s) + 1
  /\ u[Len(s) + 1] = e
  /\ \A i \in Positions(s) : u[i] = s[i]
Tailed(s, t) ==
  /\ Len(t) \in Nat /\ Len(s) = Len(t) + 1
  /\ \A i \in Positions(t) : t[i] = s[i + 1]

LEMMA AppendIsAppended ==
  ASSUME NEW E, NEW s \in Seq(E), NEW e \in E
  PROVE  Appended(s, Append(s, e), e)
  BY DEF Appended, Positions

LEMMA TailIsTailed ==
  ASSUME NEW E, NEW s \in Seq(E), s # << >>
  PROVE  Tailed(s, Tail(s)) /\ Head(s) = s[1] /\ 1 \in Positions(s) /\ Head(s) \in E
  BY DEF Tailed, Positions

LEMMA AppendedPositions ==
  ASSUME NEW s, NEW u, NEW e, Appended(s, u, e)
  PROVE  \A i \in Positions(u) : i = Len(s) + 1 \/ (i \in Positions(s) /\ i < Len(s) + 1)
  BY DEF Appended, Positions

LEMMA TailedPositions ==
  ASSUME NEW s, NEW t, Tailed(s, t)
  PROVE  /\ \A i \in Positions(t) : i + 1 \in Positions(s) /\ t[i] = s[i + 1] /\ i \in Nat /\ 1 < i + 1
         /\ \A i \in Positions(s) : i = 1 \/ (i - 1 \in Positions(t) /\ t[i - 1] = s[i] /\ 1 < i)
<1>1. \A i \in Positions(s) : i # 1 => i - 1 \in Positions(t) /\ (i - 1) + 1 = i /\ 1 < i
  BY DEF Tailed, Positions
<1> QED
  BY <1>1 DEF Tailed, Positions

LEMMA ShownAppended ==
  ASSUME NEW D, NEW O, NEW x \in [D -> O], NEW c, NEW s, NEW u, NEW e,
         \A i \in Positions(s) : s[i].name \in D,
         e.name \in D, Appended(s, u, e), Shown(s, c, x)
  PROVE  Shown(u, c, [x EXCEPT ![e.name] = e.obj])
<1> DEFINE y == [x EXCEPT ![e.name] = e.obj]
<1>1. \A n \in D : y[n] = IF n = e.name THEN e.obj ELSE x[n]
  OBVIOUS
<1>2. DOMAIN y = D /\ DOMAIN x = D
  OBVIOUS
<1>3. /\ Len(s) + 1 \in Positions(u) /\ u[Len(s) + 1] = e
      /\ \A i \in Positions(s) : i \in Positions(u) /\ u[i] = s[i] /\ i < Len(s) + 1
  BY DEF Appended, Positions
<1> HIDE DEF y
<1>4. LastShown(u, y)
  <2> SUFFICES ASSUME NEW i \in Positions(u), \A j \in Positions(u) : i < j => u[j].name # u[i].name
               PROVE  u[i].obj = y[u[i].name]
    BY DEF LastShown
  <2>1. CASE i = Len(s) + 1
    BY <1>1, <1>3, <2>1
  <2>2. CASE i \in Positions(s)
    <3>1. u[i] = s[i] /\ s[i].name \in D /\ s[i].name # e.name
      BY <1>3, <2>2
    <3>2. \A j \in Positions(s) : i < j => s[j].name # s[i].name
      BY <1>3, <2>2
    <3> QED
      BY <1>1, <2>2, <3>1, <3>2 DEF Shown, LastShown
  <2> QED
    BY <2>1, <2>2, AppendedPositions
<1>5. Synced(u, c, y)
  <2> SUFFICES ASSUME NEW n \in D, \A i \in Positions(u) : u[i].name # n
               PROVE  c[n] = y[n]
    BY <1>2 DEF Synced
  <2>1. n # e.name /\ \A i \in Positions(s) : s[i].name # n
    BY <1>3
  <2> QED
    BY <1>1, <1>2, <2>1 DEF Shown, Synced
<1> QED
  BY <1>4, <1>5 DEF Shown, y

LEMMA ShownTailed ==
  ASSUME NEW D, NEW O, NEW x \in [D -> O], NEW c \in [D -> O], NEW s, NEW t,
         s[1].name \in D, 1 \in Positions(s), Tailed(s, t), Shown(s, c, x)
  PROVE  Shown(t, [c EXCEPT ![s[1].name] = s[1].obj], x)
<1> DEFINE d == [c EXCEPT ![s[1].name] = s[1].obj]
<1>1. \A n \in D : d[n] = IF n = s[1].name THEN s[1].obj ELSE c[n]
  OBVIOUS
<1> HIDE DEF d
<1>2. LastShown(t, x)
  <2> SUFFICES ASSUME NEW i \in Positions(t), \A j \in Positions(t) : i < j => t[j].name # t[i].name
               PROVE  t[i].obj = x[t[i].name]
    BY DEF LastShown
  <2>1. i + 1 \in Positions(s) /\ t[i] = s[i + 1] /\ i \in Nat
    BY TailedPositions
  <2>2. ASSUME NEW j \in Positions(s), i + 1 < j PROVE s[j].name # s[i + 1].name
    <3>1. j - 1 \in Positions(t) /\ t[j - 1] = s[j]
      BY <2>1, <2>2, TailedPositions
    <3>2. i < j - 1
      BY <2>1, <2>2 DEF Positions
    <3> QED
      BY <2>1, <3>1, <3>2
  <2> QED
    BY <2>1, <2>2 DEF Shown, LastShown
<1>3. Synced(t, d, x)
  <2> SUFFICES ASSUME NEW n \in D, \A i \in Positions(t) : t[i].name # n
               PROVE  d[n] = x[n]
    BY DEF Synced
  <2>1. \A i \in Positions(s) : i = 1 \/ s[i].name # n
    BY TailedPositions
  <2>2. CASE n = s[1].name
    <3>1. \A j \in Positions(s) : 1 < j => s[j].name # s[1].name
      BY <2>1, <2>2
    <3> QED
      BY <1>1, <2>2, <3>1 DEF Shown, LastShown
  <2>3. CASE n # s[1].name
    BY <1>1, <2>1, <2>3 DEF Shown, Synced
  <2> QED
    BY <2>2, <2>3
<1> QED
  BY <1>2, <1>3 DEF Shown, d

LEMMA ShownEmpty ==
  ASSUME NEW x
  PROVE  Shown(<< >>, x, x)
  BY DEF Shown, LastShown, Synced, Positions

LEMMA SameSpecEquivalence ==
  /\ \A o : SameSpec(o, o)
  /\ \A o, n : SameSpec(o, n) => SameSpec(n, o)
  /\ \A o, n, m : SameSpec(o, n) /\ SameSpec(n, m) => SameSpec(o, m)
  BY DEF SameSpec

LEMMA DiffersAppended ==
  ASSUME NEW s, NEW u, NEW e, Appended(s, u, e), NEW p, NEW o, NEW i \in Nat, NEW m \in Nat,
         m <= Len(s), NEW m2 \in Nat, m <= m2, Differs(s, p, i, m, o)
  PROVE  Differs(u, p, i, m2, o)
<1>1. PICK j \in Positions(s) : i < j /\ j <= m /\ s[j].name = p /\ ~SameSpec(o, s[j].obj)
  BY DEF Differs
<1>2. j \in Positions(u) /\ u[j] = s[j] /\ j <= m2
  BY <1>1 DEF Appended, Positions
<1> QED
  BY <1>1, <1>2 DEF Differs

LEMMA DiffersTailed ==
  ASSUME NEW s, NEW t, Tailed(s, t), NEW p, NEW o, NEW i \in Nat, NEW m \in Nat,
         Differs(s, p, i, m + 1, o), i > 0 \/ s[1].name # p \/ SameSpec(o, s[1].obj)
  PROVE  Differs(t, p, IF i = 0 THEN 0 ELSE i - 1, m, o)
<1>1. PICK j \in Positions(s) : i < j /\ j <= m + 1 /\ s[j].name = p /\ ~SameSpec(o, s[j].obj)
  BY DEF Differs
<1>2. j # 1
  BY <1>1
<1>3. j - 1 \in Positions(t) /\ t[j - 1] = s[j]
  BY <1>2, TailedPositions
<1>4. j - 1 <= m /\ (IF i = 0 THEN 0 ELSE i - 1) < j - 1
  BY <1>1, <1>2 DEF Positions, Tailed
<1> QED
  BY <1>1, <1>3, <1>4 DEF Differs

\* A write: what it makes of the pool is the same specification, or will
\* queue the pool; somebody else's write is a different one.
LEMMA StreamAppended ==
  ASSUME NEW x \in [Pool -> PoolObject], NEW c, NEW s, NEW u, NEW e,
         \A i \in Positions(s) : s[i].name \in Pool,
         e.name \in Pool, Appended(s, u, e), PoolStream(s, c, x),
         Follows(x[e.name], e.obj), e.own \/ ~SameSpec(x[e.name], e.obj)
  PROVE  PoolStream(u, c, [x EXCEPT ![e.name] = e.obj])
<1> DEFINE y == [x EXCEPT ![e.name] = e.obj]
<1>1. \A n \in Pool : y[n] = IF n = e.name THEN e.obj ELSE x[n]
  OBVIOUS
<1>2. Shown(u, c, y)
  BY ShownAppended DEF PoolStream
<1> HIDE DEF y
<1> DEFINE last == Len(s) + 1
<1>3. /\ Len(s) \in Nat /\ Len(u) = last /\ last \in Nat /\ last \in Positions(u) /\ u[last] = e
      /\ \A i \in Positions(s) : i \in Positions(u) /\ u[i] = s[i] /\ i < last /\ i \in Nat /\ i <= Len(s)
      /\ \A i \in Positions(u) : i = last \/ i \in Positions(s)
      /\ Len(s) <= last
  BY AppendedPositions DEF Appended, Positions
<1> HIDE DEF last
<1>4. FirstFollows(u, c)
  <2> SUFFICES ASSUME NEW i \in Positions(u), \A j \in Positions(u) : j < i => u[j].name # u[i].name
               PROVE  Follows(c[u[i].name], u[i].obj)
    BY DEF FirstFollows
  <2>1. CASE i = last
    <3>1. \A j \in Positions(s) : s[j].name # e.name
      BY <1>3, <2>1
    <3>2. c[e.name] = x[e.name]
      BY <3>1 DEF PoolStream, Shown, Synced
    <3> QED
      BY <1>3, <2>1, <3>2
  <2>2. CASE i \in Positions(s)
    <3>1. \A j \in Positions(s) : j < i => s[j].name # s[i].name
      BY <1>3, <2>2
    <3> QED
      BY <1>3, <2>2, <3>1 DEF PoolStream, FirstFollows
  <2> QED
    BY <1>3, <2>1, <2>2
<1>5. NextFollows(u)
  <2> SUFFICES ASSUME NEW i \in Positions(u), NEW j \in Positions(u), i < j, u[i].name = u[j].name,
                      \A k \in Positions(u) : i < k /\ k < j => u[k].name # u[j].name
               PROVE  Follows(u[i].obj, u[j].obj)
    BY DEF NextFollows
  <2>0. i # last
    BY <1>3 DEF Positions
  <2>1. CASE j = last
    <3>1. i \in Positions(s) /\ s[i].name = e.name
      BY <1>3, <2>0, <2>1
    <3>2. \A k \in Positions(s) : i < k => s[k].name # s[i].name
      BY <1>3, <2>1, <3>1
    <3>3. s[i].obj = x[e.name]
      BY <3>1, <3>2 DEF PoolStream, Shown, LastShown
    <3> QED
      BY <1>3, <2>1, <3>1, <3>3
  <2>2. CASE j \in Positions(s)
    <3>1. \A k \in Positions(s) : i < k /\ k < j => s[k].name # s[j].name
      BY <1>3, <2>2
    <3>2. i \in Positions(s) /\ s[i].name = s[j].name
      BY <1>3, <2>0, <2>2
    <3>3. Follows(s[i].obj, s[j].obj)
      BY <2>2, <3>1, <3>2 DEF PoolStream, NextFollows
    <3> QED
      BY <1>3, <2>2, <3>2, <3>3
  <2> QED
    BY <1>3, <2>1, <2>2
\* What was seen as the stored version, or different, stays so.
<1>6. ASSUME NEW i \in Nat, i <= Len(s), NEW p \in Pool, NEW o,
             Differs(s, p, i, Len(s), o) \/ SameSpec(o, x[p])
      PROVE  Differs(u, p, i, last, o) \/ SameSpec(o, y[p])
  <2>1. CASE Differs(s, p, i, Len(s), o)
    BY <1>3, <1>6, <2>1, DiffersAppended
  <2>2. CASE SameSpec(o, x[p]) /\ p # e.name
    BY <1>1, <2>2
  <2>3. CASE SameSpec(o, x[p]) /\ p = e.name /\ ~SameSpec(o, e.obj)
    <3>1. i < last
      BY <1>3, <1>6 DEF last
    <3>2. last <= last
      BY <1>3
    <3> QED
      BY <1>3, <2>3, <3>1, <3>2 DEF Differs
  <2>4. CASE p = e.name /\ SameSpec(o, e.obj)
    BY <1>1, <2>4
  <2> QED
    BY <1>6, <2>1, <2>2, <2>3, <2>4
<1>7. SeenOrComing(u, c, y)
  <2>1. ASSUME NEW p \in Pool PROVE Coming(u, c, p) \/ SameSpec(c[p], y[p])
    <3>1. Differs(s, p, 0, Len(s), c[p]) \/ SameSpec(c[p], x[p])
      BY DEF PoolStream, SeenOrComing, Coming
    <3>2. 0 <= Len(s)
      BY <1>3
    <3> QED
      BY <1>3, <1>6, <3>1, <3>2 DEF Coming
  <2>2. ASSUME NEW i \in Positions(u)
        PROVE  Differs(u, u[i].name, i, Len(u), u[i].obj) \/ SameSpec(u[i].obj, y[u[i].name])
    <3>1. CASE i = last
      BY <1>1, <1>3, <3>1, SameSpecEquivalence
    <3>2. CASE i \in Positions(s)
      <4>1. Differs(s, s[i].name, i, Len(s), s[i].obj) \/ SameSpec(s[i].obj, x[s[i].name])
        BY <3>2 DEF PoolStream, SeenOrComing
      <4>2. i \in Nat /\ i <= Len(s) /\ s[i].name \in Pool /\ u[i] = s[i]
        BY <1>3, <3>2
      <4> QED
        BY <1>3, <1>6, <4>1, <4>2
    <3> QED
      BY <1>3, <3>1, <3>2
  <2> QED
    BY <2>1, <2>2 DEF SeenOrComing
<1>8. ForeignDiffers(u, c)
  <2> SUFFICES ASSUME NEW i \in Positions(u), ~u[i].own
               PROVE  /\ Differs(u, u[i].name, 0, i, c[u[i].name])
                      /\ \A k \in Positions(u) :
                           k < i /\ u[k].name = u[i].name => Differs(u, u[i].name, k, i, u[k].obj)
    BY DEF ForeignDiffers
  <2>1. CASE i = last
    <3>1. ~SameSpec(x[e.name], e.obj)
      BY <1>3, <2>1
    <3>2. ~SameSpec(x[e.name], y[e.name])
      BY <1>1, <3>1
    <3>3. ASSUME NEW m \in Nat, m <= Len(s), NEW o,
                 Differs(s, e.name, m, Len(s), o) \/ SameSpec(o, x[e.name])
          PROVE  Differs(u, e.name, m, last, o)
      <4>1. CASE Differs(s, e.name, m, Len(s), o)
        BY <1>3, <3>3, <4>1, DiffersAppended
      <4>2. CASE SameSpec(o, x[e.name])
        <5>1. ~SameSpec(o, e.obj)
          BY <3>1, <4>2, SameSpecEquivalence
        <5>2. m < last /\ last <= last
          BY <1>3, <3>3 DEF last
        <5> QED
          BY <1>3, <5>1, <5>2 DEF Differs
      <4> QED
        BY <3>3, <4>1, <4>2
    <3>4. Differs(u, e.name, 0, last, c[e.name])
      <4>1. Differs(s, e.name, 0, Len(s), c[e.name]) \/ SameSpec(c[e.name], x[e.name])
        BY DEF PoolStream, SeenOrComing, Coming
      <4>2. 0 <= Len(s)
        BY <1>3
      <4> QED
        BY <3>3, <4>1, <4>2
    <3>5. ASSUME NEW k \in Positions(u), k < last, u[k].name = e.name
          PROVE  Differs(u, e.name, k, last, u[k].obj)
      <4>1. k \in Positions(s)
        BY <1>3, <3>5
      <4>2. k \in Nat /\ k <= Len(s) /\ u[k] = s[k] /\ s[k].name = e.name
        BY <1>3, <3>5, <4>1
      <4>3. Differs(s, e.name, k, Len(s), s[k].obj) \/ SameSpec(s[k].obj, x[e.name])
        BY <4>1, <4>2 DEF PoolStream, SeenOrComing
      <4> QED
        BY <3>3, <4>2, <4>3
    <3> QED
      BY <1>3, <2>1, <3>4, <3>5
  <2>2. CASE i \in Positions(s)
    <3>1. i \in Nat /\ i <= Len(s) /\ i <= i /\ u[i] = s[i] /\ i < last
      BY <1>3, <2>2
    <3>2. /\ Differs(s, s[i].name, 0, i, c[s[i].name])
          /\ \A k \in Positions(s) :
               k < i /\ s[k].name = s[i].name => Differs(s, s[i].name, k, i, s[k].obj)
      BY <2>2, <3>1 DEF PoolStream, ForeignDiffers
    <3>3. Differs(u, u[i].name, 0, i, c[u[i].name])
      BY <3>1, <3>2, DiffersAppended
    <3>4. ASSUME NEW k \in Positions(u), k < i, u[k].name = u[i].name
          PROVE  Differs(u, u[i].name, k, i, u[k].obj)
      <4>1. k \in Positions(s)
        BY <1>3, <3>1, <3>4
      <4>2. k \in Nat /\ u[k] = s[k]
        BY <1>3, <4>1
      <4>3. Differs(s, s[i].name, k, i, s[k].obj)
        BY <3>1, <3>2, <3>4, <4>1, <4>2
      <4> QED
        BY <3>1, <4>2, <4>3, DiffersAppended
    <3> QED
      BY <3>3, <3>4
  <2> QED
    BY <1>3, <2>1, <2>2
<1> QED
  BY <1>2, <1>4, <1>5, <1>7, <1>8 DEF PoolStream, y

\* A delivery.
LEMMA StreamTailed ==
  ASSUME NEW x \in [Pool -> PoolObject], NEW c \in [Pool -> PoolObject], NEW s, NEW t,
         \A i \in Positions(s) : s[i].name \in Pool,
         1 \in Positions(s), Tailed(s, t), PoolStream(s, c, x)
  PROVE  PoolStream(t, [c EXCEPT ![s[1].name] = s[1].obj], x)
<1> DEFINE d == [c EXCEPT ![s[1].name] = s[1].obj]
<1>0. s[1].name \in Pool
  OBVIOUS
<1>1. \A n \in Pool : d[n] = IF n = s[1].name THEN s[1].obj ELSE c[n]
  OBVIOUS
<1>2. Shown(t, d, x)
  BY <1>0, ShownTailed DEF PoolStream
<1> HIDE DEF d
<1>3. /\ \A i \in Positions(t) : i + 1 \in Positions(s) /\ t[i] = s[i + 1] /\ i \in Nat /\ 1 < i + 1
      /\ \A i \in Positions(s) : i = 1 \/ (i - 1 \in Positions(t) /\ t[i - 1] = s[i] /\ 1 < i)
  BY TailedPositions
<1>4. /\ Len(t) \in Nat /\ Len(s) = Len(t) + 1
      /\ \A i \in Positions(t) : t[i].name \in Pool
      /\ \A i, j \in Positions(t) : i < j => i + 1 < j + 1
      /\ \A i \in Positions(t), j \in Positions(s) : j < i + 1 => j - 1 < i
      /\ \A i \in Positions(t), j \in Positions(s) : i + 1 < j => i < j - 1
  BY <1>3 DEF Tailed, Positions
<1>5. FirstFollows(t, d)
  <2> SUFFICES ASSUME NEW i \in Positions(t), \A j \in Positions(t) : j < i => t[j].name # t[i].name
               PROVE  Follows(d[t[i].name], t[i].obj)
    BY DEF FirstFollows
  <2>1. i + 1 \in Positions(s) /\ t[i] = s[i + 1] /\ t[i].name \in Pool /\ 1 < i + 1
    BY <1>3, <1>4
  <2>2. ASSUME NEW j \in Positions(s), 1 < j, j < i + 1 PROVE s[j].name # s[i + 1].name
    <3>1. j - 1 \in Positions(t) /\ t[j - 1] = s[j] /\ j - 1 < i
      BY <1>3, <1>4, <2>2
    <3> QED
      BY <2>1, <3>1
  <2>3. CASE s[1].name = s[i + 1].name
    <3>1. Follows(s[1].obj, s[i + 1].obj)
      BY <2>1, <2>2, <2>3 DEF PoolStream, NextFollows
    <3> QED
      BY <1>1, <2>1, <2>3, <3>1
  <2>4. CASE s[1].name # s[i + 1].name
    <3>1. \A j \in Positions(s) : j < i + 1 => s[j].name # s[i + 1].name
      BY <1>3, <2>2, <2>4
    <3>2. Follows(c[s[i + 1].name], s[i + 1].obj)
      BY <2>1, <3>1 DEF PoolStream, FirstFollows
    <3> QED
      BY <1>1, <2>1, <2>4, <3>2
  <2> QED
    BY <2>3, <2>4
<1>6. NextFollows(t)
  <2> SUFFICES ASSUME NEW i \in Positions(t), NEW j \in Positions(t), i < j, t[i].name = t[j].name,
                      \A k \in Positions(t) : i < k /\ k < j => t[k].name # t[j].name
               PROVE  Follows(t[i].obj, t[j].obj)
    BY DEF NextFollows
  <2>1. /\ i + 1 \in Positions(s) /\ j + 1 \in Positions(s) /\ t[i] = s[i + 1] /\ t[j] = s[j + 1]
        /\ i + 1 < j + 1 /\ 1 < i + 1
    BY <1>3, <1>4
  <2>2. ASSUME NEW k \in Positions(s), i + 1 < k, k < j + 1 PROVE s[k].name # s[j + 1].name
    <3>1. k # 1
      BY <2>2, <1>3 DEF Positions
    <3>2. k - 1 \in Positions(t) /\ t[k - 1] = s[k] /\ i < k - 1 /\ k - 1 < j
      BY <1>3, <1>4, <2>2, <3>1
    <3> QED
      BY <2>1, <3>2
  <2> QED
    BY <2>1, <2>2 DEF PoolStream, NextFollows
<1>7. SeenOrComing(t, d, x)
  <2>1. ASSUME NEW p \in Pool PROVE Coming(t, d, p) \/ SameSpec(d[p], x[p])
    <3>1. CASE p = s[1].name
      <4>1. Differs(s, p, 1, Len(s), s[1].obj) \/ SameSpec(s[1].obj, x[p])
        BY <3>1 DEF PoolStream, SeenOrComing
      <4>2. Differs(s, p, 1, Len(s), s[1].obj) => Differs(t, p, 0, Len(t), s[1].obj)
        BY <1>4, DiffersTailed
      <4> QED
        BY <1>1, <3>1, <4>1, <4>2 DEF Coming
    <3>2. CASE p # s[1].name
      <4>1. Differs(s, p, 0, Len(s), c[p]) \/ SameSpec(c[p], x[p])
        BY DEF PoolStream, SeenOrComing, Coming
      <4>2. Differs(s, p, 0, Len(s), c[p]) => Differs(t, p, 0, Len(t), c[p])
        BY <1>4, <3>2, DiffersTailed
      <4> QED
        BY <1>1, <3>2, <4>1, <4>2 DEF Coming
    <3> QED
      BY <3>1, <3>2
  <2>2. ASSUME NEW i \in Positions(t)
        PROVE  Differs(t, t[i].name, i, Len(t), t[i].obj) \/ SameSpec(t[i].obj, x[t[i].name])
    <3>1. i + 1 \in Positions(s) /\ t[i] = s[i + 1] /\ i \in Nat
      BY <1>3
    <3>2. Differs(s, t[i].name, i + 1, Len(s), t[i].obj) \/ SameSpec(t[i].obj, x[t[i].name])
      BY <3>1 DEF PoolStream, SeenOrComing
    <3>3. i + 1 \in Nat /\ i + 1 > 0 /\ (i + 1) - 1 = i /\ i + 1 # 0
      BY <3>1
    <3>4. ASSUME Differs(s, t[i].name, i + 1, Len(s), t[i].obj)
          PROVE  Differs(t, t[i].name, i, Len(t), t[i].obj)
      BY <1>4, <3>3, <3>4, DiffersTailed
    <3> QED
      BY <3>2, <3>4
  <2> QED
    BY <2>1, <2>2 DEF SeenOrComing
<1>8. ForeignDiffers(t, d)
  <2> SUFFICES ASSUME NEW i \in Positions(t), ~t[i].own
               PROVE  /\ Differs(t, t[i].name, 0, i, d[t[i].name])
                      /\ \A k \in Positions(t) :
                           k < i /\ t[k].name = t[i].name => Differs(t, t[i].name, k, i, t[k].obj)
    BY DEF ForeignDiffers
  <2>1. i + 1 \in Positions(s) /\ t[i] = s[i + 1] /\ i \in Nat /\ 1 < i + 1 /\ t[i].name \in Pool
    BY <1>3, <1>4
  <2>2. /\ Differs(s, t[i].name, 0, i + 1, c[t[i].name])
        /\ \A k \in Positions(s) :
             k < i + 1 /\ s[k].name = t[i].name => Differs(s, t[i].name, k, i + 1, s[k].obj)
    BY <2>1 DEF PoolStream, ForeignDiffers
  <2>3. Differs(t, t[i].name, 0, i, d[t[i].name])
    <3>1. CASE t[i].name = s[1].name
      <4>1. Differs(s, t[i].name, 1, i + 1, s[1].obj)
        BY <2>1, <2>2, <3>1
      <4>2. Differs(t, t[i].name, 0, i, s[1].obj)
        BY <2>1, <4>1, DiffersTailed
      <4> QED
        BY <1>1, <2>1, <3>1, <4>2
    <3>2. CASE t[i].name # s[1].name
      <4>1. Differs(t, t[i].name, 0, i, c[t[i].name])
        BY <2>1, <2>2, <3>2, DiffersTailed
      <4> QED
        BY <1>1, <2>1, <3>2, <4>1
    <3> QED
      BY <3>1, <3>2
  <2>4. ASSUME NEW k \in Positions(t), k < i, t[k].name = t[i].name
        PROVE  Differs(t, t[i].name, k, i, t[k].obj)
    <3>1. k + 1 \in Positions(s) /\ t[k] = s[k + 1] /\ k \in Nat /\ k + 1 < i + 1
      BY <1>3, <1>4, <2>4
    <3>2. Differs(s, t[i].name, k + 1, i + 1, t[k].obj)
      BY <2>2, <2>4, <3>1
    <3>3. k + 1 \in Nat /\ k + 1 > 0 /\ (k + 1) - 1 = k /\ k + 1 # 0
      BY <3>1
    <3> QED
      BY <2>1, <3>2, <3>3, DiffersTailed
  <2> QED
    BY <2>3, <2>4
<1> QED
  BY <1>2, <1>5, <1>6, <1>7, <1>8 DEF PoolStream, d

\* A different version that is delivered queues its pool.
LEMMA ComingTailed ==
  ASSUME NEW c \in [Pool -> PoolObject], NEW s, NEW t, NEW p \in Pool,
         s[1].name \in Pool, 1 \in Positions(s), Tailed(s, t), FirstFollows(s, c), Coming(s, c, p)
  PROVE  \/ Coming(t, [c EXCEPT ![s[1].name] = s[1].obj], p)
         \/ p = s[1].name /\ Enqueues(c[p], s[1].obj)
<1> DEFINE d == [c EXCEPT ![s[1].name] = s[1].obj]
<1>1. \A n \in Pool : d[n] = IF n = s[1].name THEN s[1].obj ELSE c[n]
  OBVIOUS
<1> HIDE DEF d
<1>2. Len(t) \in Nat /\ Len(s) = Len(t) + 1 /\ Differs(s, p, 0, Len(s), c[p])
  BY DEF Tailed, Coming
<1>3. CASE p # s[1].name
  BY <1>1, <1>2, <1>3, DiffersTailed DEF Coming, d
<1>4. CASE p = s[1].name /\ SameSpec(c[p], s[1].obj)
  <2>1. Differs(t, p, 0, Len(t), c[p])
    BY <1>2, <1>4, DiffersTailed
  <2>2. Differs(t, p, 0, Len(t), s[1].obj)
    BY <1>4, <2>1, SameSpecEquivalence DEF Differs
  <2> QED
    BY <1>1, <1>4, <2>2 DEF Coming, d
<1>5. CASE p = s[1].name /\ ~SameSpec(c[p], s[1].obj)
  <2>1. \A j \in Positions(s) : ~(j < 1)
    BY DEF Positions
  <2> QED
    BY <1>5, <2>1 DEF FirstFollows, Follows
<1> QED
  BY <1>3, <1>4, <1>5

LEMMA ComingAppended ==
  ASSUME NEW x \in [Pool -> PoolObject], NEW c, NEW s, NEW u, NEW e, NEW p \in Pool,
         Appended(s, u, e), SeenOrComing(s, c, x),
         Coming(s, c, p) \/ (e.name = p /\ ~SameSpec(x[p], e.obj))
  PROVE  Coming(u, c, p)
<1>1. Len(s) \in Nat /\ Len(u) = Len(s) + 1 /\ Len(u) \in Positions(u) /\ u[Len(u)] = e /\ 0 < Len(u)
      /\ Len(u) <= Len(u) /\ Len(s) <= Len(u) /\ Len(u) \in Nat /\ Len(s) <= Len(s)
  BY DEF Appended, Positions
<1>2. CASE Coming(s, c, p)
  BY <1>1, <1>2, DiffersAppended DEF Coming
<1>3. CASE ~Coming(s, c, p) /\ e.name = p /\ ~SameSpec(x[p], e.obj)
  <2>1. SameSpec(c[p], x[p])
    BY <1>3 DEF SeenOrComing
  <2>2. ~SameSpec(c[p], e.obj)
    BY <1>3, <2>1, SameSpecEquivalence
  <2> QED
    BY <1>1, <1>3, <2>2 DEF Coming, Differs
<1> QED
  BY <1>2, <1>3

\* Without an own write on its way, the cache is up to date or a different
\* version is coming.
LEMMA NoOwnWrite ==
  ASSUME NEW x \in [Pool -> PoolObject], NEW c, NEW s, NEW p \in Pool, Len(s) \in Nat,
         PoolStream(s, c, x), ~Coming(s, c, p), \A i \in Positions(s) : s[i].name = p => ~s[i].own
  PROVE  c[p] = x[p]
<1>1. \A i \in Positions(s) : s[i].name # p
  <2> SUFFICES ASSUME NEW i \in Positions(s), s[i].name = p PROVE FALSE
    OBVIOUS
  <2>1. Differs(s, p, 0, i, c[p])
    BY DEF PoolStream, ForeignDiffers
  <2>2. Differs(s, p, 0, Len(s), c[p])
    BY <2>1 DEF Differs, Positions
  <2> QED
    BY <2>2 DEF Coming
<1> QED
  BY <1>1 DEF PoolStream, Shown, Synced

LEMMA StreamEmpty ==
  ASSUME NEW x
  PROVE  PoolStream(<< >>, x, x)
<1>1. Positions(<< >>) = {}
  BY DEF Positions
<1>2. SeenOrComing(<< >>, x, x)
  BY <1>1, SameSpecEquivalence DEF SeenOrComing
<1> QED
  BY <1>1, <1>2, ShownEmpty DEF PoolStream, FirstFollows, NextFollows, ForeignDiffers

-----------------------------------------------------------------------------
(***************************************************************************)
(* Part 3.  The invariant.  First what the two kinds of write do, and what *)
(* a step keeps that leaves a pool alone.                                  *)
(***************************************************************************)
LEMMA PoolWritten ==
  ASSUME TypeOK, StreamInv, NEW p \in Pool, NEW o \in PoolObject, NEW own \in BOOLEAN,
         WritePool(p, o, own), poolCache' = poolCache,
         Follows(pools[p], o), own \/ ~SameSpec(pools[p], o)
  PROVE  /\ PoolStream(poolEvents', poolCache', pools')
         /\ pools' = [pools EXCEPT ![p] = o]
         /\ \A q \in Pool : Coming(poolEvents, poolCache, q) => Coming(poolEvents', poolCache', q)
         /\ ~SameSpec(pools[p], o) => Coming(poolEvents', poolCache', p)
<1>1. pools \in [Pool -> PoolObject] /\ poolEvents \in Seq(PoolEvent)
  BY DEF TypeOK
<1>2. PoolStream(poolEvents, poolCache, pools)
  BY DEF StreamInv
<1>3. CASE o = pools[p]
  <2>1. UNCHANGED <<pools, poolEvents>>
    BY <1>3 DEF WritePool
  <2>2. [pools EXCEPT ![p] = o] = pools
    BY <1>1, <1>3
  <2>3. SameSpec(pools[p], o)
    BY <1>3, SameSpecEquivalence
  <2> QED
    BY <1>2, <2>1, <2>2, <2>3
<1>4. CASE o # pools[p]
  <2>1. PICK e \in PoolEvent : e = [name |-> p, obj |-> o, own |-> own]
    BY DEF PoolEvent
  <2>2. e.name = p /\ e.obj = o /\ e.own = own
    BY <2>1
  <2>3. poolEvents' = Append(poolEvents, e) /\ pools' = [pools EXCEPT ![p] = o]
    BY <1>4, <2>1 DEF WritePool
  <2>4. Appended(poolEvents, poolEvents', e)
    BY <1>1, <2>3, AppendIsAppended
  <2>5. \A i \in Positions(poolEvents) : poolEvents[i].name \in Pool
    BY EventTypes
  <2>6. PoolStream(poolEvents', poolCache, pools')
    BY <1>1, <1>2, <2>2, <2>3, <2>4, <2>5, StreamAppended
  <2>7. SeenOrComing(poolEvents, poolCache, pools)
    BY <1>2 DEF PoolStream
  <2>8. \A q \in Pool : Coming(poolEvents, poolCache, q) => Coming(poolEvents', poolCache, q)
    BY <1>1, <2>4, <2>7, ComingAppended
  <2>9. ~SameSpec(pools[p], o) => Coming(poolEvents', poolCache, p)
    BY <1>1, <2>2, <2>4, <2>7, ComingAppended
  <2> QED
    BY <2>3, <2>6, <2>8, <2>9
<1> QED
  BY <1>3, <1>4

LEMMA AllocWritten ==
  ASSUME TypeOK, StreamInv, NEW a \in Alloc, NEW o \in AllocObject,
         WriteAlloc(a, o), allocCache' = allocCache
  PROVE  /\ Shown(allocEvents', allocCache', allocs')
         /\ allocs' = [allocs EXCEPT ![a] = o]
         /\ allocs' = allocs \/ allocEvents' # << >>
         /\ allocEvents # << >> => allocEvents' # << >>
<1>1. allocs \in [Alloc -> AllocObject] /\ allocEvents \in Seq(AllocEvent)
  BY DEF TypeOK
<1>2. Shown(allocEvents, allocCache, allocs)
  BY DEF StreamInv
<1>3. CASE o = allocs[a]
  <2>1. UNCHANGED <<allocs, allocEvents>>
    BY <1>3 DEF WriteAlloc
  <2>2. [allocs EXCEPT ![a] = o] = allocs
    BY <1>1, <1>3
  <2> QED
    BY <1>2, <2>1, <2>2
<1>4. CASE o # allocs[a]
  <2>1. PICK e \in AllocEvent : e = [name |-> a, obj |-> o]
    BY DEF AllocEvent
  <2>2. e.name = a /\ e.obj = o
    BY <2>1
  <2>3. allocEvents' = Append(allocEvents, e) /\ allocs' = [allocs EXCEPT ![a] = o]
    BY <1>4, <2>1 DEF WriteAlloc
  <2>4. Appended(allocEvents, allocEvents', e)
    BY <1>1, <2>3, AppendIsAppended
  <2>5. \A i \in Positions(allocEvents) : allocEvents[i].name \in Alloc
    BY EventTypes
  <2>6. Shown(allocEvents', allocCache, allocs')
    BY <1>1, <1>2, <2>2, <2>3, <2>4, <2>5, ShownAppended
  <2>7. allocEvents' # << >>
    BY <1>1, <2>3
  <2> QED
    BY <2>3, <2>6, <2>7
<1> QED
  BY <1>3, <1>4

LEMMA MisplacedIs ==
  ASSUME NEW a \in Alloc
  PROVE  Misplaced(a) <=> /\ allocs[a].addr # NoIP /\ PoolName[a] \in Pool
                          /\ pools[PoolName[a]].live
                          /\ allocs[a].addr \notin pools[PoolName[a]].addrs
  BY DEF Misplaced

\* The same for the next state.
LEMMA MisplacedIsNext ==
  ASSUME NEW a \in Alloc
  PROVE  Misplaced(a)' <=> /\ allocs'[a].addr # NoIP /\ PoolName[a] \in Pool
                           /\ pools'[PoolName[a]].live
                           /\ allocs'[a].addr \notin pools'[PoolName[a]].addrs
  BY DEF Misplaced

\* Of the reconciliation in flight a step changes at most the todo list.
SameWork == /\ rec'.pc = rec.pc /\ rec'.name = rec.name
            /\ rec'.pool = rec.pool /\ rec'.list = rec.list

LEMMA StatusKept ==
  ASSUME NEW p \in Pool, StatusFor(p), Ahead(p) => Ahead(p)',
         SameSpec(pools[p], pools'[p]), pools'[p].status = pools[p].status,
         \A a \in Alloc : allocs'[a].addr = allocs[a].addr,
         SameWork \/ (~InFlight(p) /\ ~InFlight(p)')
  PROVE  StatusFor(p)'
<1>1. HeldIn(p)' = HeldIn(p) /\ pools'[p].addrs = pools[p].addrs
  BY DEF HeldIn, SameSpec
<1>2. StatusOf(p)' = StatusOf(p)
  BY <1>1 DEF StatusOf
<1>3. CASE Ahead(p)
  BY <1>3 DEF StatusFor
<1>4. CASE ~InFlight(p) /\ pools[p].status = StatusOf(p)
  <2>1. ~InFlight(p)'
    BY <1>4 DEF InFlight, SameWork
  <2> QED
    BY <1>2, <1>4, <2>1 DEF StatusFor
<1>5. CASE InFlight(p) /\ Agrees(p) /\ Counts(p)
  <2>1. SameWork
    BY <1>5
  <2>2. InFlight(p)'
    BY <1>5, <2>1 DEF InFlight, SameWork
  <2>3. Agrees(p)'
    BY <1>5, <2>1, SameSpecEquivalence DEF Agrees, SameWork
  <2>4. Counts(p)'
    BY <1>5, <2>1 DEF Counts, SameWork
  <2> QED
    BY <2>2, <2>3, <2>4 DEF StatusFor
<1> QED
  BY <1>3, <1>4, <1>5 DEF StatusFor

LEMMA MovedKept ==
  ASSUME NEW p \in Pool, NEW a \in Alloc, MovedFor(a, p), Ahead(p) => Ahead(p)',
         SameSpec(pools[p], pools'[p]),
         SameWork \/ ~InFlight(p), rec' = rec \/ rec.pc # "trigger" \/ a \in rec'.todo \/ ~InFlight(p)
  PROVE  MovedFor(a, p)'
<1>1. CASE Ahead(p)
  BY <1>1 DEF MovedFor
<1>2. CASE InFlight(p) /\ Agrees(p) /\ (rec.pc = "trigger" => a \in rec.todo)
  <2>1. InFlight(p)' /\ (rec'.pc = "trigger" => a \in rec'.todo)
    BY <1>2 DEF InFlight, SameWork
  <2>2. Agrees(p)'
    BY <1>2, SameSpecEquivalence DEF Agrees, SameWork
  <2> QED
    BY <2>1, <2>2 DEF MovedFor
<1> QED
  BY <1>1, <1>2 DEF MovedFor

\* What is misplaced after a step was so before, unless the step wrote it.
LEMMA MisplacedBefore ==
  ASSUME TypeOK, MovedInv, NEW a \in Alloc, Misplaced(a)', ~allocs'[a].marked, a \notin allocQueue',
         allocs'[a].addr = allocs[a].addr, allocs[a].marked => allocs'[a].marked,
         a \in allocQueue => a \in allocQueue',
         SameSpec(pools[PoolName[a]], pools'[PoolName[a]])
  PROVE  MovedFor(a, PoolName[a]) /\ PoolName[a] \in Pool
<1>1. Misplaced(a) /\ PoolName[a] \in Pool
  BY MisplacedIs, MisplacedIsNext DEF SameSpec
<1> QED
  BY <1>1 DEF MovedInv

\* A step that leaves the allocations, the caches and the worker alone and
\* gives one pool a version that will queue it.
LEMMA PoolEnvironmentInv ==
  ASSUME TypeOK, PoolInv, NEW p \in Pool, CreatePool(p) \/ EditPool(p) \/ DeletePool(p)
  PROVE  PoolInv'
<1>1. pools[p] \in PoolObject /\ pools[p].gen \in Nat
  BY DEF TypeOK, PoolObject
<1>2. PICK o \in PoolObject :
        WritePool(p, o, FALSE) /\ ~SameSpec(pools[p], o) /\ Enqueues(pools[p], o)
  <2>1. CASE CreatePool(p)
    <3>1. PICK addrs \in AddressSets : WritePool(p, PoolFresh(addrs), FALSE)
      BY <2>1 DEF CreatePool
    <3>2. PoolFresh(addrs).live /\ ~pools[p].live /\ PoolFresh(addrs) \in PoolObject
      BY <2>1, GoneType DEF CreatePool, PoolFresh, PoolGone
    <3> QED
      BY <3>1, <3>2 DEF SameSpec, Enqueues
  <2>2. CASE EditPool(p)
    <3>1. PICK addrs \in AddressSets :
            WritePool(p, [pools[p] EXCEPT !.addrs = addrs, !.gen = @ + 1], FALSE)
      BY <2>2 DEF EditPool
    <3>2. PICK o \in PoolObject : o = [pools[p] EXCEPT !.addrs = addrs, !.gen = @ + 1]
      BY <1>1, VersionType
    <3>3. o.gen = pools[p].gen + 1
      BY <1>1, <3>2 DEF PoolObject
    <3>4. o.gen # pools[p].gen
      BY <1>1, <3>3
    <3> QED
      BY <3>1, <3>2, <3>4 DEF SameSpec, Enqueues
  <2>3. CASE DeletePool(p) /\ pools[p].fin
    <3>1. WritePool(p, [pools[p] EXCEPT !.deleting = TRUE, !.gen = @ + 1], FALSE)
      BY <2>3 DEF DeletePool
    <3>2. PICK o \in PoolObject : o = [pools[p] EXCEPT !.deleting = TRUE, !.gen = @ + 1]
      BY <1>1, VersionType
    <3>3. o.gen = pools[p].gen + 1
      BY <1>1, <3>2 DEF PoolObject
    <3>4. o.gen # pools[p].gen
      BY <1>1, <3>3
    <3> QED
      BY <3>1, <3>2, <3>4 DEF SameSpec, Enqueues
  <2>4. CASE DeletePool(p) /\ ~pools[p].fin
    <3>1. WritePool(p, PoolGone, FALSE) /\ pools[p].live /\ ~PoolGone.live /\ PoolGone \in PoolObject
      BY <2>4, GoneType DEF DeletePool, PoolGone
    <3> QED
      BY <3>1 DEF SameSpec, Enqueues
  <2> QED
    BY <2>1, <2>2, <2>3, <2>4
<1>3. /\ allocs' = allocs /\ allocEvents' = allocEvents /\ poolCache' = poolCache
      /\ allocCache' = allocCache /\ queue' = queue /\ rec' = rec /\ allocQueue' = allocQueue
      /\ early' = early
  BY DEF CreatePool, EditPool, DeletePool, allocSide, controllers
<1>4. /\ PoolStream(poolEvents', poolCache', pools')
      /\ pools' = [pools EXCEPT ![p] = o]
      /\ \A q \in Pool : Coming(poolEvents, poolCache, q) => Coming(poolEvents', poolCache', q)
      /\ Coming(poolEvents', poolCache', p)
  BY <1>2, <1>3, PoolWritten DEF PoolInv, Follows
<1>5. StreamInv'
  BY <1>3, <1>4 DEF PoolInv, StreamInv
<1>6. \A q \in Pool : Ahead(q) => Ahead(q)'
  BY <1>3, <1>4 DEF Ahead
<1>7. Ahead(p)'
  BY <1>4 DEF Ahead
<1>8. \A q \in Pool : q # p => SameSpec(pools[q], pools'[q]) /\ pools'[q] = pools[q]
  BY <1>4, SameSpecEquivalence DEF TypeOK
<1>9. SameWork
  BY <1>3 DEF SameWork
<1>10. StatusInv'
  <2> SUFFICES ASSUME NEW q \in Pool, q \notin early', pools'[q].live PROVE StatusFor(q)'
    BY DEF StatusInv
  <2>1. CASE q = p
    BY <2>1, <1>7 DEF StatusFor
  <2>2. CASE q # p
    BY <2>2, <1>3, <1>6, <1>8, <1>9, StatusKept DEF PoolInv, StatusInv
  <2> QED
    BY <2>1, <2>2
<1>11. MovedInv'
  <2> SUFFICES ASSUME NEW a \in Alloc, Misplaced(a)', ~allocs'[a].marked, a \notin allocQueue'
               PROVE  MovedFor(a, PoolName[a])'
    BY DEF MovedInv
  <2>1. PoolName[a] \in Pool
    BY MisplacedIsNext
  <2>2. CASE PoolName[a] = p
    BY <2>2, <1>7 DEF MovedFor
  <2>3. CASE PoolName[a] # p
    <3>1. MovedFor(a, PoolName[a])
      BY <2>1, <2>3, <1>3, <1>8, MisplacedBefore DEF PoolInv
    <3> QED
      BY <2>1, <2>3, <3>1, <1>3, <1>6, <1>8, <1>9, MovedKept
  <2> QED
    BY <2>2, <2>3
<1> QED
  BY <1>5, <1>10, <1>11 DEF PoolInv

\* A step of somebody else on an allocation: every pool has an event ahead,
\* or nothing changed.
LEMMA AllocStepInv ==
  ASSUME TypeOK, PoolInv, NEW a \in Alloc, NEW o \in AllocObject, WriteAlloc(a, o),
         o.live \/ o.addr = NoIP,
         UNCHANGED <<poolSide, poolCache, allocCache, queue, rec, early>>,
         \A b \in allocQueue \ allocQueue' :
           b = a /\ \A p \in Pool : PoolName[a] = p /\ pools[p].live /\ o.addr # NoIP
                                       => o.addr \in pools[p].addrs
  PROVE  PoolInv'
<1>1. /\ Shown(allocEvents', allocCache', allocs')
      /\ allocs' = [allocs EXCEPT ![a] = o]
      /\ allocs' = allocs \/ allocEvents' # << >>
      /\ allocEvents # << >> => allocEvents' # << >>
  BY AllocWritten DEF PoolInv
<1>2. /\ pools' = pools /\ poolEvents' = poolEvents /\ poolCache' = poolCache
      /\ allocCache' = allocCache /\ queue' = queue /\ rec' = rec /\ early' = early
  BY DEF poolSide
<1>3. allocs \in [Alloc -> AllocObject]
  BY DEF TypeOK
<1>4. StreamInv'
  BY <1>1, <1>2, <1>3 DEF PoolInv, StreamInv
<1>5. CASE allocEvents' # << >>
  <2>1. \A q \in Pool : Ahead(q)'
    BY <1>5 DEF Ahead
  <2>2. StatusInv'
    BY <2>1 DEF StatusInv, StatusFor
  <2>3. MovedInv'
    BY <2>1, MisplacedIsNext DEF MovedInv, MovedFor
  <2> QED
    BY <1>4, <2>2, <2>3 DEF PoolInv
<1>6. CASE allocEvents' = << >>
  <2>1. allocs' = allocs /\ allocEvents' = allocEvents /\ allocs[a] = o
    BY <1>1, <1>3, <1>6
  <2>2. \A q \in Pool : Ahead(q) => Ahead(q)'
    BY <1>2, <2>1 DEF Ahead
  <2>3. SameWork /\ \A q \in Pool : SameSpec(pools[q], pools'[q])
    BY <1>2, SameSpecEquivalence DEF SameWork
  <2>4. StatusInv'
    BY <1>2, <2>1, <2>2, <2>3, StatusKept DEF PoolInv, StatusInv
  <2>5. MovedInv'
    <3> SUFFICES ASSUME NEW b \in Alloc, Misplaced(b)', ~allocs'[b].marked, b \notin allocQueue'
                 PROVE  MovedFor(b, PoolName[b])'
      BY DEF MovedInv
    <3>1. b \notin allocQueue
      BY <1>2, <2>1, MisplacedIsNext
    <3>2. SameSpec(pools[PoolName[b]], pools'[PoolName[b]])
      BY <1>2, SameSpecEquivalence
    <3>3. MovedFor(b, PoolName[b]) /\ PoolName[b] \in Pool
      BY <2>1, <3>1, <3>2, MisplacedBefore DEF PoolInv
    <3> QED
      BY <1>2, <2>2, <2>3, <3>3, MovedKept
  <2> QED
    BY <1>4, <2>4, <2>5 DEF PoolInv
<1> QED
  BY <1>5, <1>6

LEMMA AllocEnvironmentInv ==
  ASSUME TypeOK, PoolInv, NEW a \in Alloc, CreateAlloc(a) \/ DeleteAlloc(a)
  PROVE  PoolInv'
<1>1. PICK o \in AllocObject : WriteAlloc(a, o) /\ (o.live \/ o.addr = NoIP)
  <2>1. AllocFresh.live /\ AllocGone.addr = NoIP
    BY DEF AllocFresh, AllocGone
  <2> QED
    BY <2>1, GoneType DEF CreateAlloc, DeleteAlloc
<1>2. UNCHANGED <<poolSide, poolCache, allocCache, queue, rec, early>> /\ allocQueue' = allocQueue
  BY DEF CreateAlloc, DeleteAlloc, controllers
<1>3. allocQueue \ allocQueue' = {}
  BY <1>2
<1> QED
  BY <1>1, <1>2, <1>3, AllocStepInv

LEMMA ReconcileAllocInv ==
  ASSUME TypeOK, PoolInv, NEW a \in Alloc, ReconcileAlloc(a)
  PROVE  PoolInv'
<1>1. UNCHANGED <<poolSide, poolCache, allocCache, queue, rec, early>>
  BY DEF ReconcileAlloc
<1>2. allocs[a] \in AllocObject /\ (allocs[a].live \/ allocs[a].addr = NoIP)
  BY DEF TypeOK, PoolInv, StreamInv
<1>3. CASE ~allocs[a].live
  <2>1. WriteAlloc(a, allocs[a]) /\ allocQueue' = allocQueue \ {a}
    BY <1>3 DEF ReconcileAlloc, WriteAlloc, allocSide
  <2> QED
    BY <1>1, <1>2, <1>3, <2>1, AllocStepInv
<1>4. CASE allocs[a].live /\ Usable(a) = {}
  <2>1. PICK o \in AllocObject : o = [allocs[a] EXCEPT !.phase = "Failed", !.addr = NoIP]
    BY <1>2 DEF AllocObject
  <2>2. WriteAlloc(a, o) /\ allocQueue' = allocQueue /\ o.addr = NoIP
    BY <1>2, <1>4, <2>1 DEF ReconcileAlloc, AllocObject
  <2>3. allocQueue \ allocQueue' = {}
    BY <2>2
  <2> QED
    BY <1>1, <2>2, <2>3, AllocStepInv
<1>5. CASE allocs[a].live /\ Usable(a) # {}
  <2>1. PICK ip \in Usable(a) :
          /\ WriteAlloc(a, [allocs[a] EXCEPT !.phase = "Allocated", !.addr = ip])
          /\ allocQueue' = allocQueue \ {a}
    BY <1>5 DEF ReconcileAlloc
  <2>2. ip \in IP /\ \E p \in Pool : pools[p].live /\ ip \in pools[p].addrs /\ PoolName[a] \in {NoName, p}
    BY DEF Usable
  <2>3. PICK o \in AllocObject : o = [allocs[a] EXCEPT !.phase = "Allocated", !.addr = ip]
    BY <1>2, <2>2 DEF AllocObject
  <2>4. o.addr = ip /\ o.live
    BY <1>2, <1>5, <2>3 DEF AllocObject
  <2>5. \A p \in Pool : PoolName[a] = p => o.addr \in pools[p].addrs
    BY <2>2, <2>4, PoolNameAssumption
  <2>6. \A b \in allocQueue \ allocQueue' : b = a
    BY <2>1
  <2> QED
    BY <1>1, <2>1, <2>3, <2>4, <2>5, <2>6, AllocStepInv
<1> QED
  BY <1>3, <1>4, <1>5

LEMMA DeliverPoolInv ==
  ASSUME TypeOK, PoolInv, DeliverPool
  PROVE  PoolInv'
<1>1. /\ poolEvents \in Seq(PoolEvent) /\ poolEvents # << >>
      /\ pools \in [Pool -> PoolObject] /\ poolCache \in [Pool -> PoolObject]
  BY DEF TypeOK, DeliverPool
<1>2. /\ Tailed(poolEvents, Tail(poolEvents)) /\ Head(poolEvents) = poolEvents[1]
      /\ 1 \in Positions(poolEvents)
  BY <1>1, TailIsTailed
<1>3. \A i \in Positions(poolEvents) : poolEvents[i].name \in Pool
  BY EventTypes
<1>4. PICK e : e = poolEvents[1]
  OBVIOUS
<1>5. /\ poolCache' = [poolCache EXCEPT ![e.name] = e.obj]
      /\ queue' = IF Enqueues(poolCache[e.name], e.obj) THEN queue \cup {e.name} ELSE queue
      /\ poolEvents' = Tail(poolEvents)
      /\ pools' = pools /\ allocs' = allocs /\ allocEvents' = allocEvents
      /\ allocCache' = allocCache /\ rec' = rec /\ allocQueue' = allocQueue /\ early' = early
  BY <1>2, <1>4 DEF DeliverPool, allocSide
<1>6. PoolStream(poolEvents, poolCache, pools) /\ FirstFollows(poolEvents, poolCache)
  BY DEF PoolInv, StreamInv, PoolStream
<1>7. PoolStream(poolEvents', poolCache', pools')
  BY <1>1, <1>2, <1>3, <1>4, <1>5, <1>6, StreamTailed
<1>8. StreamInv'
  BY <1>5, <1>7 DEF PoolInv, StreamInv
<1>9. ASSUME NEW q \in Pool, Ahead(q) PROVE Ahead(q)'
  <2>1. CASE q \in queue \/ allocEvents # << >>
    BY <1>5, <2>1 DEF Ahead
  <2>2. CASE Coming(poolEvents, poolCache, q)
    <3>1. Coming(poolEvents', poolCache', q) \/ (q = e.name /\ Enqueues(poolCache[q], e.obj))
      BY <1>1, <1>2, <1>3, <1>4, <1>5, <1>6, <2>2, ComingTailed
    <3> QED
      BY <1>5, <3>1 DEF Ahead
  <2> QED
    BY <1>9, <2>1, <2>2 DEF Ahead
<1>10. SameWork /\ \A q \in Pool : SameSpec(pools[q], pools'[q])
  BY <1>5, SameSpecEquivalence DEF SameWork
<1>11. StatusInv'
  BY <1>5, <1>9, <1>10, StatusKept DEF PoolInv, StatusInv
<1>12. MovedInv'
  <2> SUFFICES ASSUME NEW b \in Alloc, Misplaced(b)', ~allocs'[b].marked, b \notin allocQueue'
               PROVE  MovedFor(b, PoolName[b])'
    BY DEF MovedInv
  <2>1. SameSpec(pools[PoolName[b]], pools'[PoolName[b]])
    BY <1>5, SameSpecEquivalence
  <2>2. MovedFor(b, PoolName[b]) /\ PoolName[b] \in Pool
    BY <1>5, <2>1, MisplacedBefore DEF PoolInv
  <2> QED
    BY <1>5, <1>9, <1>10, <2>2, MovedKept
<1> QED
  BY <1>8, <1>11, <1>12 DEF PoolInv

LEMMA DeliverAllocInv ==
  ASSUME TypeOK, PoolInv, DeliverAlloc
  PROVE  PoolInv'
<1>1. /\ allocEvents \in Seq(AllocEvent) /\ allocEvents # << >>
      /\ allocs \in [Alloc -> AllocObject] /\ allocCache \in [Alloc -> AllocObject]
  BY DEF TypeOK, DeliverAlloc
<1>2. /\ Tailed(allocEvents, Tail(allocEvents)) /\ Head(allocEvents) = allocEvents[1]
      /\ 1 \in Positions(allocEvents)
  BY <1>1, TailIsTailed
<1>3. allocEvents[1].name \in Alloc
  BY <1>2, EventTypes
<1>4. PICK e : e = allocEvents[1]
  OBVIOUS
<1>5. /\ allocCache' = [allocCache EXCEPT ![e.name] = e.obj]
      /\ queue' = queue \cup {p \in Pool : poolCache[p].live}
      /\ allocEvents' = Tail(allocEvents)
      /\ pools' = pools /\ poolEvents' = poolEvents /\ allocs' = allocs
      /\ poolCache' = poolCache
  BY <1>2, <1>4 DEF DeliverAlloc, poolSide
<1>6. Shown(allocEvents', allocCache', allocs')
  BY <1>1, <1>2, <1>3, <1>4, <1>5, ShownTailed DEF PoolInv, StreamInv
<1>7. StreamInv'
  BY <1>5, <1>6 DEF PoolInv, StreamInv
<1>8. ASSUME NEW q \in Pool, pools[q].live PROVE Ahead(q)'
  <2>1. Coming(poolEvents, poolCache, q) \/ SameSpec(poolCache[q], pools[q])
    BY DEF PoolInv, StreamInv, PoolStream, SeenOrComing
  <2>2. Coming(poolEvents, poolCache, q) \/ poolCache[q].live
    BY <1>8, <2>1 DEF SameSpec
  <2> QED
    BY <1>5, <2>2 DEF Ahead
<1>9. StatusInv'
  BY <1>5, <1>8 DEF StatusInv, StatusFor
<1>10. MovedInv'
  BY <1>5, <1>8, MisplacedIsNext DEF MovedInv, MovedFor
<1> QED
  BY <1>7, <1>9, <1>10 DEF PoolInv

LEMMA CrashInv ==
  ASSUME TypeOK, PoolInv, Crash
  PROVE  PoolInv'
<1>1. StreamInv'
  BY StreamEmpty, ShownEmpty DEF Crash, PoolInv, StreamInv
<1>2. \A q \in Pool : pools'[q].live => Ahead(q)'
  BY DEF Crash, Ahead
<1>3. StatusInv'
  BY <1>2 DEF StatusInv, StatusFor
<1>4. MovedInv'
  BY <1>2, MisplacedIsNext DEF MovedInv, MovedFor
<1> QED
  BY <1>1, <1>3, <1>4 DEF PoolInv

\* The reconciliation starts from the stored specification, or another one
\* follows; unless it starts early, also from the stored status.
LEMMA StartInv ==
  ASSUME TypeOK, PoolInv, NEW p \in Pool, Start(p)
  PROVE  PoolInv'
<1>1. /\ pools' = pools /\ poolEvents' = poolEvents /\ allocs' = allocs /\ allocEvents' = allocEvents
      /\ poolCache' = poolCache /\ allocCache' = allocCache /\ allocQueue' = allocQueue
      /\ queue' = queue \ {p} /\ rec.pc = "idle"
      /\ \A q \in Pool : q # p => (q \in early' <=> q \in early)
      /\ p \notin early' => ~OwnWriteInFlight(p)
  BY DEF Start, poolSide, allocSide
<1>2. StreamInv'
  BY <1>1 DEF PoolInv, StreamInv
<1>3. \A q \in Pool : ~InFlight(q) /\ (q # p => ~InFlight(q)')
  BY <1>1 DEF InFlight, Start, Idle
<1>4. \A q \in Pool : q # p => (Ahead(q) => Ahead(q)')
  BY <1>1 DEF Ahead
<1>5. \A q \in Pool : SameSpec(pools[q], pools'[q])
  BY <1>1, SameSpecEquivalence
<1>6. CASE Ahead(p)' \/ ~pools[p].live
  <2>1. StatusInv'
    <3> SUFFICES ASSUME NEW q \in Pool, q \notin early', pools'[q].live PROVE StatusFor(q)'
      BY DEF StatusInv
    <3>1. CASE q = p
      BY <1>1, <1>6, <3>1 DEF StatusFor
    <3>2. CASE q # p
      BY <1>1, <1>3, <1>4, <1>5, <3>2, StatusKept DEF PoolInv, StatusInv
    <3> QED
      BY <3>1, <3>2
  <2>2. MovedInv'
    <3> SUFFICES ASSUME NEW b \in Alloc, Misplaced(b)', ~allocs'[b].marked, b \notin allocQueue'
                 PROVE  MovedFor(b, PoolName[b])'
      BY DEF MovedInv
    <3>1. PoolName[b] \in Pool /\ pools[PoolName[b]].live
      BY <1>1, MisplacedIsNext
    <3>2. MovedFor(b, PoolName[b])
      BY <1>1, <1>5, <3>1, MisplacedBefore DEF PoolInv
    <3>3. CASE PoolName[b] = p
      BY <1>6, <3>1, <3>3 DEF MovedFor
    <3>4. CASE PoolName[b] # p
      BY <1>3, <1>4, <1>5, <3>1, <3>2, <3>4, MovedKept
    <3> QED
      BY <3>3, <3>4
  <2> QED
    BY <1>2, <2>1, <2>2 DEF PoolInv
<1>7. CASE ~Ahead(p)' /\ pools[p].live
  <2>1. ~Coming(poolEvents, poolCache, p)
    BY <1>1, <1>7 DEF Ahead
  <2>2. SameSpec(poolCache[p], pools[p])
    BY <2>1 DEF PoolInv, StreamInv, PoolStream, SeenOrComing
  <2>3. poolCache[p].live
    BY <1>7, <2>2 DEF SameSpec
  <2>4. /\ rec'.pc \in {"list", "finalize"} /\ rec'.name = p /\ rec'.pool = poolCache[p]
    BY <2>3 DEF Start, Idle
  <2>5. InFlight(p)' /\ Agrees(p)' /\ rec'.pc # "trigger"
    BY <1>1, <2>2, <2>4 DEF InFlight, Agrees
  <2>6. StatusInv'
    <3> SUFFICES ASSUME NEW q \in Pool, q \notin early', pools'[q].live PROVE StatusFor(q)'
      BY DEF StatusInv
    <3>1. CASE q # p
      BY <1>1, <1>3, <1>4, <1>5, <3>1, StatusKept DEF PoolInv, StatusInv
    <3>2. CASE q = p
      <4>1. \A i \in Positions(poolEvents) : poolEvents[i].name = p => ~poolEvents[i].own
        BY <1>1, <3>2 DEF OwnWriteInFlight, Positions
      <4>2. poolCache[p] = pools[p]
        BY <2>1, <4>1, NoOwnWrite DEF TypeOK, PoolInv, StreamInv
      <4>3. Counts(p)'
        BY <1>1, <2>4, <4>2 DEF Counts
      <4> QED
        BY <2>5, <3>2, <4>3 DEF StatusFor
    <3> QED
      BY <3>1, <3>2
  <2>7. MovedInv'
    <3> SUFFICES ASSUME NEW b \in Alloc, Misplaced(b)', ~allocs'[b].marked, b \notin allocQueue'
                 PROVE  MovedFor(b, PoolName[b])'
      BY DEF MovedInv
    <3>1. PoolName[b] \in Pool /\ pools[PoolName[b]].live
      BY <1>1, MisplacedIsNext
    <3>2. MovedFor(b, PoolName[b])
      BY <1>1, <1>5, <3>1, MisplacedBefore DEF PoolInv
    <3>3. CASE PoolName[b] = p
      BY <2>5, <3>3 DEF MovedFor
    <3>4. CASE PoolName[b] # p
      BY <1>3, <1>4, <1>5, <3>1, <3>2, <3>4, MovedKept
    <3> QED
      BY <3>3, <3>4
  <2> QED
    BY <1>2, <2>6, <2>7 DEF PoolInv
<1> QED
  BY <1>6, <1>7

\* The worker's calls that write the pool p it reconciles, or nothing.
LEMMA WorkerWrites ==
  ASSUME TypeOK, PoolInv, NEW p \in Pool, NEW o \in PoolObject, Follows(pools[p], o),
         UNCHANGED poolSide \/ WritePool(p, o, TRUE),
         UNCHANGED <<allocSide, poolCache, allocCache>>, queue \subseteq queue'
  PROVE  /\ StreamInv'
         /\ \A q \in Pool : Ahead(q) => Ahead(q)'
         /\ \A q \in Pool : q # p => pools'[q] = pools[q]
         /\ pools'[p] = pools[p] \/ pools'[p] = o
<1>1. /\ allocs' = allocs /\ allocEvents' = allocEvents /\ poolCache' = poolCache
      /\ allocCache' = allocCache
  BY DEF allocSide
<1>2. CASE UNCHANGED poolSide
  <2>1. pools' = pools /\ poolEvents' = poolEvents
    BY <1>2 DEF poolSide
  <2>2. StreamInv'
    BY <1>1, <2>1 DEF PoolInv, StreamInv
  <2>3. \A q \in Pool : Ahead(q) => Ahead(q)'
    BY <1>1, <2>1 DEF Ahead
  <2> QED
    BY <2>1, <2>2, <2>3
<1>3. CASE WritePool(p, o, TRUE)
  <2>1. /\ PoolStream(poolEvents', poolCache', pools')
        /\ pools' = [pools EXCEPT ![p] = o]
        /\ \A q \in Pool : Coming(poolEvents, poolCache, q) => Coming(poolEvents', poolCache', q)
    BY <1>1, <1>3, PoolWritten DEF PoolInv
  <2>2. StreamInv'
    BY <1>1, <2>1 DEF PoolInv, StreamInv
  <2>3. \A q \in Pool : Ahead(q) => Ahead(q)'
    BY <1>1, <2>1 DEF Ahead
  <2>4. pools'[p] = o /\ \A q \in Pool : q # p => pools'[q] = pools[q]
    BY <2>1 DEF TypeOK
  <2> QED
    BY <2>2, <2>3, <2>4
<1> QED
  BY <1>2, <1>3

\* After a step of the worker only its own pool has to be looked at.
LEMMA WorkerStep ==
  ASSUME TypeOK, PoolInv, NEW p \in Pool, rec.pc # "idle", rec.name = p,
         rec'.pc = "idle" \/ rec'.name = p, StreamInv',
         \A q \in Pool : Ahead(q) => Ahead(q)',
         \A q \in Pool : q # p => pools'[q] = pools[q],
         \A a \in Alloc : allocs'[a].addr = allocs[a].addr,
         \A a \in Alloc : allocs[a].marked => allocs'[a].marked,
         allocQueue' = allocQueue, early' = early,
         p \notin early /\ pools'[p].live => StatusFor(p)',
         \A b \in Alloc : /\ Misplaced(b)' /\ ~allocs'[b].marked /\ b \notin allocQueue
                          /\ PoolName[b] = p
                          => MovedFor(b, p)'
  PROVE  PoolInv'
<1>1. \A q \in Pool : q # p => ~InFlight(q) /\ ~InFlight(q)' /\ SameSpec(pools[q], pools'[q])
  BY SameSpecEquivalence DEF InFlight
<1>2. StatusInv'
  <2> SUFFICES ASSUME NEW q \in Pool, q \notin early', pools'[q].live PROVE StatusFor(q)'
    BY DEF StatusInv
  <2>1. CASE q = p
    BY <2>1
  <2>2. CASE q # p
    BY <1>1, <2>2, StatusKept DEF PoolInv, StatusInv
  <2> QED
    BY <2>1, <2>2
<1>3. MovedInv'
  <2> SUFFICES ASSUME NEW b \in Alloc, Misplaced(b)', ~allocs'[b].marked, b \notin allocQueue'
               PROVE  MovedFor(b, PoolName[b])'
    BY DEF MovedInv
  <2>1. PoolName[b] \in Pool
    BY MisplacedIsNext
  <2>2. CASE PoolName[b] = p
    BY <2>2
  <2>3. CASE PoolName[b] # p
    <3>1. MovedFor(b, PoolName[b])
      BY <1>1, <2>1, <2>3, MisplacedBefore DEF PoolInv
    <3> QED
      BY <1>1, <2>1, <2>3, <3>1, MovedKept
  <2> QED
    BY <2>2, <2>3
<1> QED
  BY <1>2, <1>3 DEF PoolInv

\* After an error the pool is queued.
LEMMA FailedAhead ==
  ASSUME NEW p, rec.name = p, Return(TRUE)
  PROVE  /\ queue \subseteq queue' /\ rec'.pc = "idle" /\ Ahead(p)'
         /\ StatusFor(p)' /\ \A b : MovedFor(b, p)'
<1>1. queue' = queue \cup {p} /\ rec'.pc = "idle"
  BY IdleType DEF Return
<1>2. Ahead(p)'
  BY <1>1 DEF Ahead
<1> QED
  BY <1>1, <1>2 DEF StatusFor, MovedFor

LEMMA AddFinalizerInv ==
  ASSUME TypeOK, PoolInv, AddFinalizer
  PROVE  PoolInv'
<1>1. PICK p \in Pool : p = rec.name
  BY DEF TypeOK, AddFinalizer
<1>2. PICK o \in PoolObject : o = [pools[p] EXCEPT !.fin = TRUE]
  BY VersionType DEF TypeOK
<1>3. SameSpec(pools[p], o) /\ o.status = pools[p].status
  BY <1>2 DEF SameSpec, TypeOK, PoolObject
<1>4. /\ rec.pc = "finalize" /\ UNCHANGED <<allocSide, poolCache, allocCache, allocQueue, early>>
      /\ UNCHANGED poolSide \/ WritePool(p, o, TRUE)
  BY <1>1, <1>2 DEF AddFinalizer
<1>5. /\ \A a \in Alloc : allocs'[a].addr = allocs[a].addr
      /\ \A a \in Alloc : allocs[a].marked => allocs'[a].marked
      /\ allocQueue' = allocQueue /\ early' = early
  BY <1>4 DEF allocSide
<1>6. CASE Return(TRUE)
  <2>1. /\ queue \subseteq queue' /\ rec'.pc = "idle"
        /\ StatusFor(p)' /\ \A b : MovedFor(b, p)'
    BY <1>1, <1>6, FailedAhead
  <2>2. /\ StreamInv' /\ \A q \in Pool : Ahead(q) => Ahead(q)'
        /\ \A q \in Pool : q # p => pools'[q] = pools[q]
    BY <1>3, <1>4, <2>1, WorkerWrites DEF Follows
  <2> QED
    BY <1>1, <1>4, <1>5, <2>1, <2>2, WorkerStep
<1>7. CASE /\ WritePool(p, o, TRUE) /\ queue' = queue
           /\ rec' = [rec EXCEPT !.pc = "list", !.pool = o]
  <2>1. /\ StreamInv' /\ \A q \in Pool : Ahead(q) => Ahead(q)'
        /\ \A q \in Pool : q # p => pools'[q] = pools[q]
    BY <1>3, <1>4, <1>7, WorkerWrites DEF Follows
  <2>2. pools'[p] = o
    <3>1. pools' = [pools EXCEPT ![p] = o]
      BY <1>3, <1>4, <1>7, PoolWritten DEF PoolInv, Follows
    <3> QED
      BY <3>1 DEF TypeOK
  <2>3. rec'.pc = "list" /\ rec'.pool = o /\ rec'.name = p
    BY <1>1, <1>7 DEF TypeOK, Reconciliation
  <2>4. InFlight(p)' /\ Agrees(p)' /\ Counts(p)'
    BY <2>2, <2>3, SameSpecEquivalence DEF InFlight, Agrees, Counts
  <2>5. StatusFor(p)' /\ \A b : MovedFor(b, p)'
    BY <2>3, <2>4 DEF StatusFor, MovedFor
  <2> QED
    BY <1>1, <1>4, <1>5, <2>1, <2>3, <2>5, WorkerStep
<1> QED
  BY <1>1, <1>2, <1>6, <1>7 DEF AddFinalizer

\* The allocations are listed as they are, or an event is on its way.
LEMMA ListInv ==
  ASSUME TypeOK, PoolInv, List
  PROVE  PoolInv'
<1>1. PICK p \in Pool : p = rec.name
  BY DEF TypeOK, List
<1>2. /\ UNCHANGED <<poolSide, allocSide, poolCache, allocCache, queue, allocQueue, early>>
      /\ rec.pc = "list"
  BY DEF List
<1>3. pools' = pools /\ poolEvents' = poolEvents /\ allocs' = allocs /\ allocEvents' = allocEvents
  BY <1>2 DEF poolSide, allocSide
<1>4. /\ rec'.pc = "trigger" /\ rec'.name = p /\ rec'.pool = rec.pool /\ rec'.list = allocCache
      /\ rec'.todo = {a \in Alloc : /\ allocCache[a].live /\ ~allocCache[a].marked
                                    /\ NeedsUpdate(a, allocCache[a])}
  BY <1>1 DEF List, TypeOK, Reconciliation
<1>5. StreamInv' /\ \A q \in Pool : Ahead(q) => Ahead(q)'
  BY <1>2, <1>3 DEF PoolInv, StreamInv, Ahead
<1>6. allocEvents = << >> => \A a \in Alloc : allocCache[a] = allocs[a]
  <2>1. DOMAIN allocs = Alloc
    BY DEF TypeOK
  <2>2. allocEvents = << >> => Positions(allocEvents) = {}
    BY DEF Positions
  <2> QED
    BY <2>1, <2>2 DEF PoolInv, StreamInv, Shown, Synced
<1>7. InFlight(p)' /\ InFlight(p)
  BY <1>1, <1>2, <1>4 DEF InFlight
<1>8. Agrees(p) => Agrees(p)'
  BY <1>2, <1>3, <1>4 DEF Agrees
<1>9. ASSUME StatusFor(p) PROVE StatusFor(p)'
  <2>1. CASE Ahead(p)
    BY <1>5, <2>1 DEF StatusFor
  <2>2. CASE ~Ahead(p)
    <3>1. allocEvents = << >> /\ Agrees(p) /\ Counts(p)
      BY <1>7, <1>9, <2>2 DEF StatusFor, Ahead
    <3>2. Counts(p)'
      BY <1>2, <1>3, <1>4, <1>6, <3>1 DEF Counts
    <3> QED
      BY <1>7, <1>8, <3>1, <3>2 DEF StatusFor
  <2> QED
    BY <2>1, <2>2
<1>10. ASSUME NEW b \in Alloc, Misplaced(b)', ~allocs'[b].marked, b \notin allocQueue, PoolName[b] = p
       PROVE  MovedFor(b, p)'
  <2>1. MovedFor(b, p)
    BY <1>2, <1>3, <1>10, SameSpecEquivalence, MisplacedBefore DEF PoolInv
  <2>2. CASE Ahead(p)
    BY <1>5, <2>2 DEF MovedFor
  <2>3. CASE ~Ahead(p)
    <3>1. allocEvents = << >> /\ Agrees(p)
      BY <2>1, <2>3 DEF MovedFor, Ahead
    <3>2. /\ allocs[b].addr # NoIP /\ pools[p].live /\ allocs[b].addr \notin pools[p].addrs
          /\ ~allocs[b].marked /\ allocCache[b] = allocs[b]
      BY <1>3, <1>6, <1>10, <3>1, MisplacedIsNext
    <3>3. allocs[b].live /\ rec.pool.addrs = pools[p].addrs
      BY <1>2, <3>1, <3>2 DEF PoolInv, StreamInv, Agrees, SameSpec
    <3>4. NeedsUpdate(b, allocCache[b])
      BY <1>1, <1>10, <3>2, <3>3 DEF NeedsUpdate, MatchedAddress
    <3>5. b \in rec'.todo
      BY <1>4, <3>2, <3>3, <3>4
    <3> QED
      BY <1>7, <1>8, <3>1, <3>5 DEF MovedFor
  <2> QED
    BY <2>2, <2>3
<1>11. p \notin early /\ pools'[p].live => StatusFor(p)'
  BY <1>3, <1>9 DEF PoolInv, StatusInv
<1> QED
  BY <1>1, <1>2, <1>3, <1>4, <1>5, <1>10, <1>11, WorkerStep

\* A mark goes to the stored object and leaves its address alone.
LEMMA TriggerInv ==
  ASSUME TypeOK, PoolInv, Trigger
  PROVE  PoolInv'
<1>1. PICK p \in Pool : p = rec.name
  BY DEF TypeOK, Trigger
<1>2. PICK a \in rec.todo :
        LET marked == [allocs[a] EXCEPT !.marked = TRUE] IN
        \/ /\ allocs[a].live
           /\ WriteAlloc(a, marked)
           /\ rec' = [rec EXCEPT !.todo = @ \ {a}]
           /\ UNCHANGED <<queue, faults>>
        \/ /\ Return(TRUE) /\ UNCHANGED <<allocSide, faults>>
        \/ /\ Fault /\ Return(TRUE)
           /\ UNCHANGED allocSide \/ (allocs[a].live /\ WriteAlloc(a, marked))
  BY DEF Trigger
<1>3. a \in Alloc /\ allocs[a] \in AllocObject /\ allocs \in [Alloc -> AllocObject]
  BY DEF TypeOK, Reconciliation
<1>4. PICK o \in AllocObject : o = [allocs[a] EXCEPT !.marked = TRUE]
  BY <1>3 DEF AllocObject
<1>5. o.addr = allocs[a].addr /\ o.live = allocs[a].live /\ o.marked
  BY <1>3, <1>4 DEF AllocObject
<1>6. /\ UNCHANGED <<poolSide, poolCache, allocCache, allocQueue, early>> /\ rec.pc = "trigger"
      /\ UNCHANGED allocSide \/ WriteAlloc(a, o)
  BY <1>2, <1>4 DEF Trigger
<1>7. pools' = pools /\ poolEvents' = poolEvents /\ poolCache' = poolCache
  BY <1>6 DEF poolSide
<1>8. /\ Shown(allocEvents', allocCache', allocs')
      /\ allocs' = allocs \/ allocs' = [allocs EXCEPT ![a] = o]
      /\ allocEvents # << >> => allocEvents' # << >>
      /\ allocs' = allocs \/ allocEvents' # << >>
  <2>1. CASE UNCHANGED allocSide
    BY <1>6, <2>1 DEF allocSide, PoolInv, StreamInv
  <2>2. CASE WriteAlloc(a, o)
    BY <1>3, <1>6, <2>2, AllocWritten DEF PoolInv
  <2> QED
    BY <1>6, <2>1, <2>2
<1>9. /\ \A b \in Alloc : allocs'[b].addr = allocs[b].addr
      /\ \A b \in Alloc : allocs[b].marked => allocs'[b].marked
      /\ \A b \in Alloc : allocs'[b].live = allocs[b].live
  BY <1>3, <1>5, <1>8
<1>10. StreamInv'
  BY <1>7, <1>8, <1>9 DEF PoolInv, StreamInv
<1>11. CASE Return(TRUE)
  <2>1. /\ queue \subseteq queue' /\ rec'.pc = "idle"
        /\ StatusFor(p)' /\ \A b : MovedFor(b, p)'
    BY <1>1, <1>11, FailedAhead
  <2>2. \A q \in Pool : Ahead(q) => Ahead(q)'
    BY <1>7, <1>8, <2>1 DEF Ahead
  <2> QED
    BY <1>1, <1>6, <1>7, <1>9, <1>10, <2>1, <2>2, WorkerStep
<1>12. CASE WriteAlloc(a, o) /\ rec' = [rec EXCEPT !.todo = @ \ {a}] /\ queue' = queue
  <2>1. \A q \in Pool : Ahead(q) => Ahead(q)'
    BY <1>7, <1>8, <1>12 DEF Ahead
  <2>2. SameWork /\ rec'.todo = rec.todo \ {a} /\ rec'.name = p
    BY <1>1, <1>12 DEF SameWork, TypeOK, Reconciliation
  <2>3. SameSpec(pools[p], pools'[p])
    BY <1>7, SameSpecEquivalence
  <2>4. p \notin early /\ pools'[p].live => StatusFor(p)'
    BY <1>7, <1>9, <2>1, <2>2, <2>3, StatusKept DEF PoolInv, StatusInv
  <2>5. ASSUME NEW b \in Alloc, Misplaced(b)', ~allocs'[b].marked, b \notin allocQueue, PoolName[b] = p
        PROVE  MovedFor(b, p)'
    <3>1. MovedFor(b, p)
      BY <1>6, <1>9, <2>3, <2>5, MisplacedBefore DEF PoolInv
    <3>2. b # a
      BY <1>3, <1>5, <1>12, <2>5, AllocWritten, <1>6 DEF PoolInv
    <3>3. CASE Ahead(p)
      BY <2>1, <3>3 DEF MovedFor
    <3>4. CASE ~Ahead(p)
      <4>1. b \in rec'.todo
        BY <1>6, <2>2, <3>1, <3>2, <3>4 DEF MovedFor
      <4> QED
        BY <2>1, <2>2, <2>3, <3>1, <4>1, MovedKept
    <3> QED
      BY <3>3, <3>4
  <2> QED
    BY <1>1, <1>6, <1>7, <1>9, <1>10, <2>1, <2>2, <2>4, <2>5, WorkerStep
<1> QED
  BY <1>2, <1>4, <1>11, <1>12

\* The counters come out right when the data they are computed from is.
LEMMA CountsAreRight ==
  ASSUME TypeOK, NEW p \in Pool, rec.pool.addrs = pools[p].addrs,
         \A a \in Alloc : rec.list[a].addr = allocs[a].addr
  PROVE  NewStatus = StatusOf(p)
<1>1. pools[p].addrs \subseteq IP /\ 0 \notin pools[p].addrs
  BY IPPoolAssumption DEF TypeOK, PoolObject
<1>2. ListedAddresses = HeldIn(p)
  BY <1>1 DEF ListedAddresses, HeldIn, MatchedAddress
<1>3. /\ HeldIn(p) \subseteq pools[p].addrs
      /\ IsFiniteSet(pools[p].addrs) /\ IsFiniteSet(HeldIn(p))
  BY <1>2, ListedType
<1>4. Cardinality(pools[p].addrs \ HeldIn(p))
        = Cardinality(pools[p].addrs) - Cardinality(HeldIn(p))
  <2>1. pools[p].addrs \cap HeldIn(p) = HeldIn(p)
    BY <1>3
  <2> QED
    BY <1>3, <2>1, FS_Difference
<1> QED
  BY <1>2, <1>4 DEF NewStatus, StatusOf

\* A patch against the stored status makes it the new one.
LEMMA PatchIsNew ==
  ASSUME NEW old \in Status, NEW new \in Status
  PROVE  MergePatch(old, old, new) = new
<1>1. DOMAIN old = {"total", "allocated", "free"} /\ DOMAIN new = {"total", "allocated", "free"}
  BY DEF Status
<1>2. \A f \in {"total", "allocated", "free"} : MergePatch(old, old, new)[f] = new[f]
  BY <1>1 DEF MergePatch
<1>3. MergePatch(old, old, new) \in Status
  BY MergePatchType
<1> QED
  BY <1>2, <1>3 DEF Status

LEMMA FinishInv ==
  ASSUME TypeOK, PoolInv, Finish
  PROVE  PoolInv'
<1>1. PICK p \in Pool : p = rec.name
  BY DEF TypeOK, Finish
<1>2. pools[p] \in PoolObject /\ pools \in [Pool -> PoolObject]
  BY DEF TypeOK
<1>3. PICK o \in PoolObject : o = Finished(pools[p])
  BY <1>2, FinishedType
<1>4. Follows(pools[p], o)
  <2>1. CASE rec.pool.deleting /\ pools[p].deleting
    <3>1. o = PoolGone /\ ~PoolGone.live
      BY <1>3, <2>1 DEF Finished, PoolGone
    <3> QED
      BY <3>1 DEF Follows, Enqueues
  <2>2. CASE ~(rec.pool.deleting /\ pools[p].deleting)
    <3>1. /\ o.live = pools[p].live /\ o.deleting = pools[p].deleting
          /\ o.addrs = pools[p].addrs /\ o.gen = pools[p].gen
      BY <1>2, <1>3, <2>2 DEF Finished, PoolObject
    <3> QED
      BY <3>1 DEF Follows, SameSpec
  <2> QED
    BY <2>1, <2>2
<1>5. /\ rec.pc = "trigger" /\ rec.todo = {}
      /\ UNCHANGED <<allocSide, poolCache, allocCache, allocQueue, early>>
      /\ UNCHANGED poolSide \/ WritePool(p, o, TRUE)
      /\ Return(TRUE) \/ (Return(FALSE) /\ WritePool(p, o, TRUE))
  BY <1>1, <1>3 DEF Finish
<1>6. allocs' = allocs /\ allocQueue' = allocQueue /\ early' = early
  BY <1>5 DEF allocSide
<1>7. CASE Return(TRUE)
  <2>1. /\ queue \subseteq queue' /\ rec'.pc = "idle"
        /\ StatusFor(p)' /\ \A b : MovedFor(b, p)'
    BY <1>1, <1>7, FailedAhead
  <2>2. /\ StreamInv' /\ \A q \in Pool : Ahead(q) => Ahead(q)'
        /\ \A q \in Pool : q # p => pools'[q] = pools[q]
    BY <1>4, <1>5, <2>1, WorkerWrites
  <2> QED
    BY <1>1, <1>5, <1>6, <2>1, <2>2, WorkerStep
<1>8. CASE Return(FALSE) /\ WritePool(p, o, TRUE)
  <2>1. queue' = queue /\ rec'.pc = "idle"
    BY <1>8, IdleType DEF Return
  <2>2. /\ StreamInv' /\ \A q \in Pool : Ahead(q) => Ahead(q)'
        /\ \A q \in Pool : q # p => pools'[q] = pools[q]
    BY <1>4, <1>5, <2>1, WorkerWrites
  <2>3. pools'[p] = o
    <3>1. pools' = [pools EXCEPT ![p] = o]
      BY <1>4, <1>5, <1>8, PoolWritten DEF PoolInv
    <3> QED
      BY <1>2, <3>1
  <2>4. InFlight(p) /\ ~InFlight(p)'
    BY <1>1, <1>5, <2>1 DEF InFlight
  <2>5. ASSUME p \notin early, pools'[p].live PROVE StatusFor(p)'
    <3>1. pools[p].live
      BY <1>2, <1>3, <2>3, <2>5 DEF Finished, PoolObject, PoolGone
    <3>2. CASE Ahead(p)
      BY <2>2, <3>2 DEF StatusFor
    <3>3. CASE ~Ahead(p)
      <4>1. Agrees(p) /\ Counts(p)
        BY <2>4, <2>5, <3>1, <3>3 DEF PoolInv, StatusInv, StatusFor
      <4>2. /\ SameSpec(rec.pool, pools[p]) /\ rec.pool.status = pools[p].status
            /\ \A a \in Alloc : rec.list[a].addr = allocs[a].addr
        BY <1>5, <4>1 DEF Agrees, Counts
      <4>3. ~rec.pool.deleting
        BY <1>3, <2>3, <2>5, <4>2 DEF Finished, PoolGone, SameSpec
      <4>4. NewStatus = StatusOf(p)
        BY <4>2, CountsAreRight DEF SameSpec
      <4>5. MergePatch(pools[p].status, rec.pool.status, NewStatus) = NewStatus
        BY <1>2, <4>2, NewStatusType, PatchIsNew DEF PoolObject
      <4>6. o.status = NewStatus /\ o.addrs = pools[p].addrs
        BY <1>2, <1>3, <4>3, <4>5 DEF Finished, PoolObject
      <4>7. HeldIn(p)' = HeldIn(p)
        BY <1>6, <2>3, <4>6 DEF HeldIn
      <4>8. StatusOf(p)' = StatusOf(p)
        BY <2>3, <4>6, <4>7 DEF StatusOf
      <4> QED
        BY <2>3, <2>4, <4>4, <4>6, <4>8 DEF StatusFor
    <3> QED
      BY <3>2, <3>3
  <2>6. ASSUME NEW b \in Alloc, Misplaced(b)', ~allocs'[b].marked, b \notin allocQueue, PoolName[b] = p
        PROVE  MovedFor(b, p)'
    <3>1. pools'[p].live /\ allocs[b].addr # NoIP /\ allocs[b].addr \notin pools'[p].addrs
      BY <1>6, <2>6, MisplacedIsNext
    <3>2. pools[p].live /\ pools[p].addrs = o.addrs
      BY <1>2, <1>3, <2>3, <3>1 DEF Finished, PoolObject, PoolGone
    <3>3. Misplaced(b)
      BY <2>3, <2>6, <3>1, <3>2, MisplacedIs
    <3>4. MovedFor(b, p)
      BY <1>6, <2>6, <3>3 DEF PoolInv, MovedInv
    <3>5. Ahead(p)
      BY <1>5, <3>4 DEF MovedFor
    <3> QED
      BY <2>2, <3>5 DEF MovedFor
  <2> QED
    BY <1>1, <1>5, <1>6, <2>1, <2>2, <2>5, <2>6, WorkerStep
<1> QED
  BY <1>5, <1>7, <1>8

LEMMA InvStep == TypeOK /\ PoolInv /\ [Next]_vars => PoolInv'
<1> SUFFICES ASSUME TypeOK, PoolInv, [Next]_vars PROVE PoolInv'
  OBVIOUS
<1>1. CASE UNCHANGED vars
  BY <1>1 DEF vars, PoolInv, StreamInv, StatusInv, MovedInv, StatusFor, StatusOf, HeldIn, Ahead,
              InFlight, Agrees, Counts, MovedFor, Misplaced
<1>2. CASE Worker
  BY <1>2, AddFinalizerInv, ListInv, TriggerInv, FinishInv DEF Worker
<1> QED
  BY <1>1, <1>2, PoolEnvironmentInv, AllocEnvironmentInv, StartInv, ReconcileAllocInv,
     DeliverPoolInv, DeliverAllocInv, CrashInv DEF Next

LEMMA InvInit == Init => PoolInv
<1> SUFFICES ASSUME Init PROVE PoolInv
  OBVIOUS
<1>1. StreamInv
  <2>1. \A a \in Alloc : allocs[a].addr = NoIP
    BY DEF Init, AllocGone
  <2> QED
    BY <2>1, StreamEmpty, ShownEmpty DEF Init, StreamInv
<1>2. StatusInv
  BY DEF Init, PoolGone, StatusInv
<1>3. MovedInv
  BY MisplacedIs DEF Init, AllocGone, MovedInv
<1> QED
  BY <1>1, <1>2, <1>3 DEF PoolInv

(***************************************************************************)
(* The inductive invariant of the pool controller: the caches and the      *)
(* streams lead to what is stored, every change of a specification queues  *)
(* its pool although GenerationChangedPredicate drops events, and what     *)
(* Reconcile has read is still true or will be read again.                 *)
(***************************************************************************)
THEOREM PoolControllerInvariant == Spec => []PoolInv
  BY PoolTypeCorrect, InvInit, InvStep, PTL DEF Spec

(***************************************************************************)
(* When Reconcile of ip_pool_reconciler.go has nothing left to do, the     *)
(* status of every pool counts its addresses and those in use, for any     *)
(* pools, allocations, edits, failing calls and crashes, and however stale *)
(* the caches; except of a pool whose latest reconciliation has started    *)
(* before the cache showed the controller's own last write to it.          *)
(***************************************************************************)
THEOREM StatusCurrent == Spec => []StatusIsCurrent
<1>1. PoolInv => StatusIsCurrent
  <2> SUFFICES ASSUME PoolInv, Quiet, NEW p \in Pool, p \notin early, pools[p].live
               PROVE  pools[p].status = StatusOf(p)
    BY DEF StatusIsCurrent, StatusOf
  <2>1. ~InFlight(p) /\ ~Ahead(p)
    <3>1. Positions(poolEvents) = {}
      BY DEF Quiet, Positions
    <3> QED
      BY <3>1 DEF Quiet, InFlight, Ahead, Coming, Differs
  <2> QED
    BY <2>1 DEF PoolInv, StatusInv, StatusFor
<1> QED
  BY <1>1, PoolControllerInvariant, PTL

(***************************************************************************)
(* When both controllers have come to rest, an allocation whose address is *)
(* outside the pool it names has the annotation of a trigger, whatever is  *)
(* stale, fails or crashes.  It may be one of long ago, from before the    *)
(* allocation had an address: such an allocation is not moved.             *)
(***************************************************************************)
THEOREM EditedPoolMoves == Spec => []UnmarkedIsMoved
<1>1. PoolInv => UnmarkedIsMoved
  <2> SUFFICES ASSUME PoolInv, Settled, NEW a \in Alloc, Misplaced(a), ~allocs[a].marked
               PROVE  FALSE
    BY DEF UnmarkedIsMoved
  <2>1. PoolName[a] \in Pool /\ allocs[a].addr # NoIP
    BY MisplacedIs
  <2>2. a \notin allocQueue
    BY <2>1 DEF Settled
  <2>3. ~InFlight(PoolName[a]) /\ ~Ahead(PoolName[a])
    <3>1. Positions(poolEvents) = {}
      BY DEF Settled, Quiet, Positions
    <3> QED
      BY <3>1 DEF Settled, Quiet, InFlight, Ahead, Coming, Differs
  <2> QED
    BY <2>2, <2>3 DEF PoolInv, MovedInv, MovedFor
<1> QED
  BY <1>1, PoolControllerInvariant, PTL

=============================================================================
