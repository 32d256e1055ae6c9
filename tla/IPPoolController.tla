--------------------------- MODULE IPPoolController ---------------------------
(***************************************************************************)
(* The IPPool controller of internal/controller/ip_pool_reconciler.go: one *)
(* worker that keeps the counters in the status of every IPPool, holds a   *)
(* deleted pool back with a finalizer until it has told its allocations,   *)
(* and tells an allocation ("triggers" it) by giving it an annotation.     *)
(*                                                                         *)
(* Pools and allocations are read from informer caches, each fed by its    *)
(* own ordered watch stream; every call to the API server is a step.  A    *)
(* pool is reconciled when its generation changes and whenever any         *)
(* allocation changes, not when its status or its finalizer does.          *)
(*                                                                         *)
(* A pool may be reconciled before the cache shows the controller's own    *)
(* last write to it; the difference it writes is then one to an outdated   *)
(* copy.  The history variable early, which no step reads, collects the    *)
(* pools whose latest reconciliation has started like that.                *)
(*                                                                         *)
(* The allocation controller (module IPAllocationController) is reduced to *)
(* one step per reconciliation.  A pool's addresses, which                 *)
(* ParseIPPoolAddresses computes, are those of module IPPoolAddresses.     *)
(***************************************************************************)
EXTENDS Integers, Sequences, FiniteSets

CONSTANTS Pool, Alloc,
          IP,              \* the addresses, numbers
          AddressSets,     \* the contents a pool may have
          PoolName,        \* Spec.PoolName of every allocation, or NoName
          NoName,
          NoPool,          \* no pool is being reconciled
          MaxOps, MaxFaults   \* bounds of a run

ASSUME IPPoolAssumption == IP \subseteq Nat \ {0} /\ AddressSets \subseteq SUBSET IP
ASSUME IPPoolFiniteAssumption == IsFiniteSet(IP) /\ Cardinality(IP) < 1000000
ASSUME PoolNameAssumption == /\ PoolName \in [Alloc -> Pool \cup {NoName}]
                             /\ NoName \notin Pool /\ NoPool \notin Pool
ASSUME IPPoolBoundAssumption == {MaxOps, MaxFaults} \subseteq Nat

NoIP == 0

VARIABLES pools, allocs,             \* the objects in the API server
          poolCache, allocCache,     \* the informer caches
          poolEvents, allocEvents,   \* the watch streams
          queue,                     \* the pool controller's work queue
          rec,                       \* its reconciliation in flight
          allocQueue,                \* the allocation controller's work queue
          early,                     \* history: pools last read without an own write
          ops, faults                \* operations and faults so far (bounds only)

vars == <<pools, allocs, poolCache, allocCache, poolEvents, allocEvents, queue, rec,
          allocQueue, early, ops, faults>>

-----------------------------------------------------------------------------
(***************************************************************************)
(* utils.FormatCount: exact below a thousand, else a tenth of a thousand.  *)
(***************************************************************************)
FormatCount(n) == IF n < 1000 THEN [shown |-> n, unit |-> "1"]
                  ELSE [shown |-> (n + 50) \div 100, unit |-> "0.1K"]

Count == [shown : Nat, unit : {"1", "0.1K"}]
NoCount == [shown |-> 0, unit |-> "0.1K"]   \* the empty string
Status == [total : Count, allocated : Count, free : Count]
NoStatus == [total |-> NoCount, allocated |-> NoCount, free |-> NoCount]

PoolObject == [live : BOOLEAN, deleting : BOOLEAN, fin : BOOLEAN, addrs : SUBSET IP,
               gen : Nat, status : Status]
PoolGone == [live |-> FALSE, deleting |-> FALSE, fin |-> FALSE, addrs |-> {}, gen |-> 0,
             status |-> NoStatus]
PoolFresh(addrs) == [PoolGone EXCEPT !.live = TRUE, !.addrs = addrs, !.gen = 1]

\* marked: the allocation has the annotation mikrolb.de/update.
\* The API server drops the status of a new one: its phase is empty.
AllocObject == [live : BOOLEAN, phase : {"", "Pending", "Allocated", "Failed"},
                addr : IP \cup {NoIP}, marked : BOOLEAN]
AllocGone == [live |-> FALSE, phase |-> "", addr |-> NoIP, marked |-> FALSE]
AllocFresh == [AllocGone EXCEPT !.live = TRUE]

\* pool is the handler's copy, isNew that it has just added the finalizer,
\* list the cached allocations, todo those to be triggered.
Reconciliation == [pc : {"idle", "finalize", "list", "trigger"}, name : Pool \cup {NoPool},
                   pool : PoolObject, isNew : BOOLEAN, list : [Alloc -> AllocObject],
                   todo : SUBSET Alloc]
NoList == [a \in Alloc |-> AllocGone]
Idle == [pc |-> "idle", name |-> NoPool, pool |-> PoolGone, isNew |-> FALSE,
         list |-> NoList, todo |-> {}]

PoolEvent == [name : Pool, obj : PoolObject, own : BOOLEAN]   \* own: a write of this controller
AllocEvent == [name : Alloc, obj : AllocObject]

TypeOK ==
  /\ pools \in [Pool -> PoolObject] /\ poolCache \in [Pool -> PoolObject]
  /\ allocs \in [Alloc -> AllocObject] /\ allocCache \in [Alloc -> AllocObject]
  /\ poolEvents \in Seq(PoolEvent) /\ allocEvents \in Seq(AllocEvent)
  /\ queue \subseteq Pool /\ allocQueue \subseteq Alloc /\ early \subseteq Pool
  /\ rec \in Reconciliation /\ (rec.pc # "idle" => rec.name \in Pool)
  /\ ops \in Nat /\ faults \in Nat

Init ==
  /\ pools = [p \in Pool |-> PoolGone] /\ poolCache = pools
  /\ allocs = [a \in Alloc |-> AllocGone] /\ allocCache = allocs
  /\ poolEvents = << >> /\ allocEvents = << >>
  /\ queue = {} /\ allocQueue = {} /\ early = {}
  /\ rec = Idle
  /\ ops = 0 /\ faults = 0

Operation == ops < MaxOps /\ ops' = ops + 1
Fault == faults < MaxFaults /\ faults' = faults + 1

-----------------------------------------------------------------------------
(***************************************************************************)
(* The API server: a write that changes something goes down its stream.    *)
(***************************************************************************)
WritePool(p, o, own) ==
  IF o = pools[p] THEN UNCHANGED <<pools, poolEvents>>
  ELSE /\ pools' = [pools EXCEPT ![p] = o]
       /\ poolEvents' = Append(poolEvents, [name |-> p, obj |-> o, own |-> own])

WriteAlloc(a, o) ==
  IF o = allocs[a] THEN UNCHANGED <<allocs, allocEvents>>
  ELSE /\ allocs' = [allocs EXCEPT ![a] = o]
       /\ allocEvents' = Append(allocEvents, [name |-> a, obj |-> o])

\* The environment: users and the service controller.
poolSide == <<pools, poolEvents>>
allocSide == <<allocs, allocEvents>>
controllers == <<poolCache, allocCache, queue, rec, allocQueue, early, faults>>

CreatePool(p) ==
  /\ ~pools[p].live /\ Operation
  /\ \E addrs \in AddressSets : WritePool(p, PoolFresh(addrs), FALSE)
  /\ UNCHANGED <<allocSide, controllers>>

EditPool(p) ==
  /\ pools[p].live /\ Operation
  /\ \E addrs \in AddressSets \ {pools[p].addrs} :
       WritePool(p, [pools[p] EXCEPT !.addrs = addrs, !.gen = @ + 1], FALSE)
  /\ UNCHANGED <<allocSide, controllers>>

DeletePool(p) ==
  /\ pools[p].live /\ ~pools[p].deleting /\ Operation
  /\ WritePool(p, IF pools[p].fin THEN [pools[p] EXCEPT !.deleting = TRUE, !.gen = @ + 1]
                  ELSE PoolGone, FALSE)
  /\ UNCHANGED <<allocSide, controllers>>

CreateAlloc(a) ==
  /\ ~allocs[a].live /\ Operation
  /\ WriteAlloc(a, AllocFresh)
  /\ UNCHANGED <<poolSide, controllers>>

DeleteAlloc(a) ==
  /\ allocs[a].live /\ Operation
  /\ WriteAlloc(a, AllocGone)
  /\ UNCHANGED <<poolSide, controllers>>

(***************************************************************************)
(* A reconciliation of the allocation controller: the first free address   *)
(* of the pools it may use, which it lists with the direct client and      *)
(* without looking at their deletion; a failure is retried.                *)
(***************************************************************************)
Usable(a) ==
  {ip \in IP :
     /\ \E p \in Pool : pools[p].live /\ ip \in pools[p].addrs /\ PoolName[a] \in {NoName, p}
     /\ \A b \in Alloc \ {a} : allocs[b].addr # ip}

ReconcileAlloc(a) ==
  /\ a \in allocQueue
  /\ IF ~allocs[a].live THEN allocQueue' = allocQueue \ {a} /\ UNCHANGED allocSide
     ELSE IF Usable(a) = {} THEN
            /\ WriteAlloc(a, [allocs[a] EXCEPT !.phase = "Failed", !.addr = NoIP])
            /\ UNCHANGED allocQueue
     ELSE \E ip \in Usable(a) :
            /\ \A other \in Usable(a) : ip <= other
            /\ WriteAlloc(a, [allocs[a] EXCEPT !.phase = "Allocated", !.addr = ip])
            /\ allocQueue' = allocQueue \ {a}
  /\ UNCHANGED <<poolSide, poolCache, allocCache, queue, rec, early, ops, faults>>

-----------------------------------------------------------------------------
(***************************************************************************)
(* The informers.  GenerationChangedPredicate drops the updates of a pool  *)
(* that leave its generation alone; an event of an allocation enqueues     *)
(* every pool the cache has.                                               *)
(***************************************************************************)
\* Mutant: only new pools are reconciled.
Enqueues_New(old, new) == ~old.live

Enqueues(old, new) == ~old.live \/ ~new.live \/ old.gen # new.gen

DeliverPool ==
  /\ poolEvents # << >>
  /\ LET e == Head(poolEvents) IN
     /\ poolCache' = [poolCache EXCEPT ![e.name] = e.obj]
     /\ queue' = IF Enqueues(poolCache[e.name], e.obj) THEN queue \cup {e.name} ELSE queue
  /\ poolEvents' = Tail(poolEvents)
  /\ UNCHANGED <<pools, allocSide, allocCache, rec, allocQueue, early, ops, faults>>

DeliverAlloc ==
  /\ allocEvents # << >>
  /\ LET e == Head(allocEvents) IN
     /\ allocCache' = [allocCache EXCEPT ![e.name] = e.obj]
     /\ allocQueue' = allocQueue \cup {e.name}
  /\ queue' = queue \cup {p \in Pool : poolCache[p].live}
  /\ allocEvents' = Tail(allocEvents)
  /\ UNCHANGED <<poolSide, allocs, poolCache, rec, early, ops, faults>>

\* A crash or a change of leader: fresh caches, everything queued.
Crash ==
  /\ Fault
  /\ poolCache' = pools /\ allocCache' = allocs
  /\ poolEvents' = << >> /\ allocEvents' = << >>
  /\ queue' = {p \in Pool : pools[p].live}
  /\ allocQueue' = {a \in Alloc : allocs[a].live}
  /\ rec' = Idle
  /\ UNCHANGED <<pools, allocs, early, ops>>

-----------------------------------------------------------------------------
(***************************************************************************)
(* The worker.  After an error the pool goes back to the queue.            *)
(***************************************************************************)
\* Mutant: an error is swallowed.
Return_NoRequeue(failed) == rec' = Idle /\ queue' = queue

Return(failed) ==
  /\ rec' = Idle
  /\ queue' = IF failed THEN queue \cup {rec.name} ELSE queue

OwnWriteInFlight(p) == \E i \in 1..Len(poolEvents) : poolEvents[i].name = p /\ poolEvents[i].own

Start(p) ==
  /\ rec.pc = "idle" /\ p \in queue
  /\ queue' = queue \ {p}
  /\ early' = IF OwnWriteInFlight(p) THEN early \cup {p} ELSE early \ {p}
  /\ rec' = IF ~poolCache[p].live THEN Idle
            ELSE [Idle EXCEPT !.pc = IF poolCache[p].fin THEN "list" ELSE "finalize",
                              !.name = p, !.pool = poolCache[p], !.isNew = ~poolCache[p].fin]
  /\ UNCHANGED <<poolSide, allocSide, poolCache, allocCache, allocQueue, ops, faults>>

\* The patch returns the pool as it is now, and the handler goes on with that.
AddFinalizer ==
  /\ rec.pc = "finalize"
  /\ LET p == rec.name
         o == [pools[p] EXCEPT !.fin = TRUE] IN
     \/ /\ pools[p].live
        /\ WritePool(p, o, TRUE)
        /\ rec' = [rec EXCEPT !.pc = "list", !.pool = o]
        /\ UNCHANGED <<queue, faults>>
     \/ /\ ~pools[p].live
        /\ Return(TRUE)
        /\ UNCHANGED <<poolSide, faults>>
     \/ /\ Fault
        /\ \/ UNCHANGED poolSide
           \/ pools[p].live /\ WritePool(p, o, TRUE)
        /\ Return(TRUE)
  /\ UNCHANGED <<allocSide, poolCache, allocCache, allocQueue, early, ops>>

\* The allocations the handler triggers, from its list of them.
MatchedAddress(o) == o.addr # NoIP /\ o.addr \in rec.pool.addrs

\* Mutant: an edited pool triggers nobody.
NeedsUpdate_NotEdited(a, o) ==
  \/ MatchedAddress(o) /\ rec.pool.deleting
  \/ rec.isNew /\ o.phase = "Pending" /\ PoolName[a] \in {rec.name, NoName}

NeedsUpdate(a, o) ==
  LET named == PoolName[a] = rec.name IN
  \/ MatchedAddress(o) /\ rec.pool.deleting
  \/ named /\ ~MatchedAddress(o)
  \/ rec.isNew /\ o.phase = "Pending" /\ (named \/ PoolName[a] = NoName)

\* A trigger that is already there is not repeated.
List ==
  /\ rec.pc = "list"
  /\ rec' = [rec EXCEPT !.pc = "trigger", !.list = allocCache,
               !.todo = {a \in Alloc : /\ allocCache[a].live /\ ~allocCache[a].marked
                                       /\ NeedsUpdate(a, allocCache[a])}]
  /\ UNCHANGED <<poolSide, allocSide, poolCache, allocCache, queue, allocQueue, early, ops, faults>>

(***************************************************************************)
(* triggerIPAllocationUpdate: a server-side apply by name, refused when    *)
(* the allocation is gone (it would create one without a spec).            *)
(***************************************************************************)
Trigger ==
  /\ rec.pc = "trigger"
  /\ \E a \in rec.todo :
       LET marked == [allocs[a] EXCEPT !.marked = TRUE] IN
       \/ /\ allocs[a].live
          /\ WriteAlloc(a, marked)
          /\ rec' = [rec EXCEPT !.todo = @ \ {a}]
          /\ UNCHANGED <<queue, faults>>
       \/ /\ ~allocs[a].live
          /\ Return(TRUE)
          /\ UNCHANGED <<allocSide, faults>>
       \/ /\ Fault
          /\ \/ UNCHANGED allocSide
             \/ allocs[a].live /\ WriteAlloc(a, marked)
          /\ Return(TRUE)
  /\ UNCHANGED <<poolSide, poolCache, allocCache, allocQueue, early, ops>>

(***************************************************************************)
(* The end: the finalizer of a deleted pool is removed; the status of any  *)
(* other is patched with what differs from the handler's copy.             *)
(***************************************************************************)
ListedAddresses == {rec.list[a].addr : a \in {b \in Alloc : MatchedAddress(rec.list[b])}}

NewStatus ==
  LET total == Cardinality(rec.pool.addrs)
      allocated == Cardinality(ListedAddresses) IN
  [total |-> FormatCount(total), allocated |-> FormatCount(allocated),
   free |-> FormatCount(total - allocated)]

MergePatch(current, old, new) ==
  [f \in DOMAIN current |-> IF new[f] # old[f] THEN new[f] ELSE current[f]]

Finished(o) ==
  IF ~rec.pool.deleting
  THEN [o EXCEPT !.status = MergePatch(@, rec.pool.status, NewStatus)]
  ELSE IF o.deleting THEN PoolGone ELSE [o EXCEPT !.fin = FALSE]

Finish ==
  /\ rec.pc = "trigger" /\ rec.todo = {}
  /\ LET p == rec.name IN
     \/ /\ pools[p].live
        /\ WritePool(p, Finished(pools[p]), TRUE)
        /\ Return(FALSE)
        /\ UNCHANGED faults
     \/ /\ ~pools[p].live
        /\ Return(TRUE)
        /\ UNCHANGED <<poolSide, faults>>
     \/ /\ Fault
        /\ \/ UNCHANGED poolSide
           \/ pools[p].live /\ WritePool(p, Finished(pools[p]), TRUE)
        /\ Return(TRUE)
  /\ UNCHANGED <<allocSide, poolCache, allocCache, allocQueue, early, ops>>

-----------------------------------------------------------------------------
Worker == AddFinalizer \/ List \/ Trigger \/ Finish

Next ==
  \/ \E p \in Pool : CreatePool(p) \/ EditPool(p) \/ DeletePool(p) \/ Start(p)
  \/ \E a \in Alloc : CreateAlloc(a) \/ DeleteAlloc(a) \/ ReconcileAlloc(a)
  \/ Worker
  \/ DeliverPool \/ DeliverAlloc \/ Crash

Spec == Init /\ [][Next]_vars

(***************************************************************************)
(* The workers run and their calls return, the streams deliver, and a      *)
(* queue is first in, first out.                                           *)
(***************************************************************************)
Fairness == /\ WF_vars(Worker) /\ WF_vars(DeliverPool) /\ WF_vars(DeliverAlloc)
            /\ \A p \in Pool : SF_vars(Start(p))
            /\ \A a \in Alloc : WF_vars(ReconcileAlloc(a))

FairSpec == Spec /\ Fairness

-----------------------------------------------------------------------------
Quiet == /\ queue = {} /\ rec.pc = "idle"
         /\ poolEvents = << >> /\ allocEvents = << >>

HeldIn(p) == {allocs[a].addr : a \in {b \in Alloc : allocs[b].addr \in pools[p].addrs}}

(***************************************************************************)
(* "Number of currently allocated addresses": when the controller has      *)
(* nothing left to do, the counters of a pool are those of its addresses   *)
(* and of the allocations, although they were computed from caches of      *)
(* different ages and written as a difference to a cached copy.  Left out  *)
(* are the pools last reconciled before an own write had arrived: that     *)
(* difference can be wrong for good.                                       *)
(***************************************************************************)
StatusIsCurrent ==
  Quiet => \A p \in Pool \ early :
    pools[p].live => pools[p].status =
      [total |-> FormatCount(Cardinality(pools[p].addrs)),
       allocated |-> FormatCount(Cardinality(HeldIn(p))),
       free |-> FormatCount(Cardinality(pools[p].addrs \ HeldIn(p)))]

(***************************************************************************)
(* A deleted pool goes away, whatever happens to its allocations while the *)
(* handler triggers them.                                                  *)
(***************************************************************************)
PoolDeletionCompletes == \A p \in Pool : pools[p].deleting ~> ~pools[p].deleting

Settled == Quiet /\ \A a \in Alloc : a \in allocQueue => Usable(a) = {} /\ allocs[a].addr = NoIP

Misplaced(a) ==
  /\ allocs[a].addr # NoIP
  /\ \E p \in Pool : PoolName[a] = p /\ pools[p].live /\ allocs[a].addr \notin pools[p].addrs

(***************************************************************************)
(* "it matched the pool name but it's addresses don't match (to trigger    *)
(* reallocation)": when everything has come to rest, an allocation whose   *)
(* address is outside the pool it names has been triggered some time.      *)
(* Whoever has never been is moved, then; the annotation stays, and an     *)
(* allocation that has it, perhaps since before it had an address, is not  *)
(* triggered again and may be left where it is.                            *)
(***************************************************************************)
UnmarkedIsMoved == Settled => \A a \in Alloc : Misplaced(a) => allocs[a].marked

=============================================================================
