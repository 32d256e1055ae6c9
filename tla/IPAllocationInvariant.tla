------------------------ MODULE IPAllocationInvariant -------------------------
(***************************************************************************)
(* The inductive invariant behind UniqueAddress.  What it says of single   *)
(* addresses it says of those the controller has never lost track of       *)
(* (Known); the order of the versions it states without exception.         *)
(***************************************************************************)
EXTENDS IPAllocationController

\* Object o, some version of some allocation, has address ip.
HasAddress(o, ip) == Allocated(o) /\ o.addr = ip

Position == 1..Len(events)

\* Times never lie in the future.
TimesInPast ==
  /\ \A a \in Alloc : api[a].since <= clock /\ cache[a].since <= clock
  /\ \A i \in Position : events[i].obj.since <= clock
  /\ \A ip \in IP : pendingAllocations[ip].at <= clock

\* The stream is in order, between the cache and the API server.
VersionsOrdered ==
  /\ \A a \in Alloc : cache[a].rv <= api[a].rv
  /\ \A i \in Position : /\ cache[events[i].name].rv < events[i].obj.rv
                         /\ events[i].obj.rv <= api[events[i].name].rv
  /\ \A i, j \in Position :
       i < j /\ events[i].name = events[j].name => events[i].obj.rv < events[j].obj.rv

\* What is under way for an allocation that has an address shows that address.
StreamShowsAddress ==
  \A i \in Position :
    Allocated(api[events[i].name])
      => HasAddress(events[i].obj, api[events[i].name].addr)

\* Only the controller's own writes make the cache wrong about an address.
CacheShowsAddress ==
  \A a \in Alloc : \A ip \in IP :
    Holds(a, ip) => HasAddress(cache[a], ip) \/ OwnWriteInFlight(a)

\* An address in use is known to the controller, from the cache or as pending.
AddressKnown ==
  \A a \in Alloc : \A ip \in Known :
    Holds(a, ip) => HasAddress(cache[a], ip) \/ pendingAllocations[ip].id = a

\* Only the owner's own object can confirm a pending allocation.
OnlyOwnerConfirms ==
  \A ip \in Known, x \in Alloc :
    LET Newer(o) == HasAddress(o, ip) /\ pendingAllocations[ip].at <= o.since IN
    pendingAllocations[ip].id \notin {x, NoAlloc}
      => /\ ~Newer(api[x]) /\ ~Newer(cache[x])
         /\ \A i \in Position : events[i].name = x => ~Newer(events[i].obj)

\* A deletion the cache or the stream shows is completed by the controller only.
DeletingPersists(a, o) ==
  o.live /\ o.deleting
    => /\ api[a].live /\ api[a].deleting
       /\ api[a].phase = o.phase /\ api[a].addr = o.addr

DeletionIsOurs ==
  /\ \A a \in Alloc : ~OwnWriteInFlight(a) => DeletingPersists(a, cache[a])
  /\ \A i \in Position :
       (\A j \in Position : i < j /\ events[j].name = events[i].name => ~events[j].own)
         => DeletingPersists(events[i].name, events[i].obj)

\* A release is pending only for an address that nobody has, or that the
\* reconciliation in flight is about to give up.
ReleasedIsFree ==
  \A a \in Alloc : \A ip \in Known :
    Holds(a, ip) /\ pendingReleases[ip] # NoTime
      => rec.pc = "unfinalize" /\ rec.name = a /\ rec.ip = ip

OnlyWorkerHolds == \A x \in Alloc \ {rec.name} : ~Holds(x, rec.ip)

CacheShowsWorker ==
  \A ip \in Known : Holds(rec.name, ip) => HasAddress(cache[rec.name], ip)

\* The reconciliation in flight: what it read, ...
ReadInv ==
  /\ rec.pc # "idle" => rec.obj.since <= clock /\ rec.obj.rv <= cache[rec.name].rv
  /\ rec.pc \in {"decide", "program", "update"} => CacheShowsWorker

\* ... what it releases, ...
ReleaseInv ==
  /\ rec.pc \in {"cleanup", "unfinalize"} /\ rec.ip \in Known =>
       /\ api[rec.name].live /\ api[rec.name].deleting
       /\ OnlyWorkerHolds
       /\ Holds(rec.name, rec.ip) => HasAddress(cache[rec.name], rec.ip)
  /\ rec.pc = "unfinalize" /\ rec.ip \in IP => pendingReleases[rec.ip] = rec.at

\* ... and what it is about to give out.
GrantInv ==
  /\ rec.pc = "decide" => rec.ip = NoIP
  /\ rec.pc \in {"program", "update"} /\ rec.ip \in IP =>
       /\ HasAddress(rec.obj, rec.ip)
       /\ rec.ip \in Known => OnlyWorkerHolds
       /\ pendingAllocations[rec.ip] = [id |-> rec.name, at |-> rec.at]
       /\ pendingReleases[rec.ip] = NoTime
  /\ rec.pc = "update" /\ rec.ip = NoIP => ~Allocated(rec.obj)

StoreInv ==
  /\ TimesInPast /\ VersionsOrdered
  /\ StreamShowsAddress /\ CacheShowsAddress /\ AddressKnown
  /\ OnlyOwnerConfirms /\ DeletionIsOurs
  /\ UniqueAddress

WorkerInv == ReleasedIsFree /\ ReadInv /\ ReleaseInv /\ GrantInv

(***************************************************************************)
(* The invariant that every step of the controller preserves by itself:    *)
(* what the API server, the watch stream, the cache and the expectations   *)
(* know of an address never contradicts what the reconciliation in flight  *)
(* is about to write (Reconcile and IPAllocationExpectations).             *)
(***************************************************************************)
UniqueInv == StoreInv /\ WorkerInv

-----------------------------------------------------------------------------
(***************************************************************************)
(* The ledger the controller keeps in the status of the allocations; an    *)
(* address it has lost track of is struck out for good.                    *)
(***************************************************************************)
Owner == [ip \in IP |-> IF ip \in Known /\ \E a \in Alloc : Holds(a, ip)
                        THEN CHOOSE a \in Alloc : Holds(a, ip) ELSE NoAlloc]

Ledger == INSTANCE AddressLedger WITH owner <- Owner

(***************************************************************************)
(* The controller implements the ledger: an address passes from one        *)
(* allocation to another only through a state of the API server in which   *)
(* nobody has it, and a reconciliation changes one allocation's address    *)
(* only.                                                                   *)
(***************************************************************************)
ImplementsLedger == Ledger!Spec

=============================================================================
