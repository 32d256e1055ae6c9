----------------------- MODULE IPAllocationExpectations -----------------------
(***************************************************************************)
(* The in-memory bookkeeping of internal/controller/                       *)
(* ip_allocation_expectations.go: the addresses that this process has      *)
(* handed out or released but may not yet see in its informer cache.       *)
(*                                                                         *)
(* The two Go maps are total functions here: pendingAllocations maps an    *)
(* address to a Pending record (NoPending when the key is absent),         *)
(* pendingReleases to the release time (NoTime when the key is absent).    *)
(* The operators are pure; the controller that owns the maps assigns their *)
(* results.  The mutex is not modelled: the reconciler has one worker, so  *)
(* no two of these calls overlap.                                          *)
(*                                                                         *)
(* Where the code compares with the newest time of an address              *)
(* (buildAllocTimeMap keeps the maximum), the operators quantify over all  *)
(* the times of that address: "max < t" is "all < t", "max >= t" is        *)
(* "some >= t".                                                            *)
(***************************************************************************)
EXTENDS Naturals

CONSTANTS Alloc,             \* names of IPAllocation objects
          NoAlloc,           \* the absent name
          IP,                \* addresses, as numbers
          AllocationTimeout  \* ALLOCATION_TIMEOUT, in clock ticks

ASSUME AllocAssumption == NoAlloc \notin Alloc
ASSUME IPAssumption == IP \subseteq Nat \ {0}
ASSUME TimeoutAssumption == AllocationTimeout \in Nat

NoIP == 0     \* the empty Status.Address, the invalid netip.Addr
NoTime == 0   \* an absent pendingReleases entry; real times are positive

Pending == [id : Alloc \cup {NoAlloc}, at : Nat]
NoPending == [id |-> NoAlloc, at |-> NoTime]

-----------------------------------------------------------------------------
(***************************************************************************)
(* buildAllocTimeMap.  objs maps allocation names to (cached) objects; an  *)
(* object counts when its Allocated condition is True and it has an        *)
(* address.  AllocTimes is the set of its condition times for one address. *)
(***************************************************************************)
Allocated(o) == o.phase \in {"Allocated", "Programmed"} /\ o.addr # NoIP

AllocTimes(objs, names, ip) ==
  {objs[a].since : a \in {b \in names : Allocated(objs[b]) /\ objs[b].addr = ip}}

-----------------------------------------------------------------------------
\* Whether StageAllocation accepts the address for allocation a.
CanStage(pa, a, ip) == pa[ip].id \in {a, NoAlloc}

\* Mutant: nothing is recorded.
StageAllocation_Lost(pa, a, ip, now) == pa

StageAllocation(pa, a, ip, now) == [pa EXCEPT ![ip] = [id |-> a, at |-> now]]

\* Mutant: an older release stays pending.
ClearRelease_Kept(pr, ip) == pr

\* StageAllocation also forgets a pending release of the address.
ClearRelease(pr, ip) == [pr EXCEPT ![ip] = NoTime]

\* Only the very entry that was staged is taken back.
UnstageAllocation(pa, a, ip, at) ==
  IF pa[ip] = [id |-> a, at |-> at] THEN [pa EXCEPT ![ip] = NoPending] ELSE pa

\* A release older than a pending allocation of the address is outdated.
ReleaseOutdated(pa, ip, now) == pa[ip] # NoPending /\ pa[ip].at > now

StageReleaseTimes(pa, pr, ip, now) ==
  IF ReleaseOutdated(pa, ip, now) THEN pr ELSE [pr EXCEPT ![ip] = now]

\* Mutant: a release leaves the pending allocation of the address alone.
StageReleasePending_Kept(pa, ip, now) == pa

StageReleasePending(pa, ip, now) ==
  IF ReleaseOutdated(pa, ip, now) THEN pa ELSE [pa EXCEPT ![ip] = NoPending]

UnstageRelease(pr, ip, at) ==
  IF ip # NoIP /\ pr[ip] = at THEN [pr EXCEPT ![ip] = NoTime] ELSE pr

-----------------------------------------------------------------------------
(***************************************************************************)
(* Resolve: the addresses in use, seen from allocation a.  others are the  *)
(* cached objects except a's own.                                          *)
(***************************************************************************)
PendingOfOther(pa, a, ip) == pa[ip] # NoPending /\ pa[ip].id # a

UseTimes(pa, objs, a, ip) ==
  AllocTimes(objs, Alloc \ {a}, ip)
    \cup (IF PendingOfOther(pa, a, ip) THEN {pa[ip].at} ELSE {})

Resolve(pa, pr, objs, a) ==
  {ip \in IP : /\ UseTimes(pa, objs, a, ip) # {}
               /\ ~ /\ pr[ip] # NoTime
                    /\ \A t \in UseTimes(pa, objs, a, ip) : t < pr[ip]}

(***************************************************************************)
(* Confirm: drop what the cache has caught up with.  A pending release of  *)
(* an address the cache no longer shows is kept for AllocationTimeout.     *)
(***************************************************************************)
ConfirmReleases(pr, objs, now) ==
  [ip \in IP |->
     LET times == AllocTimes(objs, Alloc, ip) IN
     IF \/ times = {} /\ now > pr[ip] + AllocationTimeout
        \/ \E t \in times : t > pr[ip]
     THEN NoTime ELSE pr[ip]]

ConfirmAllocations(pa, objs) ==
  [ip \in IP |-> IF \E t \in AllocTimes(objs, Alloc, ip) : t >= pa[ip].at
                 THEN NoPending ELSE pa[ip]]

=============================================================================
