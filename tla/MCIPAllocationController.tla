----------------------- MODULE MCIPAllocationController -----------------------
(***************************************************************************)
(* Small instances of IPAllocationController.                              *)
(***************************************************************************)
EXTENDS IPAllocationInvariant

CONSTANTS a1, a2

Fixed(ip) == [address |-> ip, pool |-> NoPool, family |-> NoFamily]
FromPool(p) == [address |-> NoIP, pool |-> p, family |-> NoFamily]
Dynamic == [address |-> NoIP, pool |-> NoPool, family |-> "IPv4"]

Pool4(lo, hi, autoAssign, advertise) ==
  [lo |-> lo, hi |-> hi, family |-> "IPv4", autoAssign |-> autoAssign,
   advertise |-> advertise]

\* Everyone takes what any pool gives, or one names the pool.
DynamicRequests == [a \in Alloc |-> Dynamic]
MixedRequests == [a \in Alloc |-> IF a = a1 THEN FromPool(1) ELSE Dynamic]

\* One takes what it gets, the other insists on the first address.
OneFixedRequest == [a \in Alloc |-> IF a = a1 THEN Dynamic ELSE Fixed(1)]

\* All start at the same offset, the first or the second address.
NoHash == [a \in Alloc |-> 0]
OneHash == [a \in Alloc |-> 1]

\* A pool of one address that is assigned to anyone, or on demand only.
OneAddress == {Pool4(1, 1, TRUE, TRUE), Pool4(1, 1, FALSE, TRUE)}

\* A pool that is halved, and then neither advertised nor assigned to anyone.
ShrinkingPools == {Pool4(1, 2, TRUE, TRUE), Pool4(2, 2, FALSE, FALSE)}

\* A pool that is deleted.
DeletedPool == {Pool4(1, 2, TRUE, TRUE), NoSpec}
=============================================================================
