----------------------------- MODULE AddressLedger -----------------------------
(***************************************************************************)
(* What the allocation of addresses promises: a ledger with at most one    *)
(* owner for every address.  An address gets an owner only while it has    *)
(* none, an allocation owns at most one address, and no step touches the   *)
(* addresses of two allocations: an address never changes hands without    *)
(* having been free in between.                                            *)
(***************************************************************************)
CONSTANTS Alloc, NoAlloc, IP

VARIABLE owner   \* the allocation that owns an address, or NoAlloc

Init == owner = [ip \in IP |-> NoAlloc]

\* Whatever allocation a owns becomes free.
Freed(a) == [ip \in IP |-> IF owner[ip] = a THEN NoAlloc ELSE owner[ip]]

\* Allocation a gets an address nobody owns, in place of the one it had.
Assign(a, ip) ==
  /\ owner[ip] = NoAlloc
  /\ owner' = [Freed(a) EXCEPT ![ip] = a]

\* Allocation a loses its address.
Release(a) == owner' = Freed(a)

Next == \E a \in Alloc : Release(a) \/ \E ip \in IP : Assign(a, ip)

Spec == Init /\ [][Next]_owner
=============================================================================
