------------------------- MODULE IPAllocationLiveness -------------------------
(***************************************************************************)
(* What becomes of addresses that are given back.                          *)
(*                                                                         *)
(* IPAllocationExpectations keeps a pending allocation until a cached      *)
(* object with the address is at least as new, and nothing else ends it:   *)
(* there is no timeout.  The stored times are whole seconds, so most       *)
(* entries outlive the grant they stand for.  A release takes the entry    *)
(* away, but an allocation that moves to another address or fails leaves   *)
(* it behind, and the address is withheld from everybody else for as long  *)
(* as the process runs.  The history variable abandoned collects those     *)
(* addresses, so that the property can be stated of all the others.        *)
(***************************************************************************)
EXTENDS IPAllocationInvariant

VARIABLE abandoned   \* the addresses of entries that were left behind

liveVars == <<vars, abandoned>>

\* What live allocations lose in a step; a release or a crash ends the entry.
LeftBehind == {ip \in IP : \E a \in Alloc : Holds(a, ip) /\ api'[a].live /\ ~Holds(a, ip)'}

Abandon ==
  abandoned' = {ip \in abandoned \cup LeftBehind : pendingAllocations'[ip] # NoPending}

LiveSpec == /\ Init /\ abandoned = {}
            /\ [][Next /\ Abandon]_liveVars
            /\ Fairness

-----------------------------------------------------------------------------
\* The one address that a asks for is in a pool, and nobody else holds it.
Waiting(a) ==
  /\ api[a].live /\ ~api[a].deleting
  /\ Request[a].address \in IP \ abandoned
  /\ \E p \in Pool : Matches(a, p) /\ Request[a].address \in PoolAddresses(p)
  /\ \A b \in Alloc \ {a} : ~Holds(b, Request[a].address)

(***************************************************************************)
(* An address nobody holds any more is not withheld from the allocation    *)
(* that asks for it: the retries after AddressAlreadyUsed succeed in the   *)
(* end, unless the address was left behind by an allocation that moved or  *)
(* failed (ConfirmAllocations of IPAllocationExpectations).                *)
(***************************************************************************)
FreedAddressIsGranted ==
  WithinClock => \A a \in Alloc : <>[]Waiting(a) => []<>Holds(a, Request[a].address)

=============================================================================
