----------------------------- MODULE IPPoolWebhook -----------------------------
(***************************************************************************)
(* The validating webhook for IPPools (internal/controller/                *)
(* ip_pool_webhook.go).  The API server calls it for every create and      *)
(* update and stores the object when it agrees: the check and the write    *)
(* are two steps, and the API server serves requests concurrently.         *)
(* Pending bounds the requests that are between the two steps; raced says  *)
(* whether two of them ever were there at the same time, which nothing in  *)
(* the code rules out.                                                     *)
(*                                                                         *)
(* A pool is the set of its addresses; module IPPoolAddresses shows that   *)
(* Intersections finds an overlap exactly when two pools share an address. *)
(***************************************************************************)
EXTENDS Naturals, FiniteSets

CONSTANTS Pool, Address,
          Pending,   \* bound: requests between their validation and their write
          MaxWrites  \* bound: requests

ASSUME WebhookAssumption == Pending \in Nat \ {0} /\ MaxWrites \in Nat

VARIABLES pools,     \* the stored pools: sets of addresses
          exists,    \* the pools that exist
          admitted,  \* requests the webhook has agreed to
          raced,     \* history: a request was admitted while another one was pending
          writes     \* requests so far (bound only)

vars == <<pools, exists, admitted, raced, writes>>

\* create: a create, not an update; errors: an entry of Spec.Addresses does
\* not parse.
Request == [name : Pool, create : BOOLEAN, addrs : SUBSET Address, errors : BOOLEAN]

TypeOK ==
  /\ pools \in [Pool -> SUBSET Address]
  /\ exists \subseteq Pool
  /\ admitted \subseteq Request
  /\ raced \in BOOLEAN
  /\ writes \in Nat

Init ==
  /\ pools = [p \in Pool |-> {}] /\ exists = {}
  /\ admitted = {} /\ raced = FALSE
  /\ writes = 0

-----------------------------------------------------------------------------
\* validate: the existing pools other than the one that is written.
Intersections(r, p) == r.addrs \cap pools[p]

\* Mutant: updates are not checked.
Valid_CreateOnly(r) ==
  ~r.errors /\ (r.create => \A p \in exists \ {r.name} : Intersections(r, p) = {})

Valid(r) == ~r.errors /\ \A p \in exists \ {r.name} : Intersections(r, p) = {}

\* ValidateCreate and ValidateUpdate, with the direct client's list.
Validate(r) ==
  /\ r.create = (r.name \notin exists)
  /\ writes < MaxWrites /\ writes' = writes + 1
  /\ Cardinality(admitted) < Pending
  /\ admitted' = IF Valid(r) THEN admitted \cup {r} ELSE admitted
  /\ raced' = (raced \/ (Valid(r) /\ admitted # {}))
  /\ UNCHANGED <<pools, exists>>

\* The API server stores an admitted object, unless a pool to create exists
\* or a pool to update is gone.
Store(r) ==
  /\ r \in admitted
  /\ admitted' = admitted \ {r}
  /\ IF r.create = (r.name \notin exists)
     THEN pools' = [pools EXCEPT ![r.name] = r.addrs] /\ exists' = exists \cup {r.name}
     ELSE UNCHANGED <<pools, exists>>
  /\ UNCHANGED <<raced, writes>>

\* Mutant: the entry is removed from the map.
Delete_Shrinks(p) ==
  /\ p \in exists
  /\ exists' = exists \ {p}
  /\ pools' = [q \in Pool \ {p} |-> pools[q]]
  /\ UNCHANGED <<admitted, raced, writes>>

\* ValidateDelete always agrees.
Delete(p) ==
  /\ p \in exists
  /\ exists' = exists \ {p}
  /\ pools' = [pools EXCEPT ![p] = {}]
  /\ UNCHANGED <<admitted, raced, writes>>

Next ==
  \/ \E r \in Request : Validate(r) \/ Store(r)
  \/ \E p \in Pool : Delete(p)

Spec == Init /\ [][Next]_vars

-----------------------------------------------------------------------------
(***************************************************************************)
(* What the webhook is for: no address belongs to two pools, through any   *)
(* sequence of creates, updates and deletions, as long as no request has   *)
(* been validated while another admitted one was still to be stored.  Only *)
(* such a pair can bring an overlap about: not a deletion between the      *)
(* check and the write, and not an update of a pool that is re-created.    *)
(***************************************************************************)
PoolsDisjoint == ~raced => \A p, q \in exists : p # q => pools[p] \cap pools[q] = {}

=============================================================================
