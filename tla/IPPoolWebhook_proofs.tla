-------------------------- MODULE IPPoolWebhook_proofs -------------------------
(***************************************************************************)
(* The webhook keeps pools disjoint as long as no two admissions overlap,  *)
(* for any sets of pools and addresses and any number of requests.  The    *)
(* invariant adds that, without such an overlap, at most one request is    *)
(* admitted and that it is still valid when it is stored: meanwhile        *)
(* nothing but a deletion can have happened.                               *)
(***************************************************************************)
EXTENDS IPPoolWebhook, TLAPS

AtMostOneAdmitted == \A r, s \in admitted : r = s
StillValid == \A r \in admitted : Valid(r)

Serial == AtMostOneAdmitted /\ StillValid /\ PoolsDisjoint

DisjointInv == /\ admitted \subseteq Request
               /\ pools \in [Pool -> SUBSET Address] /\ exists \subseteq Pool
               /\ raced \in BOOLEAN
               /\ ~raced => Serial

\* No request is admitted in the initial state, and no pool exists.
LEMMA InitDisjoint == Init => DisjointInv
  BY DEF Init, DisjointInv, Serial, AtMostOneAdmitted, StillValid, PoolsDisjoint

\* Without a race, a validation admits a request only when no other is admitted.
LEMMA ValidateDisjoint ==
  ASSUME DisjointInv, NEW r \in Request, Validate(r)
  PROVE  DisjointInv'
<1>1. UNCHANGED <<pools, exists>> /\ admitted' \subseteq Request /\ raced' \in BOOLEAN
  BY DEF Validate, DisjointInv
<1>2. CASE Valid(r) /\ admitted = {}
  <2>1. admitted' = {r}
    BY <1>2 DEF Validate
  <2>2. ~raced' => Serial'
    BY <1>1, <1>2, <2>1
    DEF Validate, DisjointInv, Serial, AtMostOneAdmitted, StillValid, PoolsDisjoint, Valid, Intersections
  <2>3. QED
    BY <1>1, <2>2 DEF DisjointInv
<1>3. CASE Valid(r) /\ admitted # {}
  <2>1. raced'
    BY <1>3 DEF Validate
  <2>2. QED
    BY <1>1, <2>1 DEF DisjointInv
<1>4. CASE ~Valid(r)
  <2>1. admitted' = admitted /\ (raced' <=> raced)
    BY <1>4 DEF Validate
  <2>2. QED
    BY <1>1, <2>1
    DEF DisjointInv, Serial, AtMostOneAdmitted, StillValid, PoolsDisjoint, Valid, Intersections
<1>5. QED
  BY <1>2, <1>3, <1>4

\* Without a race, the stored request does not intersect the pools of the other names.
LEMMA StoreDisjoint ==
  ASSUME DisjointInv, NEW r \in Request, Store(r)
  PROVE  DisjointInv'
<1>1. r.name \in Pool /\ r.addrs \in SUBSET Address
  BY DEF Request
<1>2. /\ admitted' \subseteq Request /\ pools' \in [Pool -> SUBSET Address]
      /\ exists' \subseteq Pool /\ raced' = raced
  BY <1>1 DEF Store, DisjointInv
<1>3. SUFFICES ASSUME ~raced PROVE Serial'
  BY <1>2 DEF DisjointInv
<1>4. Serial
  BY <1>3 DEF DisjointInv
<1>5. admitted' = {} /\ Valid(r)
  BY <1>4 DEF Store, Serial, AtMostOneAdmitted, StillValid
<1>6. ASSUME NEW p \in exists', NEW q \in exists', p # q PROVE pools'[p] \cap pools'[q] = {}
  <2>1. CASE UNCHANGED <<pools, exists>>
    BY <1>3, <1>4, <1>6, <2>1 DEF Serial, PoolsDisjoint
  <2>2. CASE pools' = [pools EXCEPT ![r.name] = r.addrs] /\ exists' = exists \cup {r.name}
    BY <1>1, <1>3, <1>4, <1>5, <1>6, <2>2
    DEF DisjointInv, Serial, PoolsDisjoint, Valid, Intersections
  <2>3. QED
    BY <2>1, <2>2 DEF Store
<1>7. QED
  BY <1>5, <1>6 DEF Serial, AtMostOneAdmitted, StillValid, PoolsDisjoint

\* A deletion takes nothing but a reason to refuse away.
LEMMA DeleteDisjoint ==
  ASSUME DisjointInv, NEW p \in Pool, Delete(p)
  PROVE  DisjointInv'
<1>1. /\ pools' \in [Pool -> SUBSET Address] /\ exists' \subseteq exists
      /\ admitted' = admitted /\ raced' = raced
  BY DEF Delete, DisjointInv
<1>2. \A q \in exists' : pools'[q] = pools[q]
  BY DEF Delete, DisjointInv
<1>3. Serial => StillValid'
  BY <1>1, <1>2 DEF Serial, StillValid, Valid, Intersections
<1>4. Serial => PoolsDisjoint'
  BY <1>1, <1>2 DEF Serial, PoolsDisjoint
<1>5. QED
  BY <1>1, <1>3, <1>4 DEF DisjointInv, Serial, AtMostOneAdmitted

(***************************************************************************)
(* As long as no two admissions overlap in time, no address belongs to two *)
(* pools (validate in ip_pool_webhook.go).                                 *)
(***************************************************************************)
THEOREM SerialAdmissionsDisjoint == Spec => []PoolsDisjoint
<1>1. DisjointInv /\ [Next]_vars => DisjointInv'
  <2>1. SUFFICES ASSUME DisjointInv, [Next]_vars PROVE DisjointInv'
    OBVIOUS
  <2>2. CASE Next
    BY <2>1, <2>2, ValidateDisjoint, StoreDisjoint, DeleteDisjoint DEF Next
  <2>3. CASE UNCHANGED vars
    BY <2>1, <2>3 DEF vars, DisjointInv, Serial, AtMostOneAdmitted, StillValid, PoolsDisjoint, Valid,
                      Intersections
  <2>4. QED
    BY <2>1, <2>2, <2>3
<1>2. DisjointInv => PoolsDisjoint
  BY DEF DisjointInv, Serial, PoolsDisjoint
<1>3. QED
  BY <1>1, <1>2, InitDisjoint, PTL DEF Spec

(***************************************************************************)
(* Every request, deletion and race leaves the stored pools and the        *)
(* admitted requests well formed (ValidateCreate, ValidateUpdate and       *)
(* ValidateDelete of ip_pool_webhook.go).                                  *)
(***************************************************************************)
THEOREM WebhookTypeCorrect == Spec => []TypeOK
<1>1. Init => TypeOK
  <2>1. Init => raced \in BOOLEAN
    BY DEF Init
  <2>2. Init => /\ pools \in [Pool -> SUBSET Address] /\ exists \subseteq Pool
                /\ admitted \subseteq Request /\ writes \in Nat
    BY DEF Init
  <2>3. QED
    BY <2>1, <2>2 DEF TypeOK
<1>2. TypeOK /\ [Next]_vars => TypeOK'
  <2> SUFFICES ASSUME TypeOK, [Next]_vars PROVE TypeOK'
    OBVIOUS
  <2>2. ASSUME NEW r \in Request, Validate(r) PROVE TypeOK'
    <3>1. admitted' \subseteq Request
      BY <2>2 DEF Validate, TypeOK
    <3>2. raced' \in BOOLEAN
      BY <2>2 DEF Validate
    <3>3. writes' \in Nat /\ UNCHANGED <<pools, exists>>
      BY <2>2 DEF Validate, TypeOK
    <3>4. QED
      BY <3>1, <3>2, <3>3 DEF TypeOK
  <2>3. ASSUME NEW r \in Request, Store(r) PROVE TypeOK'
    <3>1. r.name \in Pool /\ r.addrs \in SUBSET Address
      BY DEF Request
    <3>2. QED
      BY <2>3, <3>1 DEF Store, TypeOK
  <2>4. ASSUME NEW p \in Pool, Delete(p) PROVE TypeOK'
    BY <2>4 DEF Delete, TypeOK
  <2>5. CASE UNCHANGED vars
    BY <2>5 DEF vars, TypeOK
  <2>6. QED
    BY <2>2, <2>3, <2>4, <2>5 DEF Next
<1>3. QED
  BY <1>1, <1>2, PTL DEF Spec

=============================================================================
