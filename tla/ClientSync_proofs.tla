--------------------------- MODULE ClientSync_proofs ---------------------------
(***************************************************************************)
(* Proofs about Client.Sync, for every table, list of requests, number of  *)
(* edits and number of faults.                                             *)
(*                                                                         *)
(* The predicates below take the sequences as parameters: t is a table, q  *)
(* the requests, f, p and c the found, patchable and conflicting objects.  *)
(***************************************************************************)
EXTENDS ClientSync, FiniteSetTheorems, FunctionTheorems, TLAPS

(***************************************************************************)
(* The objects of the router.  An .id is never used twice, so an .id that  *)
(* Sync has seen on an object of its own can only lead to an object of its *)
(* own, whatever the administrator did since.                              *)
(***************************************************************************)
Distinct(t) == \A m, n \in 1..Len(t) : t[m].id = t[n].id => m = n
Below(t, b) == \A n \in 1..Len(t) : t[n].id < b
OwnOnly(t, id) == \A n \in 1..Len(t) : t[n].id = id => t[n].own
Ours(s, t, b) == \A k \in 1..Len(s) : s[k] < b /\ OwnOnly(t, s[k])
OursIfOwn(s, t, b) == \A k \in 1..Len(s) : s[k].id < b /\ (s[k].own => OwnOnly(t, s[k].id))

IdInv ==
  /\ Distinct(table)
  /\ OursIfOwn(resp, table, nextId)
  /\ Ours(found, table, nextId)
  /\ Ours(patchable, table, nextId)
  /\ Ours(conflicts, table, nextId)

\* Where Sync is, and what its variables hold there.
BaseInv ==
  /\ TypeOK
  /\ reqs \in RequestLists
  /\ pc = "idle" => next = 1 /\ conflicts = << >>
  /\ pc = "idle" => found = << >> /\ patchable = << >>
  /\ pc # "match" => resp = << >>
  /\ pc = "match" /\ resp # << >> => next = 1
  /\ pc = "delete" => next = 1
  /\ pc = "write" => conflicts = << >>

(***************************************************************************)
(* The matching.  Every own object among the first d of t is in one place, *)
(* and only in one; a found object is what its request asks for.           *)
(***************************************************************************)
In(s, id) == \E k \in 1..Len(s) : s[k] = id
OwnId(t, d, id) == \E n \in 1..d : t[n].own /\ t[n].id = id

Once(s) == \A i, j \in 1..Len(s) : s[i] # NoId /\ s[i] = s[j] => i = j
Apart(s, r) == \A i \in 1..Len(s) : s[i] # NoId => ~In(r, s[i])
NoneIsNoId(s) == \A i \in 1..Len(s) : s[i] # NoId

OnePlace(f, p, c) ==
  /\ Once(f) /\ Once(p) /\ Once(c)
  /\ Apart(f, p) /\ Apart(f, c) /\ Apart(p, c)
  /\ NoneIsNoId(c)

Placed(f, p, c, t, d) ==
  \A n \in 1..d : t[n].own => In(f, t[n].id) \/ In(p, t[n].id) \/ In(c, t[n].id)

Backed(s, t, d) == \A k \in 1..Len(s) : s[k] # NoId => OwnId(t, d, s[k])

\* The object id, if it is there, is what request j asks for.
Fulfils(t, id, q, j) == \A n \in 1..Len(t) : t[n].id = id => t[n].rule = q[j]
FoundRight(f, t, q) == \A j \in 1..Len(f) : f[j] # NoId => Fulfils(t, f[j], q, j)

Matching(f, p, c, t, d, q) ==
  /\ OnePlace(f, p, c)
  /\ Placed(f, p, c, t, d)
  /\ Backed(f, t, d) /\ Backed(p, t, d) /\ Backed(c, t, d)
  /\ FoundRight(f, t, q)

\* r is what is left of t, from position d + 1 on.
Rest(r, t, d) == d + Len(r) = Len(t) /\ \A i \in 1..Len(r) : r[i] = t[d + i]

\* Of the first n requests none has both a found and a patchable object.
Sorted(f, p, n) == \A j \in 1..Len(f) : j < n => f[j] = NoId \/ p[j] = NoId

(***************************************************************************)
(* The writes.  Before request n is served, at[j] is the object of request *)
(* j: NoId only if it must still be created, and its rule is the requested *)
(* one if it was found or served.                                          *)
(***************************************************************************)
Injective(at) == \A i, j \in DOMAIN at : at[i] # NoId /\ at[i] = at[j] => i = j
Holds(at, t) ==
  /\ \A j \in DOMAIN at : at[j] # NoId => OwnId(t, Len(t), at[j])
  /\ \A n \in 1..Len(t) : t[n].own => \E j \in DOMAIN at : at[j] = t[n].id
Pending(at, f, p, n) ==
  \A j \in DOMAIN at : j >= n => at[j] = IF f[j] # NoId THEN f[j] ELSE p[j]
Served(at, f, t, q, n) ==
  \A j \in DOMAIN at :
    /\ j < n => at[j] # NoId
    /\ j < n \/ f[j] # NoId => Fulfils(t, at[j], q, j)

WritingTo(at, f, p, t, q, n) ==
  Injective(at) /\ Holds(at, t) /\ Pending(at, f, p, n) /\ Served(at, f, t, q, n)
Writing(f, p, t, q, n) == \E at \in [1..Len(q) -> Nat] : WritingTo(at, f, p, t, q, n)

\* The own objects of t are the requested ones, one for each request.
Matched(t, q) ==
  \E at \in [1..Len(q) -> Nat \ {NoId}] :
    Injective(at) /\ Holds(at, t) /\ \A j \in DOMAIN at : Fulfils(t, at[j], q, j)

\* What Sync knows while nobody else changes the table.
CalmInv ==
  /\ calm /\ pc = "match" =>
       \E d \in 0..Len(table) :
         Rest(resp, table, d) /\ Matching(found, patchable, conflicts, table, d, reqs)
  /\ calm /\ pc = "match" => Sorted(found, patchable, next)
  /\ calm /\ pc = "delete" =>
       /\ Matching(found, patchable, conflicts, table, Len(table), reqs)
       /\ Sorted(found, patchable, Len(reqs) + 1)
  /\ calm /\ pc = "write" => Writing(found, patchable, table, reqs, next)

SyncInv == BaseInv /\ IdInv /\ CalmInv

(***************************************************************************)
(* A repeated Sync.  A request that is alone with its key has one object,  *)
(* the one it asks for, which is never taken for patching or a conflict.   *)
(***************************************************************************)
Alone(q, j) == \A i \in 1..Len(q) : q[i].key = q[j].key => i = j
Having(t, key) == {t[n] : n \in {m \in 1..Len(t) : t[m].own /\ t[m].rule.key = key}}

Settled(j, o) ==
  /\ Having(table, reqs[j].key) = {o}
  /\ o.rule = reqs[j]
  /\ pc # "idle" => patchable[j] = NoId /\ ~In(patchable, o.id) /\ ~In(conflicts, o.id)
  /\ pc \in {"delete", "write"} => found[j] # NoId

QuietInv ==
  synced # "no" =>
    /\ calm
    /\ \A j \in 1..Len(reqs) :
         Alone(reqs, j) => \E o \in Having(table, reqs[j].key) : Settled(j, o)

JustSynced == synced = "now" => pc = "idle" /\ Matched(table, reqs)

-----------------------------------------------------------------------------
(***************************************************************************)
(* Sequences, by their length and their positions.                         *)
(***************************************************************************)
Appended(s, u, e) ==
  Len(u) = Len(s) + 1 /\ u[Len(s) + 1] = e /\ \A k \in 1..Len(s) : u[k] = s[k]

Tailed(s, u) == Len(s) = Len(u) + 1 /\ \A k \in 1..Len(u) : u[k] = s[k + 1]

SetAt(s, u, j, v) == Len(u) = Len(s) /\ \A k \in 1..Len(s) : u[k] = IF k = j THEN v ELSE s[k]

Removed(t, u, k) ==
  /\ Len(t) = Len(u) + 1
  /\ \A n \in 1..Len(u) : u[n] = IF n < k THEN t[n] ELSE t[n + 1]

Rewrite(t, id, rule) ==
  [n \in 1..Len(t) |-> IF t[n].id = id THEN [t[n] EXCEPT !.rule = rule] ELSE t[n]]

Rewritten(t, u, id, rule) ==
  /\ Len(u) = Len(t)
  /\ \A n \in 1..Len(t) : u[n].id = t[n].id /\ u[n].own = t[n].own
  /\ \A n \in 1..Len(t) : u[n].rule = IF t[n].id = id THEN rule ELSE t[n].rule
  /\ \A n \in 1..Len(t) : t[n].id # id => u[n] = t[n]

\* Appending an element.
LEMMA AppendIsAppended ==
  ASSUME NEW S, NEW s \in Seq(S), NEW e \in S
  PROVE  Append(s, e) \in Seq(S) /\ Appended(s, Append(s, e), e)
BY DEF Appended

\* The empty sequence.
LEMMA EmptySequence ==
  ASSUME NEW S
  PROVE  << >> \in Seq(S) /\ Len(<< >>) = 0
OBVIOUS

\* The tail of a sequence that is not empty.
LEMMA TailIsTailed ==
  ASSUME NEW S, NEW s \in Seq(S), s # << >>
  PROVE  Tail(s) \in Seq(S) /\ Tailed(s, Tail(s)) /\ Head(s) \in S /\ Head(s) = s[1]
BY DEF Tailed

\* A sequence with a place set.
LEMMA ExceptIsSetAt ==
  ASSUME NEW s \in Seq(Nat), NEW j \in 1..Len(s), NEW v \in Nat, NEW u, u = [s EXCEPT ![j] = v]
  PROVE  u \in Seq(Nat) /\ SetAt(s, u, j, v)
BY DEF SetAt

\* A function on 1..n is a sequence.
LEMMA FunctionIsSequence ==
  ASSUME NEW S, NEW n \in Nat, NEW s, s \in [1..n -> S]
  PROVE  s \in Seq(S) /\ Len(s) = n
OBVIOUS

-----------------------------------------------------------------------------
(***************************************************************************)
(* The three ways in which a table changes.                                *)
(***************************************************************************)
\* What a table u that t became still has of t, whose .ids are below b.
Keeps(t, u, b, c) ==
  /\ Distinct(u) /\ Below(u, c) /\ b <= c
  /\ \A n \in 1..Len(u) : u[n].id < b =>
       \E m \in 1..Len(t) : t[m].id = u[n].id /\ t[m].own = u[n].own

\* The objects of a table.
LEMMA TableObjects ==
  ASSUME NEW t \in Seq(Object)
  PROVE  /\ Len(t) \in Nat
         /\ \A n \in 1..Len(t) : /\ t[n] \in Object
                               /\ t[n].id \in Nat /\ t[n].id # NoId
                               /\ t[n].own \in BOOLEAN /\ t[n].rule \in Rule
<1>1. \A n \in 1..Len(t) : t[n] \in Object
  OBVIOUS
<1>2. \A o \in Object : o.id \in Nat /\ o.id # NoId /\ o.own \in BOOLEAN /\ o.rule \in Rule
  BY DEF Object
<1> QED
  BY <1>1, <1>2

\* Created: the new object has a new .id.
LEMMA CreatedKeeps ==
  ASSUME NEW t \in Seq(Object), NEW b \in Nat \ {NoId}, Distinct(t), Below(t, b),
         NEW own \in BOOLEAN, NEW rule \in Rule, NEW u,
         u = Append(t, [id |-> b, own |-> own, rule |-> rule])
  PROVE  /\ u \in Seq(Object)
         /\ Appended(t, u, [id |-> b, own |-> own, rule |-> rule])
         /\ Keeps(t, u, b, b + 1)
<1> DEFINE o == [id |-> b, own |-> own, rule |-> rule]
<1>1. o \in Object /\ o.id = b
  BY DEF Object
<1>2. u \in Seq(Object) /\ Appended(t, u, o)
  BY <1>1, AppendIsAppended
<1>3. \A n \in 1..Len(t) : t[n] \in Object /\ t[n].id \in Nat /\ t[n].id < b
  BY TableObjects DEF Below
<1> HIDE DEF o
<1>4. Distinct(u)
  BY <1>1, <1>2, <1>3 DEF Distinct, Appended
<1>5. Below(u, b + 1)
  BY <1>1, <1>2, <1>3 DEF Below, Appended
<1>6. \A n \in 1..Len(u) : u[n].id < b => n \in 1..Len(t) /\ t[n] = u[n]
  BY <1>1, <1>2 DEF Appended
<1>7. Keeps(t, u, b, b + 1)
  BY <1>4, <1>5, <1>6 DEF Keeps
<1> QED
  BY <1>2, <1>7 DEF o

\* Remove: the other objects keep their order.
LEMMA RemovedKeeps ==
  ASSUME NEW t \in Seq(Object), NEW b \in Nat \ {NoId}, Distinct(t), Below(t, b),
         NEW k \in 1..Len(t), NEW u,
         u = [n \in 1..(Len(t) - 1) |-> IF n < k THEN t[n] ELSE t[n + 1]]
  PROVE  /\ u \in Seq(Object)
         /\ Removed(t, u, k)
         /\ Keeps(t, u, b, b)
<1>1. Len(t) \in Nat /\ Len(t) - 1 \in Nat
  OBVIOUS
<1>2. u \in [1..(Len(t) - 1) -> Object]
  <2>1. \A n \in 1..(Len(t) - 1) : (IF n < k THEN t[n] ELSE t[n + 1]) \in Object
    BY <1>1
  <2> QED
    BY <2>1
<1>3. u \in Seq(Object) /\ Len(u) = Len(t) - 1
  BY <1>1, <1>2, FunctionIsSequence
<1>4. Removed(t, u, k)
  BY <1>1, <1>3 DEF Removed
<1>5. \A n \in 1..Len(u) : \E m \in 1..Len(t) : m # k /\ u[n] = t[m] /\ m = IF n < k THEN n ELSE n + 1
  BY <1>1, <1>3, <1>4 DEF Removed
<1>6. Distinct(u)
  <2> SUFFICES ASSUME NEW i \in 1..Len(u), NEW j \in 1..Len(u), u[i].id = u[j].id
               PROVE  i = j
    BY DEF Distinct
  <2>1. PICK l \in 1..Len(t) : u[i] = t[l] /\ l = IF i < k THEN i ELSE i + 1
    BY <1>5
  <2>2. PICK m \in 1..Len(t) : u[j] = t[m] /\ m = IF j < k THEN j ELSE j + 1
    BY <1>5
  <2>3. l = m
    BY <2>1, <2>2 DEF Distinct
  <2>4. i \in Nat /\ j \in Nat /\ k \in Nat
    BY <1>1, <1>3
  <2>5. (IF i < k THEN i ELSE i + 1) = (IF j < k THEN j ELSE j + 1)
    BY <2>1, <2>2, <2>3
  <2>6. CASE i < k /\ j < k
    BY <2>5, <2>6
  <2>7. CASE i < k /\ ~(j < k)
    BY <2>4, <2>5, <2>7
  <2>8. CASE ~(i < k) /\ j < k
    BY <2>4, <2>5, <2>8
  <2>9. CASE ~(i < k) /\ ~(j < k)
    BY <2>4, <2>5, <2>9
  <2> QED
    BY <2>6, <2>7, <2>8, <2>9
<1>7. Below(u, b)
  BY <1>5 DEF Below
<1>8. \A n \in 1..Len(u) : u[n].id < b =>
        \E m \in 1..Len(t) : t[m].id = u[n].id /\ t[m].own = u[n].own
  BY <1>5
<1>9. b <= b
  OBVIOUS
<1>10. Keeps(t, u, b, b)
  BY <1>6, <1>7, <1>8, <1>9 DEF Keeps
<1> QED
  BY <1>3, <1>4, <1>10

\* With: every object keeps its .id.
LEMMA RewrittenKeeps ==
  ASSUME NEW t \in Seq(Object), NEW b \in Nat \ {NoId}, Distinct(t), Below(t, b),
         NEW id \in Nat, NEW rule \in Rule, NEW u,
         u = Rewrite(t, id, rule)
  PROVE  /\ u \in Seq(Object)
         /\ Rewritten(t, u, id, rule)
         /\ Keeps(t, u, b, b)
<1>1. \A n \in 1..Len(t) :
        /\ u[n] \in Object
        /\ u[n].id = t[n].id /\ u[n].own = t[n].own
        /\ u[n].rule = IF t[n].id = id THEN rule ELSE t[n].rule
        /\ t[n].id # id => u[n] = t[n]
  <2> TAKE n \in 1..Len(t)
  <2>1. t[n] \in Object
    OBVIOUS
  <2>2. u[n] = IF t[n].id = id THEN [t[n] EXCEPT !.rule = rule] ELSE t[n]
    BY DEF Rewrite
  <2> QED
    BY <2>1, <2>2 DEF Object
<1>2. Len(t) \in Nat /\ u \in [1..Len(t) -> Object]
  BY <1>1 DEF Rewrite
<1>3. u \in Seq(Object) /\ Len(u) = Len(t)
  BY <1>2, FunctionIsSequence
<1>4. Rewritten(t, u, id, rule)
  BY <1>1, <1>3 DEF Rewritten
<1>5. Distinct(u) /\ Below(u, b)
  BY <1>1, <1>3 DEF Distinct, Below
<1>6. Keeps(t, u, b, b)
  BY <1>1, <1>3, <1>5 DEF Keeps
<1> QED
  BY <1>1, <1>3, <1>4, <1>6

\* What Sync knows of .ids stays true when the table changes.
LEMMA KeepsOurs ==
  ASSUME NEW t \in Seq(Object), NEW u \in Seq(Object), NEW b \in Nat, NEW c \in Nat,
         Keeps(t, u, b, c)
  PROVE  /\ \A s \in Seq(Nat) : Ours(s, t, b) => Ours(s, u, c)
         /\ \A s \in Seq(Object) : OursIfOwn(s, t, b) => OursIfOwn(s, u, c)
<1>1. \A n \in 1..Len(t) : t[n].id \in Nat
  BY TableObjects
<1>2. \A n \in 1..Len(u) : u[n].id \in Nat
  BY TableObjects
<1>3. ASSUME NEW id \in Nat, id < b, OwnOnly(t, id)
      PROVE  OwnOnly(u, id) /\ id < c
  <2>1. id < c
    BY <1>3 DEF Keeps
  <2>2. SUFFICES ASSUME NEW n \in 1..Len(u), u[n].id = id
                 PROVE  u[n].own
    BY <2>1 DEF OwnOnly
  <2>3. PICK m \in 1..Len(t) : t[m].id = u[n].id /\ t[m].own = u[n].own
    BY <1>3, <2>2 DEF Keeps
  <2> QED
    BY <1>3, <2>2, <2>3 DEF OwnOnly
<1>4. ASSUME NEW s \in Seq(Nat), Ours(s, t, b) PROVE Ours(s, u, c)
  BY <1>3, <1>4 DEF Ours
<1>5. ASSUME NEW s \in Seq(Object), OursIfOwn(s, t, b) PROVE OursIfOwn(s, u, c)
  <2>1. \A k \in 1..Len(s) : s[k].id \in Nat
    BY TableObjects
  <2>2. \A k \in 1..Len(s) : s[k].id < c
    BY <1>5, <2>1, <1>1, <1>2 DEF OursIfOwn, Keeps
  <2>3. \A k \in 1..Len(s) : s[k].own => OwnOnly(u, s[k].id)
    BY <1>3, <1>5, <2>1 DEF OursIfOwn
  <2> QED
    BY <2>2, <2>3 DEF OursIfOwn
<1> QED
  BY <1>4, <1>5

-----------------------------------------------------------------------------
(***************************************************************************)
(* The objects of others.  Foreign is ForeignOf(table).                    *)
(***************************************************************************)
OthersOf(t) == (1..Len(t)) \ {n \in 1..Len(t) : t[n].own}
ForeignOf(t) == UNION {{<<t[m], t[n]>> : m \in OthersOf(t) \cap (1..n)} : n \in OthersOf(t)}

\* The places of others' objects in t are, in u, places of the same objects in the same order.
Embeds(t, u, h) ==
  \A n \in 1..Len(t) : ~t[n].own =>
    /\ h[n] \in 1..Len(u) /\ u[h[n]] = t[n]
    /\ \A m \in 1..n : ~t[m].own => h[m] <= h[n]

\* The members of ForeignOf.
LEMMA ForeignMember ==
  ASSUME NEW t, NEW p
  PROVE  p \in ForeignOf(t) <=>
           \E n \in 1..Len(t) : \E m \in (1..Len(t)) \cap (1..n) :
             ~t[n].own /\ ~t[m].own /\ p = <<t[m], t[n]>>
BY DEF ForeignOf, OthersOf

\* Where the others' objects keep their order, none of them is lost.
LEMMA EmbeddedForeign ==
  ASSUME NEW t \in Seq(Object), NEW u \in Seq(Object), NEW h, Embeds(t, u, h)
  PROVE  ForeignOf(t) \subseteq ForeignOf(u)
<1> SUFFICES ASSUME NEW p \in ForeignOf(t)
             PROVE  p \in ForeignOf(u)
  OBVIOUS
<1>1. PICK n \in 1..Len(t) : \E m \in (1..Len(t)) \cap (1..n) :
         ~t[n].own /\ ~t[m].own /\ p = <<t[m], t[n]>>
  BY ForeignMember
<1>2. PICK m \in (1..Len(t)) \cap (1..n) : ~t[n].own /\ ~t[m].own /\ p = <<t[m], t[n]>>
  BY <1>1
<1>3. /\ h[n] \in 1..Len(u) /\ u[h[n]] = t[n]
      /\ h[m] \in 1..Len(u) /\ u[h[m]] = t[m]
      /\ h[m] <= h[n]
  BY <1>2 DEF Embeds
<1>4. h[m] \in (1..Len(u)) \cap (1..h[n])
  BY <1>3
<1>5. ~u[h[n]].own /\ ~u[h[m]].own /\ p = <<u[h[m]], u[h[n]]>>
  BY <1>2, <1>3
<1> QED
  BY <1>3, <1>4, <1>5, ForeignMember

\* An own object more changes nothing for the others.
LEMMA CreatedForeign ==
  ASSUME NEW t \in Seq(Object), NEW u \in Seq(Object), NEW o, Appended(t, u, o), o.own
  PROVE  ForeignOf(u) = ForeignOf(t)
<1> DEFINE h == [n \in Nat |-> n]
<1>1. Len(t) \in Nat /\ Len(u) = Len(t) + 1 /\ u[Len(t) + 1] = o
      /\ \A n \in 1..Len(t) : u[n] = t[n]
  BY DEF Appended
<1>2. \A n \in Nat : h[n] = n
  OBVIOUS
<1> HIDE DEF h
<1>3. Embeds(t, u, h)
  BY <1>1, <1>2 DEF Embeds
<1>4. \A n \in 1..Len(u) : ~u[n].own => n \in 1..Len(t)
  BY <1>1
<1>5. Embeds(u, t, h)
  BY <1>1, <1>2, <1>4 DEF Embeds
<1> QED
  BY <1>3, <1>5, EmbeddedForeign

\* Nor does an own object with another rule.
LEMMA RewrittenForeign ==
  ASSUME NEW t \in Seq(Object), NEW u \in Seq(Object), NEW id, OwnOnly(t, id),
         Len(u) = Len(t),
         \A n \in 1..Len(t) : u[n].own = t[n].own,
         \A n \in 1..Len(t) : t[n].id # id => u[n] = t[n]
  PROVE  ForeignOf(u) = ForeignOf(t)
<1> DEFINE h == [n \in Nat |-> n]
<1>1. Len(t) \in Nat
  OBVIOUS
<1>2. \A n \in Nat : h[n] = n
  OBVIOUS
<1>3. \A n \in 1..Len(t) : (~t[n].own <=> ~u[n].own) /\ (~t[n].own => u[n] = t[n])
  BY DEF OwnOnly
<1> HIDE DEF h
<1>4. Embeds(t, u, h)
  BY <1>1, <1>2, <1>3 DEF Embeds
<1>5. Embeds(u, t, h)
  BY <1>1, <1>2, <1>3 DEF Embeds
<1> QED
  BY <1>4, <1>5, EmbeddedForeign

\* Nor does an own object less.
LEMMA RemovedForeign ==
  ASSUME NEW t \in Seq(Object), NEW u \in Seq(Object), NEW k \in 1..Len(t), t[k].own,
         Removed(t, u, k)
  PROVE  ForeignOf(u) = ForeignOf(t)
<1> DEFINE h == [n \in Nat |-> IF n < k THEN n ELSE n - 1]
           g == [n \in Nat |-> IF n < k THEN n ELSE n + 1]
<1>1. /\ Len(t) \in Nat /\ Len(u) \in Nat /\ Len(t) = Len(u) + 1
      /\ \A n \in 1..Len(u) : u[n] = IF n < k THEN t[n] ELSE t[n + 1]
  BY DEF Removed
<1>2. \A n \in Nat : h[n] = (IF n < k THEN n ELSE n - 1) /\ g[n] = (IF n < k THEN n ELSE n + 1)
  OBVIOUS
<1> HIDE DEF h, g
<1>3. Embeds(t, u, h)
  <2> SUFFICES ASSUME NEW n \in 1..Len(t), ~t[n].own
               PROVE  /\ h[n] \in 1..Len(u) /\ u[h[n]] = t[n]
                      /\ \A m \in 1..n : ~t[m].own => h[m] <= h[n]
    BY DEF Embeds
  <2>1. n \in Nat /\ k \in Nat /\ n >= 1 /\ k >= 1 /\ k <= Len(t) /\ n # k
    BY <1>1
  <2>2. CASE n < k
    <3>1. n \in 1..Len(u) /\ n \in 1..Len(t) /\ \A m \in 1..n : m \in Nat /\ m < k /\ m <= n
      BY <2>1, <2>2, <1>1
    <3>2. h[n] = n /\ \A m \in 1..n : h[m] = m
      BY <3>1, <2>1, <2>2, <1>2
    <3> QED
      BY <3>1, <3>2, <2>2, <1>1
  <2>3. CASE n > k
    <3>1. n - 1 \in 1..Len(u) /\ h[n] = n - 1
      BY <2>1, <2>3, <1>1, <1>2
    <3>3. \A m \in 1..n : h[m] <= n - 1
      <4> TAKE m \in 1..n
      <4>1. m \in Nat /\ m <= n /\ (m < k \/ m >= k)
        BY <2>1
      <4>2. h[m] = IF m < k THEN m ELSE m - 1
        BY <4>1, <1>2
      <4> QED
        BY <4>1, <4>2, <2>1, <2>3
    <3>2. u[n - 1] = t[n]
      BY <3>1, <2>1, <2>3, <1>1
    <3> QED
      BY <3>1, <3>2, <3>3
  <2> QED
    BY <2>1, <2>2, <2>3
<1>4. Embeds(u, t, g)
  <2> SUFFICES ASSUME NEW n \in 1..Len(u), ~u[n].own
               PROVE  /\ g[n] \in 1..Len(t) /\ t[g[n]] = u[n]
                      /\ \A m \in 1..n : ~u[m].own => g[m] <= g[n]
    BY DEF Embeds
  <2>1. n \in Nat /\ k \in Nat /\ n >= 1 /\ k >= 1 /\ k <= Len(t)
    BY <1>1
  <2>2. CASE n < k
    <3>1. n \in 1..Len(u) /\ n \in 1..Len(t) /\ \A m \in 1..n : m \in Nat /\ m < k /\ m <= n
      BY <2>1, <2>2, <1>1
    <3>2. g[n] = n /\ \A m \in 1..n : g[m] = m
      BY <3>1, <2>1, <2>2, <1>2
    <3> QED
      BY <3>1, <3>2, <2>2, <1>1
  <2>3. CASE n >= k
    <3>1. n + 1 \in 1..Len(t) /\ g[n] = n + 1
      BY <2>1, <2>3, <1>1, <1>2
    <3>3. \A m \in 1..n : g[m] <= n + 1
      <4> TAKE m \in 1..n
      <4>1. m \in Nat /\ m <= n /\ (m < k \/ m >= k)
        BY <2>1
      <4>2. g[m] = IF m < k THEN m ELSE m + 1
        BY <4>1, <1>2
      <4> QED
        BY <4>1, <4>2, <2>1, <2>3
    <3>2. t[n + 1] = u[n]
      BY <3>1, <2>1, <2>3, <1>1
    <3> QED
      BY <3>1, <3>2, <3>3
  <2> QED
    BY <2>1, <2>2, <2>3
<1> QED
  BY <1>3, <1>4, EmbeddedForeign

\* Foreign is ForeignOf(table), before and after a step.
LEMMA ForeignIsForeignOf == Foreign = ForeignOf(table) /\ Foreign' = ForeignOf(table')
BY DEF ForeignOf, OthersOf, Foreign, Own

-----------------------------------------------------------------------------
(***************************************************************************)
(* The steps.  StepKeeps: the table after the step is one, and what was    *)
(* known of its .ids stays true.                                           *)
(***************************************************************************)
StepKeeps ==
  /\ table' \in Seq(Object)
  /\ nextId' \in Nat \ {NoId}
  /\ Keeps(table, table', nextId, nextId')

Known == BaseInv /\ IdInv

LEMMA KnownTable ==
  ASSUME Known
  PROVE  /\ table \in Seq(Object) /\ nextId \in Nat \ {NoId}
         /\ Distinct(table) /\ Below(table, nextId)
BY DEF Known, BaseInv, TypeOK, IdInv, Below

LEMMA UnchangedStep ==
  ASSUME Known, table' = table, nextId' = nextId
  PROVE  StepKeeps
<1>1. \A n \in 1..Len(table) : \E m \in 1..Len(table) :
         table[m].id = table[n].id /\ table[m].own = table[n].own
  OBVIOUS
<1>2. Keeps(table, table, nextId, nextId)
  BY <1>1, KnownTable DEF Keeps
<1> QED
  BY <1>2, KnownTable DEF StepKeeps

LEMMA CreateStep ==
  ASSUME Known, NEW own \in BOOLEAN, NEW rule \in Rule,
         table' = Created(own, rule), nextId' = nextId + 1
  PROVE  /\ StepKeeps
         /\ Appended(table, table', [id |-> nextId, own |-> own, rule |-> rule])
<1>1. table' = Append(table, [id |-> nextId, own |-> own, rule |-> rule])
  BY DEF Created
<1>2. nextId' \in Nat \ {NoId}
  BY KnownTable DEF NoId
<1> QED
  BY <1>1, <1>2, KnownTable, CreatedKeeps DEF StepKeeps

LEMMA RemoveStep ==
  ASSUME Known, NEW id, Remove(id), nextId' = nextId
  PROVE  /\ StepKeeps
         /\ \E k \in 1..Len(table) : table[k].id = id /\ Removed(table, table', k)
<1>1. PICK k \in 1..Len(table) :
         /\ table[k].id = id
         /\ table' = [n \in 1..(Len(table) - 1) |-> IF n < k THEN table[n] ELSE table[n + 1]]
  BY DEF Remove
<1> QED
  BY <1>1, KnownTable, RemovedKeeps DEF StepKeeps

LEMMA WithStep ==
  ASSUME Known, NEW id \in Nat, NEW rule \in Rule,
         table' = With(id, rule), nextId' = nextId
  PROVE  StepKeeps /\ Rewritten(table, table', id, rule)
<1>1. table' = Rewrite(table, id, rule)
  BY DEF With, Rewrite
<1>2. /\ table' \in Seq(Object)
      /\ Rewritten(table, table', id, rule)
      /\ Keeps(table, table', nextId, nextId)
  BY <1>1, KnownTable, RewrittenKeeps
<1> QED
  BY <1>2, KnownTable DEF StepKeeps

\* What StepKeeps gives for the .ids that Sync remembers.
LEMMA StepKeepsOurs ==
  ASSUME Known, StepKeeps
  PROVE  /\ Distinct(table') /\ \A n \in 1..Len(table') : table'[n].id < nextId'
         /\ \A s \in Seq(Nat) : Ours(s, table, nextId) => Ours(s, table', nextId')
         /\ \A s \in Seq(Object) : OursIfOwn(s, table, nextId) => OursIfOwn(s, table', nextId')
<1>1. Distinct(table') /\ Below(table', nextId')
  BY DEF StepKeeps, Keeps
<1>2. Keeps(table, table', nextId, nextId') /\ nextId \in Nat /\ nextId' \in Nat
      /\ table \in Seq(Object) /\ table' \in Seq(Object)
  BY KnownTable DEF StepKeeps
<1> QED
  BY <1>1, <1>2, KeepsOurs DEF Below

LEMMA Counters ==
  /\ TypeOK /\ (ops' = ops \/ Operation) => ops' \in Nat
  /\ TypeOK /\ (faults' = faults \/ Fault) => faults' \in Nat
BY DEF TypeOK, Operation, Fault

\* The initial states.
LEMMA KnownInit == Init => Known
<1> SUFFICES ASSUME Init PROVE Known
  OBVIOUS
<1>1. reqs \in Seq(Rule)
  BY RequestListsAssumption DEF Init
<1>2. Len(reqs) \in Nat
  BY <1>1
<1>3. << >> \in Seq(Object) /\ << >> \in Seq(Nat) /\ Len(<< >>) = 0
  BY EmptySequence
<1>6. /\ table = << >> /\ resp = << >> /\ found = << >> /\ patchable = << >> /\ conflicts = << >>
      /\ pc = "idle" /\ next = 1 /\ nextId = 1 /\ calm = FALSE /\ synced = "no"
      /\ ops = 0 /\ faults = 0
  BY DEF Init
<1>8. next \in 1..(Len(reqs) + 1) /\ nextId \in Nat \ {NoId} /\ ops \in Nat /\ faults \in Nat
  BY <1>2, <1>6 DEF NoId
<1>9. \A n \in 1..Len(table) : table[n].id < nextId
  BY <1>3, <1>6
<1>7. TypeOK
  BY <1>1, <1>3, <1>6, <1>8, <1>9 DEF TypeOK, SyncStates
<1>4. BaseInv
  BY <1>6, <1>7 DEF Init, BaseInv
<1>5. IdInv
  BY DEF Init, IdInv, Distinct, Ours, OursIfOwn
<1> QED
  BY <1>4, <1>5 DEF Known

LEMMA KnownStutter == Known /\ UNCHANGED vars => Known'
BY DEF Known, BaseInv, TypeOK, IdInv, Distinct, Ours, OursIfOwn, OwnOnly, vars, matching

LEMMA KnownChangeRequests == Known /\ ChangeRequests => Known'
<1> SUFFICES ASSUME Known, ChangeRequests PROVE Known'
  OBVIOUS
<1>1. reqs' \in RequestLists /\ reqs' \in Seq(Rule) /\ Len(reqs') \in Nat
  BY RequestListsAssumption DEF ChangeRequests
<1>2. ops' \in Nat
  BY Counters DEF Known, BaseInv, ChangeRequests
<1>3. /\ UNCHANGED <<table, pc, resp, found, patchable, conflicts, next, nextId, faults>>
      /\ pc = "idle" /\ calm' = FALSE /\ synced' = "no"
  BY DEF ChangeRequests, matching
<1>4. next = 1 /\ 1 \in 1..(Len(reqs') + 1)
  BY <1>1, <1>3 DEF Known, BaseInv
<1>5. TypeOK'
  BY <1>1, <1>2, <1>3, <1>4 DEF Known, BaseInv, TypeOK, SyncStates
<1>6. BaseInv'
  BY <1>1, <1>3, <1>5 DEF Known, BaseInv
<1>7. IdInv'
  BY <1>3 DEF Known, IdInv, Distinct, Ours, OursIfOwn, OwnOnly
<1> QED
  BY <1>6, <1>7 DEF Known

LEMMA KnownAdministrate == Known /\ Administrate => Known'
<1> SUFFICES ASSUME Known, Administrate PROVE Known'
  OBVIOUS
<1>1. StepKeeps
  <2>1. CASE \E own \in BOOLEAN, rule \in Rule : table' = Created(own, rule) /\ nextId' = nextId + 1
    BY <2>1, CreateStep
  <2>2. CASE \E id \in Ids : Remove(id) /\ nextId' = nextId
    BY <2>2, RemoveStep
  <2>3. CASE \E id \in Ids, rule \in Rule : table' = With(id, rule) /\ nextId' = nextId
    <3>1. \A id \in Ids : id \in Nat
      BY KnownTable, TableObjects DEF Ids
    <3> QED
      BY <2>3, <3>1, WithStep
  <2> QED
    BY <2>1, <2>2, <2>3 DEF Administrate
<1>2. UNCHANGED <<reqs, pc, resp, found, patchable, conflicts, next, faults>>
      /\ ops' \in Nat /\ calm' = FALSE /\ synced' = "no"
  BY Counters DEF Known, BaseInv, Administrate, matching
<1>3. BaseInv'
  BY <1>1, <1>2, StepKeepsOurs DEF Known, BaseInv, TypeOK, StepKeeps, SyncStates
<1>4. IdInv'
  BY <1>1, <1>2, StepKeepsOurs DEF Known, BaseInv, TypeOK, IdInv
<1> QED
  BY <1>3, <1>4 DEF Known

LEMMA KnownGet == Known /\ Get => Known'
<1> SUFFICES ASSUME Known, Get PROVE Known'
  OBVIOUS
<1> DEFINE none == [j \in 1..Len(reqs) |-> NoId]
<1>1. found' = none /\ patchable' = none /\ resp' = table /\ pc' = "match" /\ calm' = TRUE
      /\ UNCHANGED <<table, reqs, conflicts, next, nextId, ops, faults>> /\ pc = "idle"
      /\ synced' \in SyncStates
  BY DEF Get, SyncStates
<1>2. Len(reqs) \in Nat /\ none \in [1..Len(reqs) -> Nat] /\ \A j \in 1..Len(reqs) : none[j] = NoId
  BY DEF Known, BaseInv, TypeOK, NoId
<1>3. none \in Seq(Nat) /\ Len(none) = Len(reqs)
  BY <1>2, FunctionIsSequence
<1> HIDE DEF none
<1>4. BaseInv'
  BY <1>1, <1>3 DEF Known, BaseInv, TypeOK
<1>5. \A n \in 1..Len(table) : table[n].id # NoId
  BY KnownTable, TableObjects
<1>6. Ours(none, table, nextId)
  BY <1>2, <1>3, <1>5, KnownTable DEF Ours, OwnOnly, NoId
<1>7. OursIfOwn(table, table, nextId)
  BY KnownTable DEF OursIfOwn, OwnOnly, Distinct, Below
<1>8. IdInv'
  BY <1>1, <1>6, <1>7 DEF Known, IdInv, Distinct, Ours, OwnOnly
<1> QED
  BY <1>4, <1>8 DEF Known

-----------------------------------------------------------------------------
\* Where Match puts an object.
LEMMA MatchCases ==
  ASSUME NEW o, Match(o)
  PROVE  \/ /\ \A j \in 1..Len(reqs) : ~Finds(o, j) /\ ~Patches(o, j)
            /\ conflicts' = Append(conflicts, o.id) /\ found' = found /\ patchable' = patchable
         \/ \E j \in 1..Len(reqs) :
              /\ Finds(o, j)
              /\ found' = [found EXCEPT ![j] = o.id] /\ patchable' = patchable /\ conflicts' = conflicts
         \/ \E j \in 1..Len(reqs) :
              /\ Patches(o, j) /\ ~Finds(o, j)
              /\ patchable' = [patchable EXCEPT ![j] = o.id] /\ found' = found /\ conflicts' = conflicts
<1>1. CASE Fits(o) = {}
  BY <1>1 DEF Match, Fits
<1>2. CASE Fits(o) # {}
  <2>1. PICK j \in Fits(o) :
          /\ IF Finds(o, j) THEN found' = [found EXCEPT ![j] = o.id] /\ UNCHANGED patchable
                            ELSE patchable' = [patchable EXCEPT ![j] = o.id] /\ UNCHANGED found
          /\ UNCHANGED conflicts
    BY <1>2 DEF Match
  <2>2. j \in 1..Len(reqs) /\ (Finds(o, j) \/ Patches(o, j))
    BY DEF Fits
  <2> QED
    BY <2>1, <2>2
<1> QED
  BY <1>1, <1>2

\* An .id set in a list, or appended to it, is one that Sync may know.
LEMMA OursSetAt ==
  ASSUME NEW s \in Seq(Nat), NEW u \in Seq(Nat), NEW j \in 1..Len(s), NEW t, NEW b \in Nat,
         NEW id \in Nat, SetAt(s, u, j, id), Ours(s, t, b), id < b, OwnOnly(t, id)
  PROVE  Ours(u, t, b)
BY DEF Ours, SetAt

LEMMA OursAppend ==
  ASSUME NEW s \in Seq(Nat), NEW t, NEW b \in Nat, NEW id \in Nat,
         Ours(s, t, b), id < b, OwnOnly(t, id)
  PROVE  Append(s, id) \in Seq(Nat) /\ Ours(Append(s, id), t, b)
<1>1. Append(s, id) \in Seq(Nat) /\ Appended(s, Append(s, id), id) /\ Len(s) \in Nat
  BY AppendIsAppended
<1>2. \A k \in 1..(Len(s) + 1) : k \in 1..Len(s) \/ k = Len(s) + 1
  BY <1>1
<1>3. Ours(Append(s, id), t, b)
  BY <1>1, <1>2 DEF Ours, Appended
<1> QED
  BY <1>1, <1>3

LEMMA OursTail ==
  ASSUME NEW s \in Seq(Nat), s # << >>, NEW t, NEW b, Ours(s, t, b)
  PROVE  Tail(s) \in Seq(Nat) /\ Ours(Tail(s), t, b) /\ OwnOnly(t, Head(s)) /\ Head(s) \in Nat
<1>1. Tail(s) \in Seq(Nat) /\ Tailed(s, Tail(s)) /\ Head(s) \in Nat /\ Head(s) = s[1]
  BY TailIsTailed
<1>2. Len(Tail(s)) \in Nat /\ Len(s) \in Nat /\ Len(s) = Len(Tail(s)) + 1
  BY <1>1 DEF Tailed
<1>3. \A k \in 1..Len(Tail(s)) : k + 1 \in 1..Len(s) /\ Tail(s)[k] = s[k + 1]
  BY <1>1, <1>2 DEF Tailed
<1>4. Ours(Tail(s), t, b)
  BY <1>3 DEF Ours
<1>5. 1 \in 1..Len(s)
  BY <1>2
<1> QED
  BY <1>1, <1>4, <1>5 DEF Ours

LEMMA KnownMatchNext == Known /\ MatchNext => Known'
<1> SUFFICES ASSUME Known, MatchNext PROVE Known'
  OBVIOUS
<1>1. /\ pc = "match" /\ resp # << >> /\ resp' = Tail(resp)
      /\ UNCHANGED <<table, reqs, pc, next, nextId, calm, synced, ops, faults>>
  BY DEF MatchNext
<1>2. /\ resp \in Seq(Object) /\ found \in Seq(Nat) /\ patchable \in Seq(Nat) /\ conflicts \in Seq(Nat)
      /\ Len(found) = Len(reqs) /\ Len(patchable) = Len(reqs) /\ next = 1
      /\ nextId \in Nat
  BY <1>1 DEF Known, BaseInv, TypeOK
<1>3. /\ Tail(resp) \in Seq(Object) /\ Tailed(resp, Tail(resp))
      /\ Head(resp) \in Object /\ Head(resp) = resp[1]
  BY <1>1, <1>2, TailIsTailed
<1> DEFINE o == Head(resp)
<1>4. o \in Object /\ o.id \in Nat
  BY <1>3 DEF Object
<1>5. Len(Tail(resp)) \in Nat /\ Len(resp) \in Nat /\ Len(resp) = Len(Tail(resp)) + 1
  BY <1>1, <1>2, <1>3 DEF Tailed
<1>6. \A k \in 1..Len(Tail(resp)) : k + 1 \in 1..Len(resp) /\ Tail(resp)[k] = resp[k + 1]
  BY <1>3, <1>5 DEF Tailed
<1>7. OursIfOwn(resp', table, nextId)
  BY <1>1, <1>6 DEF Known, IdInv, OursIfOwn
<1>8. o.id < nextId /\ (o.own => OwnOnly(table, o.id))
  BY <1>3, <1>5 DEF Known, IdInv, OursIfOwn
<1>9. /\ found' \in Seq(Nat) /\ patchable' \in Seq(Nat) /\ conflicts' \in Seq(Nat)
      /\ Len(found') = Len(reqs) /\ Len(patchable') = Len(reqs)
      /\ Ours(found', table, nextId) /\ Ours(patchable', table, nextId) /\ Ours(conflicts', table, nextId)
  <2> HIDE DEF o
  <2>1. Ours(found, table, nextId) /\ Ours(patchable, table, nextId) /\ Ours(conflicts, table, nextId)
    BY DEF Known, IdInv
  <2>2. CASE ~o.own
    <3>1. UNCHANGED <<found, patchable, conflicts>>
      BY <2>2 DEF MatchNext, Accepted, matching, o
    <3> QED
      BY <3>1, <1>2, <2>1
  <2>3. CASE o.own
    <3>1. Match(o)
      BY <2>3 DEF MatchNext, Accepted, o
    <3>2. CASE conflicts' = Append(conflicts, o.id) /\ found' = found /\ patchable' = patchable
      BY <3>2, <1>2, <1>4, <1>8, <2>1, <2>3, OursAppend
    <3>3. CASE \E j \in 1..Len(reqs) :
                 found' = [found EXCEPT ![j] = o.id] /\ patchable' = patchable /\ conflicts' = conflicts
      <4>1. PICK j \in 1..Len(found) : found' = [found EXCEPT ![j] = o.id]
        BY <3>3, <1>2
      <4>2. found' \in Seq(Nat) /\ SetAt(found, found', j, o.id)
        BY <4>1, <1>2, <1>4, ExceptIsSetAt
      <4>3. Len(found') = Len(found) /\ Ours(found', table, nextId)
        BY <4>2, <1>2, <1>4, <1>8, <2>1, <2>3, OursSetAt DEF SetAt
      <4> QED
        BY <3>3, <4>2, <4>3, <1>2, <2>1
    <3>4. CASE \E j \in 1..Len(reqs) :
                 patchable' = [patchable EXCEPT ![j] = o.id] /\ found' = found /\ conflicts' = conflicts
      <4>1. PICK j \in 1..Len(patchable) : patchable' = [patchable EXCEPT ![j] = o.id]
        BY <3>4, <1>2
      <4>2. patchable' \in Seq(Nat) /\ SetAt(patchable, patchable', j, o.id)
        BY <4>1, <1>2, <1>4, ExceptIsSetAt
      <4>3. Len(patchable') = Len(patchable) /\ Ours(patchable', table, nextId)
        BY <4>2, <1>2, <1>4, <1>8, <2>1, <2>3, OursSetAt DEF SetAt
      <4> QED
        BY <3>4, <4>2, <4>3, <1>2, <2>1
    <3> QED
      BY <3>1, <3>2, <3>3, <3>4, MatchCases
  <2> QED
    BY <2>2, <2>3
<1>10. BaseInv'
  BY <1>1, <1>2, <1>3, <1>9 DEF Known, BaseInv, TypeOK
<1>11. IdInv'
  BY <1>1, <1>7, <1>9 DEF Known, IdInv, Distinct, Ours, OursIfOwn, OwnOnly
<1> QED
  BY <1>10, <1>11 DEF Known

LEMMA KnownSortOut == Known /\ SortOut => Known'
<1> SUFFICES ASSUME Known, SortOut PROVE Known'
  OBVIOUS
<1>1. /\ pc = "match" /\ resp = << >> /\ next <= Len(reqs) /\ next' = next + 1
      /\ UNCHANGED <<table, reqs, pc, resp, found, nextId, calm, synced, ops, faults>>
  BY DEF SortOut
<1>2. /\ reqs \in Seq(Rule) /\ Len(reqs) \in Nat /\ next \in 1..(Len(reqs) + 1)
      /\ patchable \in Seq(Nat) /\ conflicts \in Seq(Nat)
      /\ Len(patchable) = Len(reqs) /\ nextId \in Nat \ {NoId}
  BY <1>1 DEF Known, BaseInv, TypeOK
<1>3. next \in 1..Len(patchable) /\ next' \in 1..(Len(reqs) + 1)
  BY <1>1, <1>2
<1>4. Ours(patchable, table, nextId) /\ Ours(conflicts, table, nextId)
  BY DEF Known, IdInv
<1>5. patchable[next] \in Nat /\ patchable[next] < nextId /\ OwnOnly(table, patchable[next])
  BY <1>2, <1>3, <1>4 DEF Ours
<1>6. NoId \in Nat /\ NoId < nextId /\ OwnOnly(table, NoId)
  BY <1>2, KnownTable, TableObjects DEF NoId, OwnOnly
<1>7. /\ patchable' \in Seq(Nat) /\ conflicts' \in Seq(Nat) /\ Len(patchable') = Len(reqs)
      /\ Ours(patchable', table, nextId) /\ Ours(conflicts', table, nextId)
  <2>1. CASE Superfluous(next)
    <3>1. conflicts' = Append(conflicts, patchable[next]) /\ patchable' = [patchable EXCEPT ![next] = NoId]
      BY <2>1 DEF SortOut
    <3>2. patchable' \in Seq(Nat) /\ SetAt(patchable, patchable', next, NoId)
      BY <3>1, <1>2, <1>3, <1>6, ExceptIsSetAt
    <3>3. Len(patchable') = Len(patchable) /\ Ours(patchable', table, nextId)
      BY <3>2, <1>2, <1>3, <1>4, <1>6, OursSetAt DEF SetAt
    <3>4. conflicts' \in Seq(Nat) /\ Ours(conflicts', table, nextId)
      BY <3>1, <1>2, <1>4, <1>5, OursAppend
    <3> QED
      BY <3>2, <3>3, <3>4, <1>2
  <2>2. CASE ~Superfluous(next)
    BY <2>2, <1>2, <1>4 DEF SortOut
  <2> QED
    BY <2>1, <2>2
<1>8. BaseInv'
  BY <1>1, <1>3, <1>7 DEF Known, BaseInv, TypeOK
<1>9. IdInv'
  BY <1>1, <1>7 DEF Known, IdInv, Distinct, Ours, OursIfOwn, OwnOnly
<1> QED
  BY <1>8, <1>9 DEF Known

LEMMA KnownMatchDone == Known /\ MatchDone => Known'
<1> SUFFICES ASSUME Known, MatchDone PROVE Known'
  OBVIOUS
<1>1. /\ pc = "match" /\ resp = << >> /\ pc' = "delete" /\ next' = 1
      /\ UNCHANGED <<table, reqs, resp, found, patchable, conflicts, nextId, calm, synced, ops, faults>>
  BY DEF MatchDone, matching
<1>2. 1 \in 1..(Len(reqs) + 1)
  BY DEF Known, BaseInv, TypeOK
<1>3. BaseInv'
  BY <1>1, <1>2 DEF Known, BaseInv, TypeOK
<1>4. IdInv'
  BY <1>1 DEF Known, IdInv, Distinct, Ours, OursIfOwn, OwnOnly
<1> QED
  BY <1>3, <1>4 DEF Known

LEMMA KnownDeletesDone == Known /\ DeletesDone => Known'
<1> SUFFICES ASSUME Known, DeletesDone PROVE Known'
  OBVIOUS
<1>1. /\ pc = "delete" /\ conflicts = << >> /\ pc' = "write"
      /\ UNCHANGED <<table, reqs, resp, found, patchable, conflicts, next, nextId, calm, synced, ops, faults>>
  BY DEF DeletesDone, matching
<1>2. BaseInv'
  BY <1>1 DEF Known, BaseInv, TypeOK
<1>3. IdInv'
  BY <1>1 DEF Known, IdInv, Distinct, Ours, OursIfOwn, OwnOnly
<1> QED
  BY <1>2, <1>3 DEF Known

-----------------------------------------------------------------------------
\* What the end of Sync, with or without an error, leaves.
LEMMA KnownEnd ==
  ASSUME Known, StepKeeps, End, pc # "match", reqs' = reqs, resp' = resp,
         calm' \in BOOLEAN, synced' \in SyncStates, ops' \in Nat, faults' \in Nat
  PROVE  Known'
<1>1. pc' = "idle" /\ found' = << >> /\ patchable' = << >> /\ conflicts' = << >> /\ next' = 1
  BY DEF End
<1>2. << >> \in Seq(Nat) /\ Len(<< >>) = 0 /\ << >> \in Seq(Object) /\ resp' = << >>
  BY EmptySequence DEF Known, BaseInv
<1>3. 1 \in 1..(Len(reqs) + 1)
  BY DEF Known, BaseInv, TypeOK
<1>4. table' \in Seq(Object) /\ nextId' \in Nat \ {NoId} /\ Distinct(table')
      /\ \A n \in 1..Len(table') : table'[n].id < nextId'
  BY StepKeepsOurs DEF StepKeeps
<1>5. TypeOK'
  BY <1>1, <1>2, <1>3, <1>4 DEF Known, BaseInv, TypeOK, SyncStates
<1>6. BaseInv'
  BY <1>1, <1>2, <1>5 DEF Known, BaseInv
<1>7. Ours(<< >>, table', nextId') /\ OursIfOwn(<< >>, table', nextId')
  BY <1>2 DEF Ours, OursIfOwn
<1>8. IdInv'
  BY <1>1, <1>2, <1>4, <1>7 DEF IdInv
<1> QED
  BY <1>6, <1>8 DEF Known

\* What a call that goes on with Sync leaves.
LEMMA KnownCall ==
  ASSUME Known, StepKeeps, UNCHANGED <<reqs, pc, resp, found, patchable, calm, synced, ops, faults>>,
         pc \in {"delete", "write"}, next' \in 1..(Len(reqs) + 1), pc = "delete" => next' = next,
         pc = "write" => conflicts' = conflicts,
         conflicts' \in Seq(Nat), Ours(conflicts', table, nextId)
  PROVE  Known'
<1>1. BaseInv'
  <2>1. table' \in Seq(Object) /\ nextId' \in Nat \ {NoId}
        /\ \A n \in 1..Len(table') : table'[n].id < nextId'
    BY StepKeepsOurs DEF StepKeeps
  <2>2. TypeOK'
    BY <2>1 DEF Known, BaseInv, TypeOK
  <2> QED
    BY <2>2 DEF Known, BaseInv
<1>2. IdInv'
  BY StepKeepsOurs DEF Known, BaseInv, TypeOK, IdInv
<1> QED
  BY <1>1, <1>2 DEF Known

LEMMA KnownDelete == Known /\ Delete => Known' /\ Foreign' = Foreign
<1> SUFFICES ASSUME Known, Delete PROVE Known' /\ ForeignOf(table') = ForeignOf(table)
  BY ForeignIsForeignOf
<1> DEFINE id == Head(conflicts)
<1>1. /\ pc = "delete" /\ conflicts # << >>
      /\ UNCHANGED <<reqs, resp, nextId, calm, ops>>
      /\ \/ /\ Remove(id) /\ conflicts' = Tail(conflicts)
            /\ UNCHANGED <<pc, found, patchable, next, synced, faults>>
         \/ /\ Remove(id) \/ UNCHANGED table
            /\ Abort /\ (faults' = faults \/ Fault)
  BY DEF Delete
<1> HIDE DEF id
<1>2. /\ conflicts \in Seq(Nat) /\ Ours(conflicts, table, nextId)
      /\ calm' \in BOOLEAN /\ synced \in SyncStates /\ ops' \in Nat
      /\ next \in 1..(Len(reqs) + 1) /\ faults \in Nat
  BY <1>1 DEF Known, BaseInv, TypeOK, IdInv
<1>3. Tail(conflicts) \in Seq(Nat) /\ Ours(Tail(conflicts), table, nextId) /\ OwnOnly(table, id)
  BY <1>1, <1>2, OursTail DEF id
<1>4. ASSUME Remove(id) PROVE StepKeeps /\ ForeignOf(table') = ForeignOf(table)
  <2>1. StepKeeps
    BY <1>1, <1>4, RemoveStep
  <2>2. PICK k \in 1..Len(table) : table[k].id = id /\ Removed(table, table', k)
    BY <1>1, <1>4, RemoveStep
  <2>3. table[k].own
    BY <1>3, <2>2 DEF OwnOnly
  <2>4. table \in Seq(Object) /\ table' \in Seq(Object)
    BY <2>1, KnownTable DEF StepKeeps
  <2> QED
    BY <2>1, <2>2, <2>3, <2>4, RemovedForeign
<1>5. ASSUME table' = table PROVE StepKeeps /\ ForeignOf(table') = ForeignOf(table)
  BY <1>1, <1>5, UnchangedStep
<1>6. CASE /\ Remove(id) /\ conflicts' = Tail(conflicts)
           /\ UNCHANGED <<pc, found, patchable, next, synced, faults>>
  <2>1. StepKeeps /\ ForeignOf(table') = ForeignOf(table)
    BY <1>4, <1>6
  <2> QED
    BY <2>1, <1>1, <1>2, <1>3, <1>6, KnownCall
<1>7. CASE /\ Remove(id) \/ UNCHANGED table
           /\ Abort /\ (faults' = faults \/ Fault)
  <2>1. StepKeeps /\ ForeignOf(table') = ForeignOf(table)
    BY <1>4, <1>5, <1>7
  <2>2. faults' \in Nat /\ synced' \in SyncStates /\ End
    BY <1>2, <1>7, Counters DEF Abort, Known, BaseInv
  <2> QED
    BY <2>1, <2>2, <1>1, <1>2, KnownEnd
<1> QED
  BY <1>1, <1>6, <1>7

\* A write that is applied: what it does to the table.
LEMMA PatchStep ==
  ASSUME Known, pc = "write", next <= Len(reqs), Patch
  PROVE  StepKeeps /\ ForeignOf(table') = ForeignOf(table)
         /\ Rewritten(table, table', patchable[next], reqs[next])
<1>1. /\ next \in 1..Len(reqs) /\ next \in 1..Len(patchable) /\ reqs[next] \in Rule
      /\ patchable[next] \in Nat /\ OwnOnly(table, patchable[next])
  BY DEF Known, BaseInv, TypeOK, IdInv, Ours
<1>2. StepKeeps /\ Rewritten(table, table', patchable[next], reqs[next])
  BY <1>1, WithStep DEF Patch
<1>3. table \in Seq(Object) /\ table' \in Seq(Object)
  BY <1>2, KnownTable DEF StepKeeps
<1> QED
  BY <1>1, <1>2, <1>3, RewrittenForeign DEF Rewritten

LEMMA PutStep ==
  ASSUME Known, pc = "write", next <= Len(reqs), Put
  PROVE  StepKeeps /\ ForeignOf(table') = ForeignOf(table)
         /\ Appended(table, table', [id |-> nextId, own |-> TRUE, rule |-> reqs[next]])
<1>1. next \in 1..Len(reqs) /\ reqs[next] \in Rule
  BY DEF Known, BaseInv, TypeOK
<1>2. StepKeeps /\ Appended(table, table', [id |-> nextId, own |-> TRUE, rule |-> reqs[next]])
  BY <1>1, CreateStep DEF Put
<1>3. table \in Seq(Object) /\ table' \in Seq(Object)
  BY <1>2, KnownTable DEF StepKeeps
<1>4. [id |-> nextId, own |-> TRUE, rule |-> reqs[next]].own
  OBVIOUS
<1> QED
  BY <1>2, <1>3, <1>4, CreatedForeign

\* The steps of Write: the next request is served, or Sync ends with an error.
LEMMA WriteCases ==
  ASSUME Write
  PROVE  /\ pc = "write" /\ next <= Len(reqs) /\ UNCHANGED <<reqs, resp, calm, ops>>
         /\ \/ /\ Keep \/ Patch \/ Put
               /\ next' = next + 1
               /\ UNCHANGED <<pc, found, patchable, conflicts, synced, faults>>
            \/ /\ Patch \/ Put \/ UNCHANGED <<table, nextId>>
               /\ Abort /\ (faults' = faults \/ Fault) /\ found[next] = NoId
BY DEF Write, matching

LEMMA KnownWrite == Known /\ Write => Known' /\ Foreign' = Foreign
<1> SUFFICES ASSUME Known, Write PROVE Known' /\ ForeignOf(table') = ForeignOf(table)
  BY ForeignIsForeignOf
<1>1. pc = "write" /\ next <= Len(reqs) /\ UNCHANGED <<reqs, resp, calm, ops>>
  BY WriteCases
<1>2. /\ conflicts \in Seq(Nat) /\ Ours(conflicts, table, nextId)
      /\ calm' \in BOOLEAN /\ synced \in SyncStates /\ ops' \in Nat
      /\ next + 1 \in 1..(Len(reqs) + 1) /\ faults \in Nat
  BY <1>1 DEF Known, BaseInv, TypeOK, IdInv
<1>3. ASSUME Keep \/ Patch \/ Put \/ UNCHANGED <<table, nextId>>
      PROVE  StepKeeps /\ ForeignOf(table') = ForeignOf(table)
  <2>1. CASE UNCHANGED <<table, nextId>>
    BY <2>1, UnchangedStep
  <2> QED
    BY <1>1, <1>3, <2>1, PatchStep, PutStep DEF Keep
<1>4. CASE /\ Keep \/ Patch \/ Put
           /\ next' = next + 1
           /\ UNCHANGED <<pc, found, patchable, conflicts, synced, faults>>
  <2>1. StepKeeps /\ ForeignOf(table') = ForeignOf(table)
    BY <1>3, <1>4
  <2> QED
    BY <2>1, <1>1, <1>2, <1>4, KnownCall
<1>5. CASE /\ Patch \/ Put \/ UNCHANGED <<table, nextId>>
           /\ Abort /\ (faults' = faults \/ Fault)
  <2>1. StepKeeps /\ ForeignOf(table') = ForeignOf(table)
    BY <1>3, <1>5
  <2>2. faults' \in Nat /\ synced' \in SyncStates /\ End
    BY <1>2, <1>5, Counters DEF Abort, Known, BaseInv
  <2> QED
    BY <2>1, <2>2, <1>1, <1>2, KnownEnd
<1> QED
  BY <1>4, <1>5, WriteCases

LEMMA KnownReturn == Known /\ Return => Known'
<1> SUFFICES ASSUME Known, Return PROVE Known'
  OBVIOUS
<1>1. /\ pc = "write" /\ End /\ synced' \in SyncStates
      /\ UNCHANGED <<table, reqs, resp, nextId, calm, ops, faults>>
  BY DEF Return, SyncStates
<1>2. calm \in BOOLEAN /\ ops \in Nat /\ faults \in Nat
  BY DEF Known, BaseInv, TypeOK
<1> QED
  BY <1>1, <1>2, UnchangedStep, KnownEnd

LEMMA KnownCrash == Known /\ Crash => Known'
<1> SUFFICES ASSUME Known, Crash PROVE Known'
  OBVIOUS
<1>1. /\ pc \in {"delete", "write"} /\ Fault /\ End /\ synced' = synced
      /\ UNCHANGED <<table, reqs, resp, nextId, calm, ops>>
  BY DEF Crash, Abort
<1>2. calm \in BOOLEAN /\ ops \in Nat /\ faults' \in Nat /\ synced \in SyncStates
  BY <1>1, Counters DEF Known, BaseInv, TypeOK
<1> QED
  BY <1>1, <1>2, UnchangedStep, KnownEnd

-----------------------------------------------------------------------------
LEMMA KnownNext == Known /\ [Next]_vars => Known'
BY KnownStutter, KnownChangeRequests, KnownAdministrate, KnownGet, KnownMatchNext, KnownSortOut,
   KnownMatchDone, KnownDelete, KnownDeletesDone, KnownWrite, KnownReturn, KnownCrash
   DEF Next, Sync

LEMMA KnownAlways == Spec => []Known
<1>1. Init => Known
  BY KnownInit
<1>2. Known /\ [Next]_vars => Known'
  BY KnownNext
<1> QED
  BY <1>1, <1>2, PTL DEF Spec

(***************************************************************************)
(* The variables have their types: in particular no object's .id is one    *)
(* that the router has still to give, and the three results of the         *)
(* matching have a place for every request.                                *)
(***************************************************************************)
THEOREM SyncTypeCorrect == Spec => []TypeOK
<1>1. Known => TypeOK
  BY DEF Known, BaseInv
<1> QED
  BY <1>1, KnownAlways, PTL

(***************************************************************************)
(* Sync never touches an object that filterFunc does not accept, whatever  *)
(* the administrator does between its calls and wherever it fails: what it *)
(* deletes or patches is named by an .id it has read on an own object, and *)
(* that .id cannot have become somebody else's.                            *)
(***************************************************************************)
THEOREM ForeignObjectsKept == Spec => ForeignKept
<1>1. Known /\ [Next]_vars => (ops' = ops => Foreign' = Foreign)
  <2> SUFFICES ASSUME Known, [Next]_vars, ops' = ops PROVE Foreign' = Foreign
    OBVIOUS
  <2>1. ops \in Nat
    BY DEF Known, BaseInv, TypeOK
  <2>2. ~Operation
    BY <2>1 DEF Operation
  <2>3. CASE table' = table
    BY <2>3, ForeignIsForeignOf
  <2>4. CASE UNCHANGED vars \/ Get \/ MatchNext \/ SortOut \/ MatchDone \/ DeletesDone \/ Return \/ Crash
    BY <2>3, <2>4 DEF vars, Get, MatchNext, SortOut, MatchDone, DeletesDone, Return, Crash
  <2>5. CASE Delete \/ Write
    BY <2>5, KnownDelete, KnownWrite
  <2> QED
    BY <2>2, <2>4, <2>5 DEF Next, Sync, ChangeRequests, Administrate
<1> QED
  BY <1>1, KnownAlways, PTL DEF Spec, ForeignKept

-----------------------------------------------------------------------------
(***************************************************************************)
(* The matching, one object at a time.                                     *)
(***************************************************************************)
\* No place holds id yet.
Fresh(f, p, c, id) == id # NoId /\ ~In(f, id) /\ ~In(p, id) /\ ~In(c, id)

LEMMA NextIsFresh ==
  ASSUME NEW t \in Seq(Object), Distinct(t), NEW d \in Nat, d < Len(t),
         NEW f \in Seq(Nat), NEW p \in Seq(Nat), NEW c \in Seq(Nat), NEW q,
         Matching(f, p, c, t, d, q)
  PROVE  Fresh(f, p, c, t[d + 1].id)
<1>1. Len(t) \in Nat /\ d + 1 \in 1..Len(t) /\ t[d + 1].id # NoId
  BY TableObjects
<1>2. ~OwnId(t, d, t[d + 1].id)
  BY <1>1 DEF OwnId, Distinct
<1>3. Backed(f, t, d) /\ Backed(p, t, d) /\ Backed(c, t, d)
  BY DEF Matching
<1> QED
  BY <1>1, <1>2, <1>3 DEF Fresh, In, Backed

\* What has been placed stays placed when d grows.
LEMMA BackedGrows ==
  ASSUME NEW t, NEW d \in Nat, NEW s, Backed(s, t, d)
  PROVE  Backed(s, t, d + 1)
<1>1. \A n \in 1..d : n \in 1..(d + 1)
  OBVIOUS
<1> QED
  BY <1>1 DEF Backed, OwnId

LEMMA BackedSetAt ==
  ASSUME NEW t, NEW d \in Nat, NEW s \in Seq(Nat), Backed(s, t, d), t[d + 1].own,
         NEW j \in 1..Len(s), NEW u \in Seq(Nat), SetAt(s, u, j, t[d + 1].id)
  PROVE  Backed(u, t, d + 1)
<1>1. Backed(s, t, d + 1)
  BY BackedGrows
<1>2. d + 1 \in 1..(d + 1)
  OBVIOUS
<1>3. OwnId(t, d + 1, t[d + 1].id)
  BY <1>2 DEF OwnId
<1> QED
  BY <1>1, <1>3 DEF Backed, SetAt

LEMMA InSetAt ==
  ASSUME NEW s \in Seq(Nat), NEW j \in 1..Len(s), NEW u \in Seq(Nat), NEW id, SetAt(s, u, j, id)
  PROVE  /\ In(u, id)
         /\ \A x : In(s, x) /\ x # s[j] => In(u, x)
         /\ \A x : In(u, x) => In(s, x) \/ x = id
BY DEF In, SetAt

LEMMA InAppended ==
  ASSUME NEW s \in Seq(Nat), NEW u \in Seq(Nat), NEW id, Appended(s, u, id)
  PROVE  /\ In(u, id)
         /\ \A x : In(s, x) => In(u, x)
         /\ \A x : In(u, x) => In(s, x) \/ x = id
<1>1. Len(s) \in Nat /\ Len(u) = Len(s) + 1 /\ u[Len(s) + 1] = id /\ \A k \in 1..Len(s) : u[k] = s[k]
  BY DEF Appended
<1>2. \A k \in 1..Len(u) : k \in 1..Len(s) \/ k = Len(s) + 1
  BY <1>1
<1>3. Len(s) + 1 \in 1..Len(u) /\ \A k \in 1..Len(s) : k \in 1..Len(u)
  BY <1>1
<1> QED
  BY <1>1, <1>2, <1>3 DEF In

\* Lists that have no object twice, when id is added to one of them.
LEMMA OnceSetAt ==
  ASSUME NEW s \in Seq(Nat), NEW j \in 1..Len(s), NEW u \in Seq(Nat), NEW id, SetAt(s, u, j, id),
         Once(s), id = NoId \/ ~In(s, id)
  PROVE  Once(u)
<1>1. Len(u) = Len(s) /\ \A k \in 1..Len(s) : u[k] = IF k = j THEN id ELSE s[k]
  BY DEF SetAt
<1> SUFFICES ASSUME NEW i \in 1..Len(s), NEW k \in 1..Len(s), u[i] # NoId, u[i] = u[k]
             PROVE  i = k
  BY <1>1 DEF Once
<1> QED
  BY <1>1 DEF Once, In

LEMMA OnceAppended ==
  ASSUME NEW s \in Seq(Nat), NEW u \in Seq(Nat), NEW id, Appended(s, u, id),
         Once(s), ~In(s, id)
  PROVE  Once(u)
<1>1. /\ Len(s) \in Nat /\ Len(u) = Len(s) + 1 /\ u[Len(s) + 1] = id
      /\ \A k \in 1..Len(s) : u[k] = s[k]
      /\ \A k \in 1..Len(u) : k \in 1..Len(s) \/ k = Len(s) + 1
  BY DEF Appended
<1> SUFFICES ASSUME NEW i \in 1..Len(u), NEW k \in 1..Len(u), u[i] # NoId, u[i] = u[k]
             PROVE  i = k
  BY DEF Once
<1> QED
  BY <1>1 DEF Once, In

LEMMA ApartGrows ==
  ASSUME NEW s, NEW u, NEW id, \A x : In(u, x) => In(s, x) \/ x = id, NEW r, Apart(s, r)
  PROVE  id = NoId \/ ~In(r, id) => Apart(u, r)
<1>1. \A k \in 1..Len(u) : In(u, u[k])
  BY DEF In
<1>2. ASSUME NEW x, In(s, x), x # NoId PROVE ~In(r, x)
  BY <1>2 DEF Apart, In
<1> QED
  BY <1>1, <1>2 DEF Apart

LEMMA ApartSymmetric ==
  ASSUME NEW s, NEW r, Apart(s, r)
  PROVE  Apart(r, s)
BY DEF Apart, In

\* The next position is placed too.
LEMMA PlacedGrows ==
  ASSUME NEW t \in Seq(Object), NEW d \in Nat, d < Len(t),
         NEW f, NEW p, NEW c, NEW f2, NEW p2, NEW c2, Placed(f, p, c, t, d),
         \A x \in Nat : x # NoId => (In(f, x) => In(f2, x)) /\ (In(p, x) => In(p2, x)) /\ (In(c, x) => In(c2, x)),
         t[d + 1].own => In(f2, t[d + 1].id) \/ In(p2, t[d + 1].id) \/ In(c2, t[d + 1].id)
  PROVE  Placed(f2, p2, c2, t, d + 1)
<1> SUFFICES ASSUME NEW n \in 1..(d + 1), t[n].own
             PROVE  In(f2, t[n].id) \/ In(p2, t[n].id) \/ In(c2, t[n].id)
  BY DEF Placed
<1>1. n \in 1..d \/ n = d + 1
  OBVIOUS
<1>2. n \in 1..Len(t)
  OBVIOUS
<1>3. t[n].id \in Nat /\ t[n].id # NoId
  BY <1>2, TableObjects
<1>4. CASE n \in 1..d
  BY <1>3, <1>4 DEF Placed
<1>5. CASE n = d + 1
  BY <1>5
<1> QED
  BY <1>1, <1>4, <1>5

\* An object that the filter does not accept.
LEMMA MatchingSkips ==
  ASSUME NEW t \in Seq(Object), NEW d \in Nat, d < Len(t), ~t[d + 1].own,
         NEW f, NEW p, NEW c, NEW q, Matching(f, p, c, t, d, q)
  PROVE  Matching(f, p, c, t, d + 1, q)
<1>1. Placed(f, p, c, t, d + 1)
  BY PlacedGrows DEF Matching
<1> QED
  BY <1>1, BackedGrows DEF Matching

LEMMA MatchingFinds ==
  ASSUME NEW t \in Seq(Object), Distinct(t), NEW d \in Nat, d < Len(t), t[d + 1].own,
         NEW f \in Seq(Nat), NEW p \in Seq(Nat), NEW c \in Seq(Nat), NEW q,
         Matching(f, p, c, t, d, q),
         NEW j \in 1..Len(f), f[j] = NoId, t[d + 1].rule = q[j],
         NEW f2 \in Seq(Nat), SetAt(f, f2, j, t[d + 1].id)
  PROVE  Matching(f2, p, c, t, d + 1, q)
<1> DEFINE id == t[d + 1].id
<1>1. d + 1 \in 1..Len(t)
  OBVIOUS
<1>2. Fresh(f, p, c, id)
  BY NextIsFresh
<1>3. In(f2, id) /\ \A x : In(f, x) /\ x # NoId => In(f2, x)
  BY InSetAt
<1>4. Placed(f2, p, c, t, d + 1)
  BY <1>3, PlacedGrows DEF Matching
<1>5. Backed(f2, t, d + 1) /\ Backed(p, t, d + 1) /\ Backed(c, t, d + 1)
  BY BackedSetAt, BackedGrows DEF Matching
<1>6. Fulfils(t, id, q, j)
  BY <1>1 DEF Fulfils, Distinct
<1> HIDE DEF id
<1>10. SetAt(f, f2, j, id)
  BY DEF id
<1>7. Len(f2) = Len(f) /\ \A k \in 1..Len(f) : f2[k] = IF k = j THEN id ELSE f[k]
  BY DEF SetAt, id
<1>8. FoundRight(f2, t, q)
  BY <1>6, <1>7 DEF FoundRight, Matching
<1>9. Once(f2) /\ Apart(f2, p) /\ Apart(f2, c)
  BY <1>2, <1>10, OnceSetAt, InSetAt, ApartGrows DEF OnePlace, Matching, Fresh
<1>11. OnePlace(f2, p, c)
  BY <1>9 DEF OnePlace, Matching
<1> QED
  BY <1>4, <1>5, <1>8, <1>11 DEF Matching

LEMMA MatchingPatches ==
  ASSUME NEW t \in Seq(Object), Distinct(t), NEW d \in Nat, d < Len(t), t[d + 1].own,
         NEW f \in Seq(Nat), NEW p \in Seq(Nat), NEW c \in Seq(Nat), NEW q,
         Matching(f, p, c, t, d, q),
         NEW j \in 1..Len(p), p[j] = NoId,
         NEW p2 \in Seq(Nat), SetAt(p, p2, j, t[d + 1].id)
  PROVE  Matching(f, p2, c, t, d + 1, q)
<1> DEFINE id == t[d + 1].id
<1>2. Fresh(f, p, c, id)
  BY NextIsFresh
<1>3. In(p2, id) /\ \A x : In(p, x) /\ x # NoId => In(p2, x)
  BY InSetAt
<1>4. Placed(f, p2, c, t, d + 1)
  BY <1>3, PlacedGrows DEF Matching
<1>5. Backed(f, t, d + 1) /\ Backed(p2, t, d + 1) /\ Backed(c, t, d + 1)
  BY BackedSetAt, BackedGrows DEF Matching
<1> HIDE DEF id
<1>6. SetAt(p, p2, j, id)
  BY DEF id
<1>7. Apart(p, f)
  BY ApartSymmetric DEF OnePlace, Matching
<1>8. Once(p2) /\ Apart(p2, f) /\ Apart(p2, c)
  BY <1>2, <1>6, <1>7, OnceSetAt, InSetAt, ApartGrows DEF OnePlace, Matching, Fresh
<1>9. OnePlace(f, p2, c)
  BY <1>8, ApartSymmetric DEF OnePlace, Matching
<1> QED
  BY <1>4, <1>5, <1>9 DEF Matching

LEMMA MatchingConflicts ==
  ASSUME NEW t \in Seq(Object), Distinct(t), NEW d \in Nat, d < Len(t), t[d + 1].own,
         NEW f \in Seq(Nat), NEW p \in Seq(Nat), NEW c \in Seq(Nat), NEW q,
         Matching(f, p, c, t, d, q),
         NEW c2 \in Seq(Nat), Appended(c, c2, t[d + 1].id)
  PROVE  Matching(f, p, c2, t, d + 1, q)
<1> DEFINE id == t[d + 1].id
<1>2. Fresh(f, p, c, id)
  BY NextIsFresh
<1>3. In(c2, id) /\ (\A x : In(c, x) => In(c2, x)) /\ (\A x : In(c2, x) => In(c, x) \/ x = id)
  BY InAppended
<1>4. Placed(f, p, c2, t, d + 1)
  BY <1>3, PlacedGrows DEF Matching
<1>5. d + 1 \in 1..(d + 1)
  OBVIOUS
<1>6. OwnId(t, d + 1, id)
  BY <1>5 DEF OwnId
<1> HIDE DEF id
<1>7. /\ Len(c) \in Nat /\ Len(c2) = Len(c) + 1 /\ c2[Len(c) + 1] = id
      /\ \A k \in 1..Len(c) : c2[k] = c[k]
      /\ \A k \in 1..Len(c2) : k \in 1..Len(c) \/ k = Len(c) + 1
  BY DEF Appended, id
<1>8. Backed(c, t, d + 1)
  BY BackedGrows DEF Matching
<1>9. Backed(c2, t, d + 1)
  BY <1>6, <1>7, <1>8 DEF Backed
<1>10. Appended(c, c2, id)
  BY DEF id
<1>11. Apart(c, f) /\ Apart(c, p)
  BY ApartSymmetric DEF OnePlace, Matching
<1>12. Once(c2) /\ Apart(c2, f) /\ Apart(c2, p)
  BY <1>2, <1>10, <1>11, OnceAppended, InAppended, ApartGrows DEF OnePlace, Matching, Fresh
<1>13. NoneIsNoId(c2)
  BY <1>2, <1>7 DEF NoneIsNoId, OnePlace, Matching, Fresh
<1>14. OnePlace(f, p, c2)
  BY <1>12, <1>13, ApartSymmetric DEF OnePlace, Matching
<1> QED
  BY <1>4, <1>9, <1>14, BackedGrows DEF Matching

-----------------------------------------------------------------------------
(***************************************************************************)
(* The object to patch for a request that has an equal one becomes a       *)
(* conflict.                                                               *)
(***************************************************************************)
LEMMA MatchingSorts ==
  ASSUME NEW t \in Seq(Object), NEW d \in Nat, d <= Len(t),
         NEW f \in Seq(Nat), NEW p \in Seq(Nat), NEW c \in Seq(Nat), NEW q,
         Matching(f, p, c, t, d, q),
         NEW n \in 1..Len(p), p[n] # NoId,
         NEW p2 \in Seq(Nat), SetAt(p, p2, n, NoId),
         NEW c2 \in Seq(Nat), Appended(c, c2, p[n])
  PROVE  Matching(f, p2, c2, t, d, q)
<1> DEFINE y == p[n]
<1>1. /\ Once(f) /\ Once(p) /\ Once(c) /\ Apart(f, p) /\ Apart(f, c) /\ Apart(p, c)
      /\ NoneIsNoId(c) /\ Apart(p, f)
  BY ApartSymmetric DEF Matching, OnePlace
<1>2. y # NoId /\ ~In(f, y) /\ ~In(c, y) /\ In(p, y)
  BY <1>1 DEF Apart, In
<1>15. /\ \A x : In(p, x) /\ x # y => In(p2, x)
       /\ \A x : In(p2, x) => In(p, x) \/ x = NoId
  BY InSetAt
<1>3. /\ Len(p2) = Len(p) /\ \A k \in 1..Len(p) : p2[k] = IF k = n THEN NoId ELSE p[k]
      /\ \A x : In(p, x) /\ x # y => In(p2, x)
      /\ \A x : In(p2, x) => In(p, x) \/ x = NoId
  BY <1>15 DEF SetAt
<1>4. /\ In(c2, y) /\ (\A x : In(c, x) => In(c2, x)) /\ (\A x : In(c2, x) => In(c, x) \/ x = y)
      /\ Appended(c, c2, y)
  BY InAppended
<1>5. Backed(f, t, d) /\ Backed(p, t, d) /\ Backed(c, t, d) /\ FoundRight(f, t, q)
  BY DEF Matching
<1>6. Placed(f, p2, c2, t, d)
  BY <1>3, <1>4 DEF Placed, Matching
<1>7. OwnId(t, d, y)
  BY <1>2, <1>5 DEF Backed
<1> HIDE DEF y
<1>8. Backed(p2, t, d)
  BY <1>3, <1>5 DEF Backed
<1>9. Backed(c2, t, d)
  <2> SUFFICES ASSUME NEW k \in 1..Len(c2), c2[k] # NoId PROVE OwnId(t, d, c2[k])
    BY DEF Backed
  <2>1. In(c2, c2[k])
    BY DEF In
  <2> QED
    BY <2>1, <1>4, <1>5, <1>7 DEF Backed, In
<1>10. ~In(p2, y)
  BY <1>1, <1>2, <1>3 DEF Once, In, y
<1>11. Once(p2) /\ Apart(p2, f) /\ Apart(p2, c)
  BY <1>1, <1>3, OnceSetAt, ApartGrows
<1>12. Once(c2) /\ Apart(c2, f) /\ Apart(c2, p2)
  BY <1>1, <1>2, <1>4, <1>10, <1>11, OnceAppended, ApartGrows, ApartSymmetric
<1>13. NoneIsNoId(c2)
  <2> SUFFICES ASSUME NEW k \in 1..Len(c2), c2[k] = NoId PROVE FALSE
    BY DEF NoneIsNoId
  <2>1. In(c2, NoId)
    BY DEF In
  <2> QED
    BY <2>1, <1>1, <1>2, <1>4 DEF NoneIsNoId, In
<1>14. OnePlace(f, p2, c2)
  BY <1>1, <1>11, <1>12, <1>13, ApartSymmetric DEF OnePlace
<1> QED
  BY <1>5, <1>6, <1>8, <1>9, <1>14 DEF Matching

(***************************************************************************)
(* The first conflict is deleted.                                          *)
(***************************************************************************)
\* The objects of a table from which one is removed.
LEMMA RemovedObjects ==
  ASSUME NEW t \in Seq(Object), NEW u \in Seq(Object), NEW k \in 1..Len(t), Removed(t, u, k)
  PROVE  /\ \A n \in 1..Len(u) : \E m \in 1..Len(t) : m # k /\ u[n] = t[m]
         /\ \A m \in 1..Len(t) : m # k => \E n \in 1..Len(u) : u[n] = t[m]
<1>1. /\ Len(t) \in Nat /\ Len(u) \in Nat /\ Len(t) = Len(u) + 1 /\ k \in Nat
      /\ \A n \in 1..Len(u) : u[n] = IF n < k THEN t[n] ELSE t[n + 1]
  BY DEF Removed
<1>2. ASSUME NEW n \in 1..Len(u) PROVE \E m \in 1..Len(t) : m # k /\ u[n] = t[m]
  <2>1. CASE n < k
    BY <2>1, <1>1
  <2>2. CASE n >= k
    <3>1. n + 1 \in 1..Len(t) /\ n + 1 # k /\ u[n] = t[n + 1]
      BY <2>2, <1>1
    <3> QED
      BY <3>1
  <2> QED
    BY <2>1, <2>2, <1>1
<1>3. ASSUME NEW m \in 1..Len(t), m # k PROVE \E n \in 1..Len(u) : u[n] = t[m]
  <2>1. CASE m < k
    <3>1. m \in 1..Len(u) /\ u[m] = t[m]
      BY <2>1, <1>1
    <3> QED
      BY <3>1
  <2>2. CASE m > k
    <3>1. m - 1 \in 1..Len(u) /\ ~(m - 1 < k) /\ (m - 1) + 1 = m
      BY <2>2, <1>1
    <3>2. u[m - 1] = t[m]
      BY <3>1, <1>1
    <3> QED
      BY <3>1, <3>2
  <2> QED
    BY <2>1, <2>2, <1>1, <1>3
<1> QED
  BY <1>2, <1>3

LEMMA InTailed ==
  ASSUME NEW s \in Seq(Nat), s # << >>, NEW u \in Seq(Nat), Tailed(s, u)
  PROVE  /\ In(s, s[1])
         /\ \A x : In(u, x) => In(s, x)
         /\ \A x : In(s, x) => In(u, x) \/ x = s[1]
         /\ Once(s) => Once(u)
         /\ Once(s) /\ s[1] # NoId => ~In(u, s[1])
<1>1. /\ Len(s) \in Nat /\ Len(u) \in Nat /\ Len(s) = Len(u) + 1
      /\ \A k \in 1..Len(u) : u[k] = s[k + 1]
  BY DEF Tailed
<1>2. \A k \in 1..Len(u) : k + 1 \in 1..Len(s) /\ u[k] = s[k + 1]
  BY <1>1
<1>3. ASSUME NEW k \in 1..Len(s) PROVE k = 1 \/ \E i \in 1..Len(u) : u[i] = s[k]
  <2>1. CASE k > 1
    <3>1. k - 1 \in 1..Len(u) /\ (k - 1) + 1 = k
      BY <2>1, <1>1
    <3>2. u[k - 1] = s[k]
      BY <3>1, <1>1
    <3> QED
      BY <3>1, <3>2
  <2> QED
    BY <2>1
<1>4. 1 \in 1..Len(s)
  BY <1>1
<1>5. In(s, s[1])
  BY <1>4 DEF In
<1>6. \A x : In(u, x) => In(s, x)
  BY <1>2 DEF In
<1>7. \A x : In(s, x) => In(u, x) \/ x = s[1]
  BY <1>3 DEF In
<1>8. ASSUME Once(s), NEW i \in 1..Len(u), NEW k \in 1..Len(u), u[i] # NoId, u[i] = u[k]
      PROVE  i = k
  <2>1. i + 1 \in 1..Len(s) /\ k + 1 \in 1..Len(s) /\ s[i + 1] = s[k + 1] /\ s[i + 1] # NoId
    BY <1>2, <1>8
  <2>2. i + 1 = k + 1
    BY <2>1, <1>8 DEF Once
  <2> QED
    BY <2>2
<1>9. ASSUME Once(s), s[1] # NoId, In(u, s[1]) PROVE FALSE
  <2>1. PICK i \in 1..Len(u) : u[i] = s[1]
    BY <1>9 DEF In
  <2>2. i + 1 \in 1..Len(s) /\ s[i + 1] = s[1]
    BY <2>1, <1>2
  <2>3. i + 1 = 1
    BY <2>2, <1>4, <1>9 DEF Once
  <2> QED
    BY <2>3
<1> QED
  BY <1>5, <1>6, <1>7, <1>8, <1>9 DEF Once

LEMMA MatchingDeletes ==
  ASSUME NEW t \in Seq(Object), Distinct(t), NEW u \in Seq(Object),
         NEW f \in Seq(Nat), NEW p \in Seq(Nat), NEW c \in Seq(Nat), c # << >>, NEW q,
         Matching(f, p, c, t, Len(t), q),
         NEW k \in 1..Len(t), t[k].id = c[1], Removed(t, u, k),
         NEW c2 \in Seq(Nat), Tailed(c, c2)
  PROVE  Matching(f, p, c2, u, Len(u), q)
<1> DEFINE y == c[1]
<1>1. /\ Once(f) /\ Once(p) /\ Once(c) /\ Apart(f, p) /\ Apart(f, c) /\ Apart(p, c)
      /\ NoneIsNoId(c)
  BY DEF Matching, OnePlace
<1>2. /\ In(c, y) /\ (\A x : In(c2, x) => In(c, x)) /\ (\A x : In(c, x) => In(c2, x) \/ x = y)
      /\ Once(c2)
  BY <1>1, InTailed
<1>3. y # NoId
  BY <1>1, <1>2 DEF NoneIsNoId, In
<1>4. ~In(c2, y) /\ ~In(f, y) /\ ~In(p, y)
  <2>1. ~In(c2, y)
    BY <1>1, <1>3, InTailed
  <2>2. ASSUME NEW s, Apart(s, c), In(s, y) PROVE FALSE
    BY <2>2, <1>2, <1>3 DEF Apart, In
  <2> QED
    BY <2>1, <2>2, <1>1
<1>5. /\ \A n \in 1..Len(u) : \E m \in 1..Len(t) : m # k /\ u[n] = t[m]
      /\ \A m \in 1..Len(t) : m # k => \E n \in 1..Len(u) : u[n] = t[m]
  BY RemovedObjects
<1>6. \A m \in 1..Len(t) : t[m].id = y <=> m = k
  BY DEF Distinct
<1> HIDE DEF y
<1>7. Placed(f, p, c2, u, Len(u))
  <2> SUFFICES ASSUME NEW n \in 1..Len(u), u[n].own
               PROVE  In(f, u[n].id) \/ In(p, u[n].id) \/ In(c2, u[n].id)
    BY DEF Placed
  <2>1. PICK m \in 1..Len(t) : m # k /\ u[n] = t[m]
    BY <1>5
  <2>2. In(f, t[m].id) \/ In(p, t[m].id) \/ In(c, t[m].id)
    BY <2>1 DEF Matching, Placed
  <2> QED
    BY <2>1, <2>2, <1>2, <1>6
<1>8. ASSUME NEW id, OwnId(t, Len(t), id), id # y PROVE OwnId(u, Len(u), id)
  <2>1. PICK m \in 1..Len(t) : t[m].own /\ t[m].id = id
    BY <1>8 DEF OwnId
  <2>2. m # k
    BY <2>1, <1>6, <1>8
  <2> QED
    BY <2>1, <2>2, <1>5 DEF OwnId
<1>9. Backed(f, u, Len(u)) /\ Backed(p, u, Len(u))
  BY <1>4, <1>8 DEF Matching, Backed, In
<1>10. Backed(c2, u, Len(u))
  <2> SUFFICES ASSUME NEW n \in 1..Len(c2), c2[n] # NoId PROVE OwnId(u, Len(u), c2[n])
    BY DEF Backed
  <2>1. In(c2, c2[n])
    BY DEF In
  <2>2. In(c, c2[n]) /\ c2[n] # y
    BY <2>1, <1>2, <1>4
  <2> QED
    BY <2>2, <1>8 DEF Matching, Backed, In
<1>14. ASSUME NEW id, NEW j, Fulfils(t, id, q, j) PROVE Fulfils(u, id, q, j)
  <2> SUFFICES ASSUME NEW n \in 1..Len(u), u[n].id = id PROVE u[n].rule = q[j]
    BY DEF Fulfils
  <2>1. PICK m \in 1..Len(t) : u[n] = t[m]
    BY <1>5
  <2> QED
    BY <2>1, <1>14 DEF Fulfils
<1>11. FoundRight(f, u, q)
  BY <1>14 DEF Matching, FoundRight
<1>12. Apart(f, c2) /\ Apart(p, c2)
  BY <1>1, <1>2 DEF Apart
<1>13. NoneIsNoId(c2)
  BY <1>1, <1>2 DEF NoneIsNoId, In
<1> QED
  BY <1>1, <1>2, <1>7, <1>9, <1>10, <1>11, <1>12, <1>13 DEF Matching, OnePlace

-----------------------------------------------------------------------------
(***************************************************************************)
(* The writes, one request at a time.                                      *)
(***************************************************************************)
\* With no conflict left, every own object has a request.
LEMMA WritingStarts ==
  ASSUME NEW t \in Seq(Object), NEW q \in Seq(Rule),
         NEW f \in Seq(Nat), NEW p \in Seq(Nat), Len(f) = Len(q), Len(p) = Len(q),
         NEW c, c = << >>, Matching(f, p, c, t, Len(t), q), Sorted(f, p, Len(q) + 1)
  PROVE  Writing(f, p, t, q, 1)
<1> DEFINE at == [j \in 1..Len(q) |-> IF f[j] # NoId THEN f[j] ELSE p[j]]
<1>1. Len(q) \in Nat /\ \A j \in 1..Len(q) : f[j] \in Nat /\ p[j] \in Nat
  OBVIOUS
<1>2. at \in [1..Len(q) -> Nat]
  BY <1>1
<1>3. DOMAIN at = 1..Len(q) /\ \A j \in 1..Len(q) : at[j] = IF f[j] # NoId THEN f[j] ELSE p[j]
  OBVIOUS
<1> HIDE DEF at
<1>4. /\ Once(f) /\ Once(p) /\ Apart(f, p) /\ Backed(f, t, Len(t)) /\ Backed(p, t, Len(t))
      /\ FoundRight(f, t, q) /\ Placed(f, p, c, t, Len(t))
  BY DEF Matching, OnePlace
<1>5. \A i, j \in 1..Len(q) : f[i] # NoId => f[i] # p[j]
  BY <1>4 DEF Apart, In
<1>6. Injective(at)
  BY <1>3, <1>4, <1>5 DEF Injective, Once
<1>7. \A j \in 1..Len(q) : at[j] # NoId => OwnId(t, Len(t), at[j])
  BY <1>3, <1>4 DEF Backed
<1>8. ASSUME NEW n \in 1..Len(t), t[n].own PROVE \E j \in 1..Len(q) : at[j] = t[n].id
  <2>1. t[n].id # NoId
    BY TableObjects
  <2>2. ~In(c, t[n].id)
    BY DEF In
  <2>3. In(f, t[n].id) \/ In(p, t[n].id)
    BY <1>4, <1>8, <2>2 DEF Placed
  <2>4. CASE In(f, t[n].id)
    BY <2>1, <2>4, <1>3 DEF In
  <2>5. CASE In(p, t[n].id)
    <3>1. PICK j \in 1..Len(q) : p[j] = t[n].id
      BY <2>5 DEF In
    <3>2. f[j] = NoId
      BY <3>1, <2>1, <1>1 DEF Sorted
    <3> QED
      BY <3>1, <3>2, <1>3
  <2> QED
    BY <2>3, <2>4, <2>5
<1>9. Holds(at, t)
  BY <1>3, <1>7, <1>8 DEF Holds
<1>10. Pending(at, f, p, 1)
  BY <1>3 DEF Pending
<1>11. Served(at, f, t, q, 1)
  BY <1>3, <1>4 DEF Served, FoundRight
<1> QED
  BY <1>2, <1>6, <1>9, <1>10, <1>11 DEF Writing, WritingTo

\* A found object stays.
LEMMA WritingKeeps ==
  ASSUME NEW t, NEW q \in Seq(Rule), NEW f, NEW p, NEW n \in 1..Len(q),
         Writing(f, p, t, q, n), f[n] # NoId
  PROVE  Writing(f, p, t, q, n + 1)
<1>1. PICK at \in [1..Len(q) -> Nat] : WritingTo(at, f, p, t, q, n)
  BY DEF Writing
<1>2. at[n] # NoId /\ Fulfils(t, at[n], q, n)
  BY <1>1 DEF WritingTo, Pending, Served
<1>3. \A j \in 1..Len(q) : (j >= n + 1 => j >= n) /\ (j < n + 1 => j < n \/ j = n)
  OBVIOUS
<1>4. Pending(at, f, p, n + 1)
  BY <1>1, <1>3 DEF WritingTo, Pending
<1>5. Served(at, f, t, q, n + 1)
  BY <1>1, <1>2, <1>3 DEF WritingTo, Served
<1> QED
  BY <1>1, <1>4, <1>5 DEF Writing, WritingTo

\* A patched object gets the requested rule, and no other object changes.
LEMMA WritingPatches ==
  ASSUME NEW t \in Seq(Object), NEW u \in Seq(Object), NEW q \in Seq(Rule), NEW f, NEW p,
         NEW n \in 1..Len(q), Writing(f, p, t, q, n), f[n] = NoId, p[n] # NoId,
         Rewritten(t, u, p[n], q[n])
  PROVE  Writing(f, p, u, q, n + 1)
<1>1. PICK at \in [1..Len(q) -> Nat] : WritingTo(at, f, p, t, q, n)
  BY DEF Writing
<1>2. at[n] = p[n] /\ at[n] # NoId
  BY <1>1 DEF WritingTo, Pending
<1>3. \A j \in 1..Len(q) : (j >= n + 1 => j >= n) /\ (j < n + 1 => j < n \/ j = n)
  OBVIOUS
<1>4. /\ Len(u) = Len(t)
      /\ \A m \in 1..Len(t) : u[m].id = t[m].id /\ u[m].own = t[m].own
      /\ \A m \in 1..Len(t) : u[m].rule = IF t[m].id = p[n] THEN q[n] ELSE t[m].rule
  BY DEF Rewritten
<1>5. Holds(at, u)
  <2>1. ASSUME NEW id, OwnId(t, Len(t), id) PROVE OwnId(u, Len(u), id)
    BY <1>4, <2>1 DEF OwnId
  <2>2. ASSUME NEW m \in 1..Len(u), u[m].own PROVE t[m].own /\ t[m].id = u[m].id /\ m \in 1..Len(t)
    BY <1>4, <2>2
  <2> QED
    BY <1>1, <2>1, <2>2 DEF WritingTo, Holds
<1>6. Pending(at, f, p, n + 1)
  BY <1>1, <1>3 DEF WritingTo, Pending
<1>7. Fulfils(u, at[n], q, n)
  BY <1>2, <1>4 DEF Fulfils
<1>8. ASSUME NEW j \in 1..Len(q), j # n, at[j] # NoId, Fulfils(t, at[j], q, j)
      PROVE  Fulfils(u, at[j], q, j)
  <2>1. at[j] # p[n]
    BY <1>1, <1>2, <1>8 DEF WritingTo, Injective
  <2> QED
    BY <2>1, <1>4, <1>8 DEF Fulfils
<1>9. \A j \in 1..Len(q) : f[j] # NoId => at[j] # NoId
  BY <1>1 DEF WritingTo, Pending, Served
<1>10. Served(at, f, u, q, n + 1)
  BY <1>1, <1>2, <1>3, <1>7, <1>8, <1>9 DEF WritingTo, Served
<1> QED
  BY <1>1, <1>5, <1>6, <1>10 DEF Writing, WritingTo

\* A created object is the requested one, under a new .id.
LEMMA WritingPuts ==
  ASSUME NEW t \in Seq(Object), NEW u \in Seq(Object), NEW q \in Seq(Rule), NEW f, NEW p,
         NEW n \in 1..Len(q), Writing(f, p, t, q, n), f[n] = NoId, p[n] = NoId,
         NEW b \in Nat \ {NoId}, Below(t, b), NEW o, Appended(t, u, o),
         o.id = b, o.own, o.rule = q[n]
  PROVE  Writing(f, p, u, q, n + 1)
<1>1. PICK at \in [1..Len(q) -> Nat] : WritingTo(at, f, p, t, q, n)
  BY DEF Writing
<1> DEFINE to == [at EXCEPT ![n] = b]
<1>2. to \in [1..Len(q) -> Nat] /\ \A j \in 1..Len(q) : to[j] = IF j = n THEN b ELSE at[j]
  OBVIOUS
<1> HIDE DEF to
<1>3. DOMAIN at = 1..Len(q) /\ DOMAIN to = 1..Len(q)
  BY <1>2
<1>4. \A j \in 1..Len(q) : (j >= n + 1 => j >= n /\ j # n) /\ (j < n + 1 => j < n \/ j = n)
  OBVIOUS
<1>5. at[n] = NoId
  BY <1>1 DEF WritingTo, Pending
<1>6. /\ Len(t) \in Nat /\ Len(u) = Len(t) + 1 /\ u[Len(t) + 1] = o
      /\ \A m \in 1..Len(t) : u[m] = t[m]
  BY DEF Appended
<1>7. /\ Len(t) + 1 \in 1..Len(u) /\ \A m \in 1..Len(t) : m \in 1..Len(u)
      /\ \A m \in 1..Len(u) : m \in 1..Len(t) \/ m = Len(t) + 1
  BY <1>6
<1>8. \A m \in 1..Len(t) : t[m].id # b
  BY TableObjects DEF Below
<1>9. \A j \in 1..Len(q) : at[j] # NoId => at[j] # b
  BY <1>1, <1>3, <1>8 DEF WritingTo, Holds, OwnId
<1>10. Injective(to)
  BY <1>1, <1>2, <1>3, <1>9 DEF WritingTo, Injective
<1>11. \A j \in 1..Len(q) : to[j] # NoId => OwnId(u, Len(u), to[j])
  <2>1. OwnId(u, Len(u), b)
    BY <1>6, <1>7 DEF OwnId
  <2>2. \A id : OwnId(t, Len(t), id) => OwnId(u, Len(u), id)
    BY <1>6, <1>7 DEF OwnId
  <2> QED
    BY <2>1, <2>2, <1>1, <1>2, <1>3 DEF WritingTo, Holds
<1>12. ASSUME NEW m \in 1..Len(u), u[m].own PROVE \E j \in 1..Len(q) : to[j] = u[m].id
  <2>1. CASE m \in 1..Len(t)
    <3>1. PICK j \in 1..Len(q) : at[j] = t[m].id
      BY <2>1, <1>1, <1>3, <1>6, <1>12 DEF WritingTo, Holds
    <3>2. j # n
      BY <3>1, <2>1, <1>5, TableObjects
    <3> QED
      BY <3>1, <3>2, <2>1, <1>2, <1>6
  <2>2. CASE m = Len(t) + 1
    BY <2>2, <1>2, <1>6
  <2> QED
    BY <2>1, <2>2, <1>7
<1>13. Holds(to, u)
  BY <1>3, <1>11, <1>12 DEF Holds
<1>14. Pending(to, f, p, n + 1)
  BY <1>1, <1>2, <1>3, <1>4 DEF WritingTo, Pending
<1>15. Fulfils(u, b, q, n)
  BY <1>6, <1>7, <1>8 DEF Fulfils
<1>16. ASSUME NEW id, id # b, NEW j, Fulfils(t, id, q, j) PROVE Fulfils(u, id, q, j)
  BY <1>6, <1>7, <1>16 DEF Fulfils
<1>17. \A j \in 1..Len(q) : j < n \/ f[j] # NoId => at[j] # NoId
  BY <1>1, <1>3 DEF WritingTo, Pending, Served
<1>18. \A j \in 1..Len(q) : j < n \/ f[j] # NoId => Fulfils(t, at[j], q, j)
  BY <1>1, <1>3 DEF WritingTo, Served
<1>19. Served(to, f, u, q, n + 1)
  <2> SUFFICES ASSUME NEW j \in 1..Len(q)
               PROVE  /\ j < n + 1 => to[j] # NoId
                      /\ j < n + 1 \/ f[j] # NoId => Fulfils(u, to[j], q, j)
    BY <1>3 DEF Served
  <2>1. CASE j = n
    BY <2>1, <1>2, <1>15
  <2>2. CASE j # n
    BY <2>2, <1>2, <1>4, <1>9, <1>16, <1>17, <1>18
  <2> QED
    BY <2>1, <2>2
<1> QED
  BY <1>2, <1>10, <1>13, <1>14, <1>19 DEF Writing, WritingTo

\* When every request is served, the own objects are the requested ones.
LEMMA WritingMatches ==
  ASSUME NEW t, NEW q \in Seq(Rule), NEW f, NEW p, NEW n \in Nat, n > Len(q),
         Writing(f, p, t, q, n)
  PROVE  Matched(t, q)
<1>1. PICK at \in [1..Len(q) -> Nat] : WritingTo(at, f, p, t, q, n)
  BY DEF Writing
<1>2. \A j \in 1..Len(q) : j < n
  OBVIOUS
<1>3. \A j \in 1..Len(q) : at[j] # NoId /\ Fulfils(t, at[j], q, j)
  BY <1>1, <1>2 DEF WritingTo, Served
<1>4. at \in [1..Len(q) -> Nat \ {NoId}]
  BY <1>3
<1> QED
  BY <1>1, <1>3, <1>4 DEF WritingTo, Matched

-----------------------------------------------------------------------------
(***************************************************************************)
(* What Sync knows while nobody else changes the table is inductive.       *)
(***************************************************************************)
LEMMA KnownTypes ==
  ASSUME Known
  PROVE  /\ table \in Seq(Object) /\ reqs \in Seq(Rule) /\ Len(table) \in Nat /\ Len(reqs) \in Nat
         /\ resp \in Seq(Object) /\ Len(resp) \in Nat
         /\ found \in Seq(Nat) /\ patchable \in Seq(Nat) /\ conflicts \in Seq(Nat)
         /\ next \in Nat /\ next \in 1..(Len(reqs) + 1)
         /\ pc # "idle" => Len(found) = Len(reqs) /\ Len(patchable) = Len(reqs)
         /\ pc \in {"idle", "match", "delete", "write"} /\ calm \in BOOLEAN
BY DEF Known, BaseInv, TypeOK

LEMMA CalmGet == Known /\ Get => CalmInv'
<1> SUFFICES ASSUME Known, Get PROVE CalmInv'
  OBVIOUS
<1> DEFINE none == [j \in 1..Len(reqs) |-> NoId]
<1>1. /\ found' = none /\ patchable' = none /\ resp' = table /\ pc' = "match" /\ conflicts' = conflicts
      /\ table' = table /\ reqs' = reqs /\ next' = next /\ pc = "idle"
  BY DEF Get
<1>2. conflicts = << >> /\ next = 1
  BY <1>1 DEF Known, BaseInv
<1>3. Len(none) = Len(reqs) /\ \A j \in 1..Len(reqs) : none[j] = NoId
  BY KnownTypes
<1> HIDE DEF none
<1>4. \A x : ~In(conflicts, x)
  BY <1>2 DEF In
<1>5. OnePlace(none, none, conflicts)
  BY <1>2, <1>3, <1>4 DEF OnePlace, Once, Apart, NoneIsNoId
<1>6. Matching(none, none, conflicts, table, 0, reqs)
  BY <1>2, <1>3, <1>5 DEF Matching, Placed, Backed, FoundRight
<1>7. Rest(table, table, 0) /\ 0 \in 0..Len(table)
  BY KnownTypes DEF Rest
<1>8. Sorted(none, none, next)
  BY <1>2 DEF Sorted
<1> QED
  BY <1>1, <1>6, <1>7, <1>8 DEF CalmInv

\* One more object of the answer is behind.
LEMMA RestMoves ==
  ASSUME NEW t \in Seq(Object), NEW r \in Seq(Object), r # << >>, NEW d \in 0..Len(t), Rest(r, t, d)
  PROVE  /\ d \in Nat /\ d < Len(t) /\ d + 1 \in 0..Len(t)
         /\ Head(r) = t[d + 1] /\ Rest(Tail(r), t, d + 1)
<1>1. Tailed(r, Tail(r)) /\ Head(r) = r[1] /\ Tail(r) \in Seq(Object)
  BY TailIsTailed
<1>2. /\ Len(t) \in Nat /\ Len(r) \in Nat /\ Len(Tail(r)) \in Nat /\ Len(r) = Len(Tail(r)) + 1
      /\ d + Len(r) = Len(t) /\ d \in Nat
  BY <1>1 DEF Tailed, Rest
<1>3. Head(r) = t[d + 1] /\ d < Len(t)
  BY <1>1, <1>2 DEF Rest
<1>4. ASSUME NEW i \in 1..Len(Tail(r)) PROVE Tail(r)[i] = t[d + 1 + i]
  <2>1. i + 1 \in 1..Len(r) /\ Tail(r)[i] = r[i + 1]
    BY <1>1, <1>2 DEF Tailed
  <2>2. r[i + 1] = t[d + (i + 1)] /\ d + (i + 1) = d + 1 + i
    BY <2>1, <1>2 DEF Rest
  <2> QED
    BY <2>1, <2>2
<1> QED
  BY <1>2, <1>3, <1>4 DEF Rest

LEMMA CalmMatchNext == Known /\ CalmInv /\ MatchNext => CalmInv'
<1> SUFFICES ASSUME Known, CalmInv, MatchNext, calm' PROVE CalmInv'
  BY DEF CalmInv
<1>1. /\ pc = "match" /\ resp # << >> /\ resp' = Tail(resp) /\ pc' = pc
      /\ table' = table /\ reqs' = reqs /\ next' = next /\ calm
  BY DEF MatchNext
<1>2. PICK d \in 0..Len(table) :
         Rest(resp, table, d) /\ Matching(found, patchable, conflicts, table, d, reqs)
  BY <1>1 DEF CalmInv
<1>3. /\ d \in Nat /\ d < Len(table) /\ d + 1 \in 0..Len(table)
      /\ Head(resp) = table[d + 1] /\ Rest(Tail(resp), table, d + 1)
  BY <1>1, <1>2, KnownTypes, RestMoves
<1> DEFINE o == table[d + 1]
<1>9. d + 1 \in 1..Len(table)
  BY <1>3, KnownTypes
<1>4. o.id \in Nat
  BY <1>9, KnownTypes, TableObjects
<1>5. Distinct(table)
  BY KnownTable
<1> HIDE DEF o
<1>6. Matching(found', patchable', conflicts', table, d + 1, reqs)
  <2>1. CASE ~o.own
    <3>1. found' = found /\ patchable' = patchable /\ conflicts' = conflicts
      BY <2>1, <1>3 DEF MatchNext, Accepted, matching, o
    <3> QED
      BY <3>1, <2>1, <1>2, <1>3, KnownTypes, MatchingSkips DEF o
  <2>2. CASE o.own
    <3>1. Match(o)
      BY <2>2, <1>3 DEF MatchNext, Accepted, o
    <3>2. CASE conflicts' = Append(conflicts, o.id) /\ found' = found /\ patchable' = patchable
      <4>1. conflicts' \in Seq(Nat) /\ Appended(conflicts, conflicts', o.id)
        BY <3>2, <1>4, KnownTypes, AppendIsAppended
      <4> QED
        BY <4>1, <3>2, <2>2, <1>2, <1>3, <1>5, KnownTypes, MatchingConflicts DEF o
    <3>3. CASE \E j \in 1..Len(reqs) :
                 /\ Finds(o, j)
                 /\ found' = [found EXCEPT ![j] = o.id] /\ patchable' = patchable /\ conflicts' = conflicts
      <4>1. PICK j \in 1..Len(found) : Finds(o, j) /\ found' = [found EXCEPT ![j] = o.id]
        BY <3>3, <1>1, KnownTypes
      <4>2. found' \in Seq(Nat) /\ SetAt(found, found', j, o.id)
        BY <4>1, <1>4, KnownTypes, ExceptIsSetAt
      <4>3. found[j] = NoId /\ o.rule = reqs[j]
        BY <4>1 DEF Finds
      <4>4. Matching(found', patchable, conflicts, table, d + 1, reqs)
        BY <4>2, <4>3, <2>2, <1>2, <1>3, <1>5, KnownTypes, MatchingFinds DEF o
      <4> QED
        BY <4>4, <3>3
    <3>4. CASE \E j \in 1..Len(reqs) :
                 /\ Patches(o, j)
                 /\ patchable' = [patchable EXCEPT ![j] = o.id] /\ found' = found /\ conflicts' = conflicts
      <4>1. PICK j \in 1..Len(patchable) : Patches(o, j) /\ patchable' = [patchable EXCEPT ![j] = o.id]
        BY <3>4, <1>1, KnownTypes
      <4>2. patchable' \in Seq(Nat) /\ SetAt(patchable, patchable', j, o.id)
        BY <4>1, <1>4, KnownTypes, ExceptIsSetAt
      <4>3. patchable[j] = NoId
        BY <4>1 DEF Patches
      <4>4. Matching(found, patchable', conflicts, table, d + 1, reqs)
        BY <4>2, <4>3, <2>2, <1>2, <1>3, <1>5, KnownTypes, MatchingPatches DEF o
      <4> QED
        BY <4>4, <3>4
    <3> QED
      BY <3>1, <3>2, <3>3, <3>4, MatchCases
  <2> QED
    BY <2>1, <2>2
<1>7. next = 1
  BY <1>1 DEF Known, BaseInv
<1>8. Sorted(found', patchable', next)
  BY <1>7 DEF Sorted
<1> QED
  BY <1>1, <1>3, <1>6, <1>8 DEF CalmInv

LEMMA CalmSortOut == Known /\ CalmInv /\ SortOut => CalmInv'
<1> SUFFICES ASSUME Known, CalmInv, SortOut, calm' PROVE CalmInv'
  BY DEF CalmInv
<1>1. /\ pc = "match" /\ resp = << >> /\ resp' = resp /\ pc' = pc /\ next <= Len(reqs) /\ next' = next + 1
      /\ table' = table /\ reqs' = reqs /\ found' = found /\ calm
  BY DEF SortOut
<1>2. PICK d \in 0..Len(table) :
         Rest(resp, table, d) /\ Matching(found, patchable, conflicts, table, d, reqs)
  BY <1>1 DEF CalmInv
<1>3. Sorted(found, patchable, next)
  BY <1>1 DEF CalmInv
<1>4. next \in 1..Len(found) /\ next \in 1..Len(patchable) /\ Len(found) = Len(patchable)
      /\ patchable[next] \in Nat /\ NoId \in Nat /\ d \in Nat /\ d <= Len(table)
  BY <1>1, KnownTypes DEF NoId
<1>5. \A j \in 1..Len(found) : j < next + 1 => j < next \/ j = next
  BY <1>4
<1>6. CASE Superfluous(next)
  <2>1. /\ patchable[next] # NoId
        /\ conflicts' = Append(conflicts, patchable[next])
        /\ patchable' = [patchable EXCEPT ![next] = NoId]
    BY <1>6 DEF SortOut, Superfluous
  <2>2. patchable' \in Seq(Nat) /\ SetAt(patchable, patchable', next, NoId)
    BY <2>1, <1>4, KnownTypes, ExceptIsSetAt
  <2>3. conflicts' \in Seq(Nat) /\ Appended(conflicts, conflicts', patchable[next])
    BY <2>1, <1>4, KnownTypes, AppendIsAppended
  <2>4. Matching(found, patchable', conflicts', table, d, reqs)
    BY <2>1, <2>2, <2>3, <1>2, <1>4, KnownTypes, MatchingSorts
  <2>5. Sorted(found, patchable', next + 1)
    BY <2>2, <1>3, <1>4, <1>5 DEF Sorted, SetAt
  <2> QED
    BY <2>4, <2>5, <1>1, <1>2 DEF CalmInv
<1>7. CASE ~Superfluous(next)
  <2>1. conflicts' = conflicts /\ patchable' = patchable
    BY <1>7 DEF SortOut
  <2>2. Sorted(found, patchable, next + 1)
    BY <1>3, <1>5, <1>7 DEF Sorted, Superfluous
  <2> QED
    BY <2>1, <2>2, <1>1, <1>2 DEF CalmInv
<1> QED
  BY <1>6, <1>7

\* The whole answer has been matched and sorted out.
LEMMA MatchingComplete ==
  ASSUME Known, CalmInv, calm, pc = "match", resp = << >>
  PROVE  Matching(found, patchable, conflicts, table, Len(table), reqs)
<1>1. PICK d \in 0..Len(table) :
         Rest(resp, table, d) /\ Matching(found, patchable, conflicts, table, d, reqs)
  BY DEF CalmInv
<1>2. d = Len(table)
  BY <1>1, KnownTypes, EmptySequence DEF Rest
<1> QED
  BY <1>1, <1>2

LEMMA CalmMatchDone == Known /\ CalmInv /\ MatchDone => CalmInv'
<1> SUFFICES ASSUME Known, CalmInv, MatchDone, calm' PROVE CalmInv'
  BY DEF CalmInv
<1>1. /\ pc = "match" /\ resp = << >> /\ pc' = "delete" /\ next > Len(reqs) /\ calm
      /\ UNCHANGED <<table, reqs, found, patchable, conflicts>>
  BY DEF MatchDone, matching
<1>2. Sorted(found, patchable, next)
  BY <1>1 DEF CalmInv
<1>3. \A j \in 1..Len(found) : j < next
  BY <1>1, KnownTypes
<1>4. Sorted(found, patchable, Len(reqs) + 1)
  BY <1>2, <1>3 DEF Sorted
<1> QED
  BY <1>1, <1>4, MatchingComplete DEF CalmInv

LEMMA CalmDelete == Known /\ CalmInv /\ Delete => CalmInv'
<1> SUFFICES ASSUME Known, CalmInv, Delete, calm' PROVE CalmInv'
  BY DEF CalmInv
<1>1. pc = "delete" /\ conflicts # << >> /\ reqs' = reqs /\ nextId' = nextId /\ calm
  BY DEF Delete
<1>2. CASE Remove(Head(conflicts)) /\ conflicts' = Tail(conflicts) /\ UNCHANGED <<pc, found, patchable>>
  <2>1. Matching(found, patchable, conflicts, table, Len(table), reqs) /\ Sorted(found, patchable, Len(reqs) + 1)
    BY <1>1 DEF CalmInv
  <2>2. StepKeeps /\ table' \in Seq(Object)
    BY <1>1, <1>2, RemoveStep DEF StepKeeps
  <2>3. PICK k \in 1..Len(table) : table[k].id = Head(conflicts) /\ Removed(table, table', k)
    BY <1>1, <1>2, RemoveStep
  <2>4. conflicts' \in Seq(Nat) /\ Tailed(conflicts, conflicts') /\ Head(conflicts) = conflicts[1]
    BY <1>1, <1>2, KnownTypes, TailIsTailed
  <2>5. Matching(found, patchable, conflicts', table', Len(table'), reqs)
    BY <2>1, <2>2, <2>3, <2>4, <1>1, KnownTypes, KnownTable, MatchingDeletes
  <2> QED
    BY <2>1, <2>5, <1>1, <1>2 DEF CalmInv
<1>3. CASE pc' = "idle"
  BY <1>3 DEF CalmInv
<1> QED
  BY <1>2, <1>3 DEF Delete, Abort, End

LEMMA CalmDeletesDone == Known /\ CalmInv /\ DeletesDone => CalmInv'
<1> SUFFICES ASSUME Known, CalmInv, DeletesDone, calm' PROVE CalmInv'
  BY DEF CalmInv
<1>1. /\ pc = "delete" /\ conflicts = << >> /\ pc' = "write" /\ calm
      /\ UNCHANGED <<table, reqs, found, patchable, next>>
  BY DEF DeletesDone, matching
<1>2. Matching(found, patchable, conflicts, table, Len(table), reqs) /\ Sorted(found, patchable, Len(reqs) + 1)
  BY <1>1 DEF CalmInv
<1>3. next = 1
  BY <1>1 DEF Known, BaseInv
<1>4. Writing(found, patchable, table, reqs, 1)
  BY <1>1, <1>2, KnownTypes, WritingStarts
<1> QED
  BY <1>1, <1>3, <1>4 DEF CalmInv

LEMMA CalmWrite == Known /\ CalmInv /\ Write => CalmInv'
<1> SUFFICES ASSUME Known, CalmInv, Write, calm' PROVE CalmInv'
  BY DEF CalmInv
<1>1. pc = "write" /\ next <= Len(reqs) /\ UNCHANGED <<reqs, calm>> /\ calm
  BY WriteCases
<1>2. CASE pc' = "idle"
  BY <1>2 DEF CalmInv
<1>3. CASE (Keep \/ Patch \/ Put) /\ next' = next + 1 /\ UNCHANGED <<pc, found, patchable>>
  <2>1. Writing(found, patchable, table, reqs, next) /\ next \in 1..Len(reqs)
    BY <1>1, KnownTypes DEF CalmInv
  <2>2. Writing(found, patchable, table', reqs, next + 1)
    <3>1. CASE Keep
      BY <3>1, <2>1, KnownTypes, WritingKeeps DEF Keep
    <3>2. CASE Patch
      <4>1. table' \in Seq(Object) /\ Rewritten(table, table', patchable[next], reqs[next])
        BY <3>2, <1>1, PatchStep DEF StepKeeps
      <4> QED
        BY <4>1, <3>2, <2>1, KnownTypes, WritingPatches DEF Patch
    <3>3. CASE Put
      <4> DEFINE o == [id |-> nextId, own |-> TRUE, rule |-> reqs[next]]
      <4>1. table' \in Seq(Object) /\ Appended(table, table', o)
        BY <3>3, <1>1, PutStep DEF StepKeeps
      <4>2. o.id = nextId /\ o.own /\ o.rule = reqs[next]
        OBVIOUS
      <4> HIDE DEF o
      <4> QED
        BY <4>1, <4>2, <3>3, <2>1, KnownTypes, KnownTable, WritingPuts DEF Put
    <3> QED
      BY <3>1, <3>2, <3>3, <1>3
  <2> QED
    BY <2>2, <1>1, <1>3 DEF CalmInv
<1> QED
  BY <1>2, <1>3, WriteCases DEF Abort, End

LEMMA CalmNext == Known /\ CalmInv /\ [Next]_vars => CalmInv'
<1> SUFFICES ASSUME Known, CalmInv, [Next]_vars PROVE CalmInv'
  OBVIOUS
<1>1. CASE UNCHANGED vars
  BY <1>1 DEF vars, matching, CalmInv
<1>2. CASE ChangeRequests \/ Administrate
  BY <1>2 DEF ChangeRequests, Administrate, CalmInv
<1>3. CASE Return \/ Crash
  BY <1>3 DEF Return, Crash, Abort, End, CalmInv
<1> QED
  BY <1>1, <1>2, <1>3, CalmGet, CalmMatchNext, CalmSortOut, CalmMatchDone, CalmDelete, CalmDeletesDone,
     CalmWrite DEF Next, Sync

(***************************************************************************)
(* What Sync knows, for every list of requests, in whatever order edits,   *)
(* faults and calls come.                                                  *)
(***************************************************************************)
THEOREM SyncInvariant == Spec => []SyncInv
<1>1. Init => Known /\ CalmInv
  BY KnownInit DEF Init, CalmInv
<1>2. Known /\ CalmInv /\ [Next]_vars => (Known /\ CalmInv)'
  BY KnownNext, CalmNext
<1>3. Known /\ CalmInv => SyncInv
  BY DEF Known, SyncInv
<1> QED
  BY <1>1, <1>2, <1>3, PTL DEF Spec

-----------------------------------------------------------------------------
(***************************************************************************)
(* From the matching of objects and requests to their numbers.             *)
(***************************************************************************)
ExactlyFor(t, q, rule) ==
  Cardinality({n \in {m \in 1..Len(t) : t[m].own} : t[n].rule = rule})
    = Cardinality({j \in 1..Len(q) : q[j] = rule})

LEMMA MatchedCounts ==
  ASSUME NEW t \in Seq(Object), Distinct(t), NEW q \in Seq(Rule), Matched(t, q), NEW rule
  PROVE  ExactlyFor(t, q, rule)
<1> DEFINE S == {n \in {m \in 1..Len(t) : t[m].own} : t[n].rule = rule}
           J == {j \in 1..Len(q) : q[j] = rule}
<1>1. PICK at \in [1..Len(q) -> Nat \ {NoId}] :
         Injective(at) /\ Holds(at, t) /\ \A j \in DOMAIN at : Fulfils(t, at[j], q, j)
  BY DEF Matched
<1>2. DOMAIN at = 1..Len(q) /\ \A j \in 1..Len(q) : at[j] # NoId
  OBVIOUS
<1> DEFINE h == [j \in J |-> CHOOSE n \in 1..Len(t) : t[n].own /\ t[n].id = at[j]]
<1>3. ASSUME NEW j \in 1..Len(q) PROVE \E n \in 1..Len(t) : t[n].own /\ t[n].id = at[j]
  BY <1>1, <1>2 DEF Holds, OwnId
<1>4. \A j \in J : h[j] \in 1..Len(t) /\ t[h[j]].own /\ t[h[j]].id = at[j]
  BY <1>3
<1> HIDE DEF h
<1>5. \A j \in J : h[j] \in S
  BY <1>1, <1>2, <1>4 DEF Fulfils
<1>6. h \in [J -> S]
  BY <1>5 DEF h
<1>7. \A i, j \in J : h[i] = h[j] => i = j
  BY <1>1, <1>2, <1>4 DEF Injective
<1>8. \A n \in S : \E j \in J : h[j] = n
  <2> TAKE n \in S
  <2>1. PICK j \in 1..Len(q) : at[j] = t[n].id
    BY <1>1, <1>2 DEF Holds
  <2>2. t[n].rule = q[j]
    BY <2>1, <1>1, <1>2 DEF Fulfils
  <2>3. j \in J
    BY <2>2
  <2>4. h[j] = n
    BY <2>1, <2>3, <1>4 DEF Distinct
  <2> QED
    BY <2>3, <2>4
<1>9. h \in Injection(J, S)
  BY <1>6, <1>7 DEF Injection, IsInjective
<1>10. h \in Surjection(J, S)
  BY <1>6, <1>8 DEF Surjection
<1>11. ExistsBijection(J, S)
  BY <1>9, <1>10 DEF ExistsBijection, Bijection
<1>12. IsFiniteSet(J)
  <2>1. Len(q) \in Int /\ 1 \in Int
    OBVIOUS
  <2>2. IsFiniteSet(1..Len(q))
    BY <2>1, FS_Interval
  <2> QED
    BY <2>2, FS_Subset
<1>13. Cardinality(S) = Cardinality(J)
  BY <1>11, <1>12, FS_Bijection
<1> QED
  BY <1>13 DEF ExactlyFor

LEMMA MatchedInSync ==
  /\ Known /\ Matched(table, reqs) => InSync
  /\ Known' /\ Matched(table', reqs') => InSync'
<1>1. ASSUME NEW t \in Seq(Object), Distinct(t), NEW q \in Seq(Rule), Matched(t, q)
      PROVE  \A rule \in Rule : ExactlyFor(t, q, rule)
  BY <1>1, MatchedCounts
<1>2. Known => table \in Seq(Object) /\ Distinct(table) /\ reqs \in Seq(Rule)
  BY KnownTable, KnownTypes
<1>3. Known' => table' \in Seq(Object) /\ Distinct(table') /\ reqs' \in Seq(Rule)
  BY DEF Known, BaseInv, TypeOK, IdInv
<1> QED
  BY <1>1, <1>2, <1>3 DEF InSync, Own, ExactlyFor

\* Sync returns and nobody has interfered with it: the table is as requested.
ReturnsInSync == [][Return /\ calm => InSync']_vars

(***************************************************************************)
(* Whatever requests it is called with and whatever earlier attempts have  *)
(* left behind, a Sync that returns without an error and that nobody       *)
(* interfered with leaves exactly the requested objects.                   *)
(***************************************************************************)
THEOREM SyncReturnsInSync == Spec => ReturnsInSync
<1>1. SyncInv /\ [Next]_vars => (Return /\ calm => InSync')
  <2> SUFFICES ASSUME SyncInv, Return, calm PROVE InSync'
    OBVIOUS
  <2>1. Known /\ CalmInv
    BY DEF SyncInv, Known
  <2>2. pc = "write" /\ next > Len(reqs) /\ table' = table /\ reqs' = reqs
    BY DEF Return
  <2>3. Writing(found, patchable, table, reqs, next)
    BY <2>1, <2>2 DEF CalmInv
  <2>4. Matched(table, reqs)
    BY <2>1, <2>2, <2>3, KnownTypes, WritingMatches
  <2>5. Known'
    BY <2>1, KnownReturn
  <2> QED
    BY <2>2, <2>4, <2>5, MatchedInSync
<1> QED
  BY <1>1, SyncInvariant, PTL DEF Spec, ReturnsInSync

-----------------------------------------------------------------------------
(***************************************************************************)
(* A Sync of what is there already.  The objects with a key stay the same  *)
(* when an object with another key is removed, rewritten or created.       *)
(***************************************************************************)
LEMMA HavingMember ==
  ASSUME NEW t, NEW key, NEW x
  PROVE  x \in Having(t, key) <=>
           \E m \in 1..Len(t) : t[m].own /\ t[m].rule.key = key /\ x = t[m]
BY DEF Having

LEMMA HavingKept ==
  ASSUME NEW t, NEW u, NEW key,
         \A m \in 1..Len(t) : t[m].own /\ t[m].rule.key = key => \E n \in 1..Len(u) : u[n] = t[m],
         \A n \in 1..Len(u) : u[n].own /\ u[n].rule.key = key => \E m \in 1..Len(t) : t[m] = u[n]
  PROVE  Having(u, key) = Having(t, key)
<1>1. \A x \in Having(t, key) : x \in Having(u, key)
  BY HavingMember
<1>2. \A x \in Having(u, key) : x \in Having(t, key)
  BY HavingMember
<1> QED
  BY <1>1, <1>2

LEMMA HavingRemoved ==
  ASSUME NEW t \in Seq(Object), NEW u \in Seq(Object), NEW k \in 1..Len(t), Removed(t, u, k),
         NEW key, ~(t[k].own /\ t[k].rule.key = key)
  PROVE  Having(u, key) = Having(t, key)
<1>1. /\ \A n \in 1..Len(u) : \E m \in 1..Len(t) : m # k /\ u[n] = t[m]
      /\ \A m \in 1..Len(t) : m # k => \E n \in 1..Len(u) : u[n] = t[m]
  BY RemovedObjects
<1>2. \A m \in 1..Len(t) : t[m].own /\ t[m].rule.key = key => m # k
  OBVIOUS
<1>3. \A m \in 1..Len(t) : t[m].own /\ t[m].rule.key = key => \E n \in 1..Len(u) : u[n] = t[m]
  BY <1>1, <1>2
<1>4. \A n \in 1..Len(u) : u[n].own /\ u[n].rule.key = key => \E m \in 1..Len(t) : t[m] = u[n]
  <2> TAKE n \in 1..Len(u)
  <2>1. PICK m \in 1..Len(t) : u[n] = t[m]
    BY <1>1
  <2> QED
    BY <2>1
<1> QED
  BY <1>3, <1>4, HavingKept

LEMMA HavingRewritten ==
  ASSUME NEW t, NEW u, NEW id, NEW rule, Rewritten(t, u, id, rule),
         NEW key, rule.key # key,
         \A m \in 1..Len(t) : t[m].own /\ t[m].rule.key = key => t[m].id # id
  PROVE  Having(u, key) = Having(t, key)
<1>1. /\ Len(u) = Len(t)
      /\ \A n \in 1..Len(t) : u[n].rule = IF t[n].id = id THEN rule ELSE t[n].rule
      /\ \A n \in 1..Len(t) : t[n].id # id => u[n] = t[n]
  BY DEF Rewritten
<1>2. \A m \in 1..Len(t) : t[m].own /\ t[m].rule.key = key => m \in 1..Len(u) /\ u[m] = t[m]
  BY <1>1
<1>3. \A n \in 1..Len(u) : u[n].own /\ u[n].rule.key = key => n \in 1..Len(t) /\ t[n] = u[n]
  BY <1>1
<1> QED
  BY <1>2, <1>3, HavingKept

LEMMA HavingAppended ==
  ASSUME NEW t \in Seq(Object), NEW u \in Seq(Object), NEW o, Appended(t, u, o),
         NEW key, o.rule.key # key
  PROVE  Having(u, key) = Having(t, key)
<1>1. /\ Len(t) \in Nat /\ Len(u) = Len(t) + 1 /\ u[Len(t) + 1] = o
      /\ \A m \in 1..Len(t) : u[m] = t[m]
  BY DEF Appended
<1>2. \A m \in 1..Len(t) : m \in 1..Len(u) /\ u[m] = t[m]
  BY <1>1
<1>3. \A n \in 1..Len(u) : u[n].rule.key = key => n \in 1..Len(t) /\ t[n] = u[n]
  BY <1>1
<1> QED
  BY <1>2, <1>3, HavingKept

\* A request alone with its key has its object, and no other object has the key.
LEMMA MatchedHas ==
  ASSUME NEW t, Distinct(t), NEW q \in Seq(Rule), Matched(t, q),
         NEW j \in 1..Len(q), Alone(q, j)
  PROVE  \E o \in Having(t, q[j].key) : Having(t, q[j].key) = {o} /\ o.rule = q[j]
<1>1. PICK at \in [1..Len(q) -> Nat \ {NoId}] :
         Injective(at) /\ Holds(at, t) /\ \A i \in DOMAIN at : Fulfils(t, at[i], q, i)
  BY DEF Matched
<1>2. DOMAIN at = 1..Len(q) /\ \A i \in 1..Len(q) : at[i] # NoId
  OBVIOUS
<1>3. PICK m \in 1..Len(t) : t[m].own /\ t[m].id = at[j]
  BY <1>1, <1>2 DEF Holds, OwnId
<1>4. t[m].rule = q[j]
  BY <1>1, <1>2, <1>3 DEF Fulfils
<1>5. t[m] \in Having(t, q[j].key)
  BY <1>3, <1>4, HavingMember
<1>6. ASSUME NEW n \in 1..Len(t), t[n].own, t[n].rule.key = q[j].key PROVE n = m
  <2>1. PICK i \in 1..Len(q) : at[i] = t[n].id
    BY <1>1, <1>2, <1>6 DEF Holds
  <2>2. t[n].rule = q[i]
    BY <2>1, <1>1, <1>2 DEF Fulfils
  <2>3. i = j
    BY <2>2, <1>6 DEF Alone
  <2> QED
    BY <2>1, <2>3, <1>3 DEF Distinct
<1>7. \A x \in Having(t, q[j].key) : x = t[m]
  BY <1>6, HavingMember
<1> QED
  BY <1>4, <1>5, <1>7

-----------------------------------------------------------------------------
(***************************************************************************)
(* What is settled for request j, alone with its key, stays settled.       *)
(***************************************************************************)
Quiet(j, o) ==
  /\ Known /\ CalmInv /\ calm
  /\ j \in 1..Len(reqs) /\ Alone(reqs, j)
  /\ o \in Having(table, reqs[j].key) /\ Settled(j, o)

\* Its object is the only own one with the key, and the only one with its .id.
LEMMA QuietObject ==
  ASSUME NEW j, NEW o, Quiet(j, o)
  PROVE  /\ o.own /\ o.rule = reqs[j] /\ o.id \in Nat /\ o.id # NoId
         /\ \E m \in 1..Len(table) : o = table[m]
         /\ \A n \in 1..Len(table) : table[n].id = o.id => table[n] = o
         /\ \A n \in 1..Len(table) : table[n].own /\ table[n].rule.key = reqs[j].key => table[n] = o
<1>1. PICK m \in 1..Len(table) : table[m].own /\ table[m].rule.key = reqs[j].key /\ o = table[m]
  BY HavingMember DEF Quiet
<1>2. o.id \in Nat /\ o.id # NoId
  BY <1>1, KnownTypes, TableObjects DEF Quiet
<1>3. \A n \in 1..Len(table) : table[n].id = o.id => n = m
  BY <1>1, KnownTable DEF Quiet, Distinct
<1>4. \A n \in 1..Len(table) : table[n].own /\ table[n].rule.key = reqs[j].key => table[n] = o
  BY HavingMember DEF Quiet, Settled
<1> QED
  BY <1>1, <1>2, <1>3, <1>4 DEF Quiet, Settled

LEMMA QuietGet ==
  ASSUME NEW j, NEW o, Quiet(j, o), Get
  PROVE  Settled(j, o)'
<1> DEFINE none == [i \in 1..Len(reqs) |-> NoId]
<1>1. /\ patchable' = none /\ pc' = "match" /\ conflicts' = conflicts /\ pc = "idle"
      /\ table' = table /\ reqs' = reqs
  BY DEF Get
<1>2. \A x : ~In(conflicts, x)
  BY <1>1 DEF Quiet, Known, BaseInv, In
<1>3. Len(none) = Len(reqs) /\ \A i \in 1..Len(reqs) : none[i] = NoId
  BY KnownTypes DEF Quiet
<1>4. o.id # NoId
  BY QuietObject
<1> HIDE DEF none
<1>5. none[j] = NoId /\ ~In(none, o.id)
  BY <1>3, <1>4 DEF In, Quiet
<1> QED
  BY <1>1, <1>2, <1>5 DEF Quiet, Settled

\* An object with another key takes other places, and the settled one is found.
LEMMA QuietMatchNext ==
  ASSUME NEW j, NEW o, Quiet(j, o), MatchNext
  PROVE  Settled(j, o)'
<1>1. /\ pc = "match" /\ resp # << >> /\ pc' = pc /\ calm
      /\ table' = table /\ reqs' = reqs
  BY DEF MatchNext, Quiet
<1>2. PICK d \in 0..Len(table) :
         Rest(resp, table, d) /\ Matching(found, patchable, conflicts, table, d, reqs)
  BY <1>1 DEF CalmInv, Quiet
<1>3. d \in Nat /\ d < Len(table) /\ Head(resp) = table[d + 1] /\ d + 1 \in 1..Len(table)
  BY <1>1, <1>2, KnownTypes, RestMoves DEF Quiet
<1> DEFINE x == table[d + 1]
<1>4. x.id \in Nat
  BY <1>3, KnownTypes, TableObjects DEF Quiet
<1>5. j \in 1..Len(reqs) /\ Alone(reqs, j) /\ o.rule = reqs[j] /\ o.id # NoId
      /\ patchable[j] = NoId /\ ~In(patchable, o.id) /\ ~In(conflicts, o.id)
  BY <1>1, QuietObject DEF Quiet, Settled
<1>6. /\ patchable \in Seq(Nat) /\ conflicts \in Seq(Nat)
      /\ Len(patchable) = Len(reqs) /\ Len(found) = Len(reqs)
  BY <1>1, KnownTypes DEF Quiet
<1>7. ASSUME x.own, x.rule.key = reqs[j].key PROVE Finds(x, j)
  <2>1. x = o
    BY <1>3, <1>7, QuietObject
  <2>2. found[j] = NoId
    <3> SUFFICES ASSUME found[j] # NoId PROVE FALSE
      OBVIOUS
    <3>1. j \in 1..Len(found)
      BY <1>5, <1>6
    <3>2. PICK n \in 1..d : table[n].own /\ table[n].id = found[j]
      BY <3>1, <1>2 DEF Matching, Backed, OwnId
    <3>3. n \in 1..Len(table) /\ n # d + 1
      BY <1>3, KnownTypes
    <3>4. table[n].rule = reqs[j]
      BY <3>1, <3>2, <3>3, <1>2 DEF Matching, FoundRight, Fulfils
    <3>5. table[n] = x
      BY <3>2, <3>3, <3>4, <2>1, QuietObject
    <3> QED
      BY <3>3, <3>5, <1>3, KnownTable DEF Distinct, Quiet
  <2> QED
    BY <2>1, <2>2, <1>5 DEF Finds
<1>8. x.own /\ x.rule.key # reqs[j].key => x.id # o.id
  BY <1>3, <1>5, QuietObject
<1> HIDE DEF x
<1>9. patchable'[j] = NoId /\ ~In(patchable', o.id) /\ ~In(conflicts', o.id)
  <2>1. CASE ~x.own
    <3>1. patchable' = patchable /\ conflicts' = conflicts
      BY <2>1, <1>3 DEF MatchNext, Accepted, matching, x
    <3> QED
      BY <3>1, <1>5
  <2>2. CASE x.own
    <3>1. Match(x)
      BY <2>2, <1>3 DEF MatchNext, Accepted, x
    <3>2. CASE /\ \A i \in 1..Len(reqs) : ~Finds(x, i) /\ ~Patches(x, i)
               /\ conflicts' = Append(conflicts, x.id) /\ patchable' = patchable
      <4>1. x.id # o.id
        BY <2>2, <3>2, <1>5, <1>7, <1>8
      <4>2. conflicts' \in Seq(Nat) /\ Appended(conflicts, conflicts', x.id)
        BY <3>2, <1>4, <1>6, AppendIsAppended
      <4>3. ~In(conflicts', o.id)
        BY <4>1, <4>2, <1>5, <1>6, InAppended
      <4> QED
        BY <4>3, <3>2, <1>5
    <3>3. CASE patchable' = patchable /\ conflicts' = conflicts
      BY <3>3, <1>5
    <3>4. CASE \E i \in 1..Len(reqs) :
                 /\ Patches(x, i) /\ ~Finds(x, i)
                 /\ patchable' = [patchable EXCEPT ![i] = x.id] /\ conflicts' = conflicts
      <4>1. PICK i \in 1..Len(patchable) :
               Patches(x, i) /\ ~Finds(x, i) /\ patchable' = [patchable EXCEPT ![i] = x.id]
        BY <3>4, <1>6
      <4>2. x.rule.key = reqs[i].key
        BY <4>1 DEF Patches
      <4>3. i # j /\ x.rule.key # reqs[j].key
        BY <4>1, <4>2, <2>2, <1>5, <1>6, <1>7 DEF Alone
      <4>4. patchable' \in Seq(Nat) /\ SetAt(patchable, patchable', i, x.id)
        BY <4>1, <1>4, <1>6, ExceptIsSetAt
      <4>5. ~In(patchable', o.id)
        BY <4>3, <4>4, <2>2, <1>5, <1>6, <1>8, InSetAt
      <4>6. patchable'[j] = NoId
        BY <4>3, <4>4, <1>5, <1>6 DEF SetAt
      <4> QED
        BY <4>5, <4>6, <3>4, <1>5
    <3> QED
      BY <3>1, <3>2, <3>3, <3>4, MatchCases
  <2> QED
    BY <2>1, <2>2
<1> QED
  BY <1>1, <1>9 DEF Settled, Quiet

LEMMA QuietSortOut ==
  ASSUME NEW j, NEW o, Quiet(j, o), SortOut
  PROVE  Settled(j, o)'
<1>1. /\ pc = "match" /\ pc' = pc /\ next <= Len(reqs)
      /\ table' = table /\ reqs' = reqs
  BY DEF SortOut
<1>2. /\ patchable \in Seq(Nat) /\ conflicts \in Seq(Nat)
      /\ next \in 1..Len(patchable) /\ j \in 1..Len(patchable) /\ NoId \in Nat
  BY <1>1, KnownTypes DEF Quiet, NoId
<1>3. /\ patchable[j] = NoId /\ ~In(patchable, o.id) /\ ~In(conflicts, o.id) /\ o.id # NoId
  BY <1>1, QuietObject DEF Quiet, Settled
<1>4. patchable'[j] = NoId /\ ~In(patchable', o.id) /\ ~In(conflicts', o.id)
  <2>1. CASE Superfluous(next)
    <3>1. conflicts' = Append(conflicts, patchable[next]) /\ patchable' = [patchable EXCEPT ![next] = NoId]
      BY <2>1 DEF SortOut
    <3>2. patchable[next] # o.id /\ patchable[next] \in Nat
      BY <1>2, <1>3 DEF In
    <3>3. patchable' \in Seq(Nat) /\ SetAt(patchable, patchable', next, NoId)
      BY <3>1, <1>2, ExceptIsSetAt
    <3>4. conflicts' \in Seq(Nat) /\ Appended(conflicts, conflicts', patchable[next])
      BY <3>1, <3>2, <1>2, AppendIsAppended
    <3>5. ~In(patchable', o.id)
      BY <3>3, <1>2, <1>3, InSetAt
    <3>6. ~In(conflicts', o.id)
      BY <3>2, <3>4, <1>2, <1>3, InAppended
    <3>7. patchable'[j] = NoId
      BY <3>3, <1>2, <1>3 DEF SetAt
    <3> QED
      BY <3>5, <3>6, <3>7
  <2>2. CASE ~Superfluous(next)
    BY <2>2, <1>3 DEF SortOut
  <2> QED
    BY <2>1, <2>2
<1> QED
  BY <1>1, <1>4 DEF Settled, Quiet

\* When the matching is complete, the settled object has been found.
LEMMA QuietMatchDone ==
  ASSUME NEW j, NEW o, Quiet(j, o), MatchDone
  PROVE  Settled(j, o)'
<1>1. /\ pc = "match" /\ resp = << >> /\ pc' = "delete"
      /\ UNCHANGED <<table, reqs, found, patchable, conflicts>>
  BY DEF MatchDone, matching
<1>2. Matching(found, patchable, conflicts, table, Len(table), reqs)
  BY <1>1, MatchingComplete DEF Quiet
<1>3. PICK m \in 1..Len(table) : o = table[m] /\ o.own
  BY QuietObject
<1>4. ~In(patchable, o.id) /\ ~In(conflicts, o.id) /\ o.id # NoId
  BY <1>1, QuietObject DEF Quiet, Settled
<1>5. PICK i \in 1..Len(found) : found[i] = o.id
  BY <1>2, <1>3, <1>4 DEF Matching, Placed, In
<1>6. o.rule = reqs[i]
  BY <1>2, <1>3, <1>4, <1>5 DEF Matching, FoundRight, Fulfils
<1>7. i \in 1..Len(reqs) /\ reqs[i] = reqs[j]
  BY <1>1, <1>5, <1>6, KnownTypes, QuietObject DEF Quiet
<1>8. i = j
  BY <1>7 DEF Quiet, Alone
<1>9. found[j] # NoId
  BY <1>4, <1>5, <1>8
<1> QED
  BY <1>1, <1>9 DEF Quiet, Settled

\* The end of a call: what is in the table stays settled.
LEMMA QuietEnd ==
  ASSUME NEW j, NEW o, Quiet(j, o), pc' = "idle", reqs' = reqs,
         Having(table', reqs[j].key) = Having(table, reqs[j].key)
  PROVE  Settled(j, o)'
BY DEF Quiet, Settled

\* What is deleted has another key.
LEMMA QuietDelete ==
  ASSUME NEW j, NEW o, Quiet(j, o), Delete
  PROVE  /\ Having(table', reqs[j].key) = Having(table, reqs[j].key)
         /\ Settled(j, o)'
<1> DEFINE id == Head(conflicts)
<1>1. pc = "delete" /\ conflicts # << >> /\ reqs' = reqs /\ nextId' = nextId
  BY DEF Delete
<1>2. /\ conflicts \in Seq(Nat) /\ Tail(conflicts) \in Seq(Nat)
      /\ Tailed(conflicts, Tail(conflicts)) /\ id = conflicts[1]
  BY <1>1, KnownTypes, TailIsTailed DEF Quiet
<1>3. ~In(conflicts, o.id) /\ In(conflicts, id)
  BY <1>1, <1>2, InTailed DEF Quiet, Settled
<1>4. ~In(Tail(conflicts), o.id)
  BY <1>1, <1>2, <1>3, InTailed
<1> HIDE DEF id
<1>5. ASSUME Remove(id) PROVE Having(table', reqs[j].key) = Having(table, reqs[j].key)
  <2>1. table' \in Seq(Object) /\ table \in Seq(Object)
    BY <1>1, <1>5, RemoveStep, KnownTypes DEF StepKeeps, Quiet
  <2>2. PICK k \in 1..Len(table) : table[k].id = id /\ Removed(table, table', k)
    BY <1>1, <1>5, RemoveStep DEF Quiet
  <2>3. table[k] # o
    BY <2>2, <1>3
  <2>4. ~(table[k].own /\ table[k].rule.key = reqs[j].key)
    BY <2>3, QuietObject
  <2> QED
    BY <2>1, <2>2, <2>4, HavingRemoved
<1>6. CASE Remove(id) /\ conflicts' = Tail(conflicts) /\ UNCHANGED <<pc, found, patchable>>
  BY <1>1, <1>4, <1>5, <1>6 DEF Quiet, Settled
<1>7. CASE (Remove(id) \/ table' = table) /\ pc' = "idle"
  BY <1>1, <1>5, <1>7, QuietEnd
<1> QED
  BY <1>6, <1>7 DEF Delete, Abort, End, id

\* So has what is patched or created.
LEMMA QuietWrite ==
  ASSUME NEW j, NEW o, Quiet(j, o), Write
  PROVE  /\ Having(table', reqs[j].key) = Having(table, reqs[j].key)
         /\ Settled(j, o)'
<1>1. pc = "write" /\ next <= Len(reqs) /\ reqs' = reqs
  BY WriteCases
<1>2. /\ next \in 1..Len(reqs) /\ next \in 1..Len(patchable)
      /\ found[j] # NoId /\ ~In(patchable, o.id) /\ j \in 1..Len(reqs) /\ Alone(reqs, j)
  BY <1>1, KnownTypes DEF Quiet, Settled
<1>3. found[next] = NoId => reqs[next].key # reqs[j].key
  BY <1>2 DEF Alone
<1>4. ASSUME Patch PROVE Having(table', reqs[j].key) = Having(table, reqs[j].key)
  <2>1. Rewritten(table, table', patchable[next], reqs[next])
    BY <1>1, <1>4, PatchStep DEF Quiet
  <2>2. patchable[next] # o.id
    BY <1>2 DEF In
  <2>3. \A m \in 1..Len(table) :
          table[m].own /\ table[m].rule.key = reqs[j].key => table[m].id # patchable[next]
    BY <2>2, QuietObject
  <2>4. reqs[next].key # reqs[j].key
    BY <1>3, <1>4 DEF Patch
  <2> QED
    BY <2>1, <2>3, <2>4, HavingRewritten
<1>5. ASSUME Put PROVE Having(table', reqs[j].key) = Having(table, reqs[j].key)
  <2> DEFINE new == [id |-> nextId, own |-> TRUE, rule |-> reqs[next]]
  <2>1. table' \in Seq(Object) /\ table \in Seq(Object) /\ Appended(table, table', new)
    BY <1>1, <1>5, PutStep, KnownTypes DEF Quiet, StepKeeps
  <2>2. new.rule.key # reqs[j].key
    BY <1>3, <1>5 DEF Put
  <2> HIDE DEF new
  <2> QED
    BY <2>1, <2>2, HavingAppended
<1>6. CASE (Keep \/ Patch \/ Put) /\ UNCHANGED <<pc, found, patchable, conflicts>>
  <2>1. Having(table', reqs[j].key) = Having(table, reqs[j].key)
    BY <1>4, <1>5, <1>6 DEF Keep
  <2> QED
    BY <2>1, <1>1, <1>6 DEF Quiet, Settled
<1>7. CASE (Patch \/ Put \/ table' = table) /\ pc' = "idle"
  BY <1>1, <1>4, <1>5, <1>7, QuietEnd
<1> QED
  BY <1>6, <1>7, WriteCases DEF Abort, End

\* Every step but those of others.
LEMMA QuietStep ==
  ASSUME NEW j, NEW o, Quiet(j, o), [Sync \/ Crash]_vars, ~Return
  PROVE  /\ Having(table', reqs[j].key) = Having(table, reqs[j].key)
         /\ Settled(j, o)'
<1>1. CASE UNCHANGED vars
  BY <1>1 DEF vars, matching, Quiet, Settled
<1>2. CASE Get
  BY <1>2, QuietGet DEF Get
<1>3. CASE MatchNext
  BY <1>3, QuietMatchNext DEF MatchNext
<1>4. CASE SortOut
  BY <1>4, QuietSortOut DEF SortOut
<1>5. CASE MatchDone
  BY <1>5, QuietMatchDone DEF MatchDone
<1>6. CASE Delete
  BY <1>6, QuietDelete
<1>7. CASE DeletesDone
  BY <1>7 DEF DeletesDone, matching, Quiet, Settled
<1>8. CASE Write
  BY <1>8, QuietWrite
<1>9. CASE Crash
  BY <1>9, QuietEnd DEF Crash, Abort, End
<1> QED
  BY <1>1, <1>2, <1>3, <1>4, <1>5, <1>6, <1>7, <1>8, <1>9 DEF Sync

\* A Sync that returns and that nobody interfered with settles every request.
LEMMA ReturnSettles ==
  ASSUME Known, CalmInv, Return, calm
  PROVE  /\ Matched(table, reqs)
         /\ \A j \in 1..Len(reqs) :
              Alone(reqs, j) => \E o \in Having(table, reqs[j].key) : Settled(j, o)'
<1>1. pc = "write" /\ next > Len(reqs) /\ table' = table /\ reqs' = reqs /\ pc' = "idle"
  BY DEF Return, End
<1>2. Matched(table, reqs)
  BY <1>1, KnownTypes, WritingMatches DEF CalmInv
<1>3. ASSUME NEW j \in 1..Len(reqs), Alone(reqs, j)
      PROVE  \E o \in Having(table, reqs[j].key) : Settled(j, o)'
  <2>1. Distinct(table) /\ reqs \in Seq(Rule)
    BY KnownTable, KnownTypes
  <2>2. \E o \in Having(table, reqs[j].key) : Having(table, reqs[j].key) = {o} /\ o.rule = reqs[j]
    BY <2>1, <1>2, <1>3, MatchedHas, SMTT(60)
  <2>3. PICK o \in Having(table, reqs[j].key) :
           Having(table, reqs[j].key) = {o} /\ o.rule = reqs[j]
    BY <2>2
  <2>4. Settled(j, o)'
    BY <2>3, <1>1 DEF Settled
  <2> QED
    BY <2>4
<1> QED
  BY <1>2, <1>3

LEMMA QuietNext == Known /\ CalmInv /\ QuietInv /\ [Next]_vars => QuietInv'
<1> SUFFICES ASSUME Known, CalmInv, QuietInv, [Next]_vars, synced' # "no" PROVE QuietInv'
  BY DEF QuietInv
<1>1. ~ChangeRequests /\ ~Administrate
  BY DEF ChangeRequests, Administrate
<1>2. CASE Return
  <2>1. calm /\ calm' = calm /\ table' = table /\ reqs' = reqs
    BY <1>2 DEF Return
  <2>2. \A j \in 1..Len(reqs) :
          Alone(reqs, j) => \E o \in Having(table, reqs[j].key) : Settled(j, o)'
    BY <2>1, <1>2, ReturnSettles
  <2> QED
    BY <2>1, <2>2 DEF QuietInv
<1>3. CASE ~Return
  <2>1. [Sync \/ Crash]_vars
    BY <1>1 DEF Next
  <2>2. synced # "no" /\ reqs' = reqs /\ (calm => calm')
    BY <2>1, <1>3
       DEF vars, matching, Sync, Get, MatchNext, SortOut, MatchDone, Delete, DeletesDone, Write, Crash, Abort
  <2>3. calm /\ calm'
    BY <2>2 DEF QuietInv
  <2>4. ASSUME NEW j \in 1..Len(reqs), Alone(reqs, j)
        PROVE  \E o \in Having(table', reqs[j].key) : Settled(j, o)'
    <3>1. PICK o \in Having(table, reqs[j].key) : Settled(j, o)
      BY <2>2, <2>4 DEF QuietInv
    <3>2. Quiet(j, o)
      BY <3>1, <2>3, <2>4 DEF Quiet
    <3> QED
      BY <3>1, <3>2, <2>1, <1>3, QuietStep
  <2> QED
    BY <2>2, <2>3, <2>4 DEF QuietInv
<1> QED
  BY <1>2, <1>3

LEMMA JustSyncedNext == Known /\ CalmInv /\ JustSynced /\ [Next]_vars => JustSynced'
<1> SUFFICES ASSUME Known, CalmInv, JustSynced, [Next]_vars, synced' = "now"
             PROVE  pc' = "idle" /\ Matched(table', reqs')
  BY DEF JustSynced
<1>1. CASE Return
  <2>1. calm /\ table' = table /\ reqs' = reqs /\ pc' = "idle"
    BY <1>1 DEF Return, End
  <2> QED
    BY <2>1, <1>1, ReturnSettles
<1>2. CASE UNCHANGED vars
  BY <1>2 DEF vars, JustSynced
<1>3. CASE ~Return /\ ~UNCHANGED vars
  <2>1. ~ChangeRequests /\ ~Administrate /\ ~Get
    BY DEF ChangeRequests, Administrate, Get
  <2>2. MatchNext \/ SortOut \/ MatchDone \/ Delete \/ DeletesDone \/ Write \/ Crash
    BY <2>1, <1>3 DEF Next, Sync
  <2>3. pc # "idle" /\ synced' = synced
    BY <2>2 DEF MatchNext, SortOut, MatchDone, Delete, DeletesDone, Write, Crash, Abort
  <2> QED
    BY <2>3 DEF JustSynced
<1> QED
  BY <1>1, <1>2, <1>3

LEMMA QuietAlways == Spec => [](Known /\ QuietInv /\ CalmInv /\ JustSynced)
<1>1. Init => Known /\ QuietInv /\ CalmInv /\ JustSynced
  BY KnownInit DEF Init, CalmInv, QuietInv, JustSynced
<1>2. Known /\ QuietInv /\ CalmInv /\ JustSynced /\ [Next]_vars
        => (Known /\ QuietInv /\ CalmInv /\ JustSynced)'
  BY KnownNext, CalmNext, QuietNext, JustSyncedNext
<1> QED
  BY <1>1, <1>2, PTL DEF Spec

(***************************************************************************)
(* When Sync has returned without an error and nobody has interfered with  *)
(* it, the own objects are exactly the requested ones, one for each        *)
(* request, also of those that share a key, until somebody changes the     *)
(* table or the requests or the next Sync begins.                          *)
(***************************************************************************)
THEOREM SyncedIsExact == Spec => []SyncedExactly
<1>1. Known /\ JustSynced => SyncedExactly
  BY MatchedInSync DEF JustSynced, SyncedExactly
<1> QED
  BY <1>1, QuietAlways, PTL

(***************************************************************************)
(* From then on no Sync, however often it is repeated and wherever it      *)
(* fails, touches the object of a request that is alone with its key:      *)
(* whatever happens to the objects of requests that share one.             *)
(***************************************************************************)
THEOREM RepeatedSyncChangesNothing == Spec => RepeatedSyncIsQuiet
<1>1. ASSUME Known, CalmInv, QuietInv, [Next]_vars, synced # "no", ops' = ops,
             NEW key \in SingleKeys
      PROVE  Having(table', key) = Having(table, key)
  <2>1. ~ChangeRequests /\ ~Administrate
    BY <1>1 DEF ChangeRequests, Administrate, Operation, Known, BaseInv, TypeOK
  <2>2. CASE Return
    BY <2>2 DEF Return
  <2>3. CASE ~Return
    <3>1. PICK j \in 1..Len(reqs) : key = reqs[j].key /\ Alone(reqs, j)
      BY DEF SingleKeys, Alone
    <3>2. PICK o \in Having(table, reqs[j].key) : Settled(j, o)
      BY <3>1, <1>1 DEF QuietInv
    <3>3. Quiet(j, o)
      BY <3>1, <3>2, <1>1 DEF Quiet, QuietInv
    <3>4. [Sync \/ Crash]_vars
      BY <2>1, <1>1 DEF Next
    <3> QED
      BY <3>1, <3>3, <3>4, <2>3, QuietStep
  <2> QED
    BY <2>2, <2>3
<1>2. \A key : ObjectsOf(key) = Having(table, key) /\ ObjectsOf(key)' = Having(table', key)
  BY DEF ObjectsOf, Own, Having
<1>3. Known /\ CalmInv /\ QuietInv /\ [Next]_vars =>
        (synced # "no" /\ ops' = ops => \A key \in SingleKeys : ObjectsOf(key)' = ObjectsOf(key))
  BY <1>1, <1>2
<1> QED
  BY <1>3, QuietAlways, PTL DEF Spec, RepeatedSyncIsQuiet

=============================================================================
