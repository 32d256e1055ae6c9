------------------------- MODULE RouterOSBackend_proofs ------------------------
(***************************************************************************)
(* What EnsureService and DeleteService leave on the router, for any       *)
(* services, addresses, endpoints and ports, any values of the services    *)
(* and any number of changes and faults.                                   *)
(*                                                                         *)
(* The invariant has five parts.  A service that is settled has exactly    *)
(* its own objects, chain by chain (SettledExact).  For the service of the *)
(* running call this holds of every chain whose Sync is not ahead any more *)
(* (CallDone).  The Syncs ahead fit the service, and the SNAT rule comes   *)
(* after the Sync that takes it away (PlanInv).  And no two services, nor  *)
(* the running call and a settled service, use the same address            *)
(* (NoSharing): the address list is the one place where a Sync takes       *)
(* objects of another service away.  The rules of Setup are complete, or   *)
(* Setup is still to write the missing ones and no service has an object   *)
(* (GuardInv).                                                             *)
(***************************************************************************)
EXTENDS RouterOSBackend, TLAPS

-----------------------------------------------------------------------------
(***************************************************************************)
(* Chain by chain: the objects R has for service s are those of model m.   *)
(***************************************************************************)
Kept(R, C, f, s) == {r \in R : r.chain \in C /\ r.family = f /\ r.svc = s}

ListOK(R, s, m, f) == Kept(R, {"lb-ips"}, f, s) = LBIPsList(m, f, s)
JumpOK(R, s, m, f) == Kept(R, {"dnat"}, f, s) = ServiceRule(m, f, s)
PortsOK(R, s, m, f) == Kept(R, {"svc"}, f, s) = IF HasLBIP(m, f) THEN PortRules(m, f, s) ELSE {}
ChainOK(R, s, m, f, p) ==
  LET chain == {r \in Kept(R, {"port"}, f, s) : r.port = p} IN
  IF HasLBIP(m, f) THEN p \in ServedPorts(m, f) => chain = DNATRules(m, f, s, p) ELSE chain = {}
SNATOK(R, s, m, f) == Kept(R, {"snat"}, f, s) = SNATServiceRule(m, f, s)
SrcsOK(R, s, m, f) ==
  Kept(R, {"src-ips"}, f, s) = IF HasSNATIP(m, f) THEN SNATSrcIPsList(m, f, s) ELSE {}

LBExact(R, s, m, f) ==
  /\ ListOK(R, s, m, f) /\ JumpOK(R, s, m, f) /\ PortsOK(R, s, m, f)
  /\ \A p \in Port \cup {None} : ChainOK(R, s, m, f, p)

\* busy: EnsureService is being repeated, and may have taken the SNAT rule away.
Exact(R, s, m, f, busy) ==
  /\ LBExact(R, s, m, f) /\ SrcsOK(R, s, m, f)
  /\ ~busy \/ HasLBIP(m, f) \/ ~HasSNATIP(m, f) => SNATOK(R, s, m, f)

\* What the Syncs ahead are for.
Ahead(todo, f, steps) == \E k \in 1..Len(todo) : todo[k].family = f /\ todo[k].step \in steps
ChainAhead(todo, left, f, p) ==
  \/ Ahead(todo, f, {"unrule"})
  \/ \E k \in 1..Len(todo) : /\ todo[k].family = f /\ todo[k].step = "dnat"
                             /\ k = 1 => p \in left

DoneFor(R, s, m, f, todo, left) ==
  /\ ListOK(R, s, m, f) \/ Ahead(todo, f, {"list", "unlist"})
  /\ JumpOK(R, s, m, f) \/ Ahead(todo, f, {"jump", "unrule"})
  /\ PortsOK(R, s, m, f) \/ Ahead(todo, f, {"ports", "unrule"})
  /\ \A p \in Port \cup {None} : ChainOK(R, s, m, f, p) \/ ChainAhead(todo, left, f, p)
  /\ SNATOK(R, s, m, f) \/ Ahead(todo, f, {"snat", "unsnat"})
  /\ SrcsOK(R, s, m, f) \/ Ahead(todo, f, {"srcs", "unsrcs"})

\* The Syncs that EnsureService makes for model m in family f.
Suits(m, f, step) ==
  /\ step \in {"dnat", "ports", "stale", "jump", "list", "unlist", "unrule",
               "srcs", "snat", "unsnat", "unsrcs"}
  /\ step \in {"dnat", "ports", "stale", "jump", "list"} => HasLBIP(m, f)
  /\ step \in {"unlist", "unrule"} => ~HasLBIP(m, f)
  /\ step \in {"srcs", "snat"} => HasSNATIP(m, f)
  /\ step \in {"unsnat", "unsrcs"} => ~HasSNATIP(m, f)
  /\ step = "dnat" => ServedPorts(m, f) # {}

\* deleteLBServiceRules takes the SNAT rule, too, and it is written again later.
RuleRestored(todo) ==
  \A k \in 1..Len(todo) :
    todo[k].step = "unrule" =>
      \E l \in 1..Len(todo) : /\ k < l /\ todo[l].family = todo[k].family
                              /\ todo[l].step \in {"snat", "unsnat"}

Plan(m, todo) ==
  /\ \A k \in 1..Len(todo) : Suits(m, todo[k].family, todo[k].step)
  /\ \A k \in 2..Len(todo) : todo[k].step # "stale"
  /\ RuleRestored(todo)

LeftFits(m, f, step, left) ==
  /\ left # {}
  /\ step = "dnat" => left \subseteq ServedPorts(m, f)
  /\ step = "stale" => left \cap Ports(m) = {}
  /\ step \notin {"dnat", "stale"} => left = {None}

-----------------------------------------------------------------------------
(***************************************************************************)
(* Sequences of Syncs.                                                     *)
(***************************************************************************)
LEMMA HeadTail ==
  ASSUME NEW S, NEW todo \in Seq(S), todo # << >>
  PROVE  /\ Len(todo) \in Nat /\ Len(todo) >= 1
         /\ Head(todo) = todo[1] /\ todo[1] \in S
         /\ Tail(todo) \in Seq(S) /\ Len(Tail(todo)) = Len(todo) - 1
         /\ \A k \in 1..(Len(todo) - 1) : Tail(todo)[k] = todo[k + 1]
  OBVIOUS

LEMMA Prepended ==
  ASSUME NEW S, NEW todo \in Seq(S), todo # << >>, NEW x \in S
  PROVE  /\ <<x>> \o Tail(todo) \in Seq(S) /\ Len(<<x>> \o Tail(todo)) = Len(todo)
         /\ (<<x>> \o Tail(todo))[1] = x
         /\ \A k \in 2..Len(todo) : (<<x>> \o Tail(todo))[k] = todo[k]
  OBVIOUS

LEMMA EmptyConcat ==
  ASSUME NEW S, NEW todo \in Seq(S)
  PROVE  << >> \o todo = todo
  OBVIOUS

LEMMA Concat ==
  ASSUME NEW S, NEW A \in Seq(S), NEW B \in Seq(S), NEW t, t = A \o B
  PROVE  /\ t \in Seq(S) /\ Len(t) = Len(A) + Len(B) /\ Len(A) \in Nat /\ Len(B) \in Nat
         /\ \A k \in 1..Len(A) : t[k] = A[k]
         /\ \A k \in 1..Len(B) : t[Len(A) + k] = B[k]
         /\ \A k \in 1..Len(t) : k \in 1..Len(A) \/ (k - Len(A) \in 1..Len(B) /\ t[k] = B[k - Len(A)])
  OBVIOUS

LEMMA LenConcat == \A S : \A A, B \in Seq(S) : Len(A \o B) = Len(A) + Len(B)
  OBVIOUS

LEMMA LBPartFacts ==
  ASSUME NEW m, NEW f, NEW A, A = LBPart(m, f)
  PROVE  /\ A \in Seq(Steps) /\ Len(A) \in Nat /\ Len(A) >= 2
         /\ \A k \in 1..Len(A) : Suits(m, f, A[k]) /\ A[k] # "stale"
         /\ \E k \in 1..Len(A) : A[k] \in {"list", "unlist"}
         /\ \E k \in 1..Len(A) : A[k] \in {"jump", "unrule"}
         /\ \E k \in 1..Len(A) : A[k] \in {"ports", "unrule"}
         /\ ~HasLBIP(m, f) => \E k \in 1..Len(A) : A[k] = "unrule"
         /\ HasLBIP(m, f) /\ ServedPorts(m, f) # {} => \E k \in 1..Len(A) : A[k] = "dnat"
<1> USE DEF Steps
<1>1. CASE ~HasLBIP(m, f)
  <2>1. A = <<"unlist", "unrule">>
    BY <1>1 DEF LBPart
  <2>2. A \in Seq(Steps) /\ Len(A) = 2 /\ A[1] = "unlist" /\ A[2] = "unrule"
    BY <2>1
  <2>3. 1 \in 1..Len(A) /\ 2 \in 1..Len(A)
      /\ \A k \in 1..Len(A) : k = 1 \/ k = 2
    BY <2>2
  <2>4. Suits(m, f, "unlist") /\ Suits(m, f, "unrule")
    BY <1>1 DEF Suits
  <2>5. \A k \in 1..Len(A) : Suits(m, f, A[k]) /\ A[k] # "stale"
    BY <2>2, <2>3, <2>4
  <2> QED
    BY <1>1, <2>2, <2>3, <2>5
<1>2. CASE HasLBIP(m, f) /\ ServedPorts(m, f) = {}
  <2>1. A = << >> \o <<"ports", "jump", "list">>
    BY <1>2 DEF LBPart
  <2>2. <<"ports", "jump", "list">> \in Seq(Steps)
    OBVIOUS
  <2>3. A = <<"ports", "jump", "list">>
    BY <2>1, <2>2, EmptyConcat
  <2>4. A \in Seq(Steps) /\ Len(A) = 3 /\ A[1] = "ports" /\ A[2] = "jump" /\ A[3] = "list"
    BY <2>3
  <2>5. 1 \in 1..Len(A) /\ 2 \in 1..Len(A) /\ 3 \in 1..Len(A)
      /\ \A k \in 1..Len(A) : k = 1 \/ k = 2 \/ k = 3
    BY <2>4
  <2>6. Suits(m, f, "ports") /\ Suits(m, f, "jump") /\ Suits(m, f, "list")
    BY <1>2 DEF Suits
  <2>7. \A k \in 1..Len(A) : Suits(m, f, A[k]) /\ A[k] # "stale"
    BY <2>4, <2>5, <2>6
  <2> QED
    BY <1>2, <2>4, <2>5, <2>7
<1>3. CASE HasLBIP(m, f) /\ ServedPorts(m, f) # {}
  <2>1. A = <<"dnat">> \o <<"ports", "jump", "list">>
    BY <1>3 DEF LBPart
  <2>2. <<"dnat">> \in Seq(Steps) /\ Len(<<"dnat">>) = 1 /\ <<"dnat">>[1] = "dnat"
    OBVIOUS
  <2>3. PICK B : B = <<"ports", "jump", "list">>
    OBVIOUS
  <2>4. B \in Seq(Steps) /\ Len(B) = 3 /\ B[1] = "ports" /\ B[2] = "jump" /\ B[3] = "list"
    BY <2>3
  <2>5. A \in Seq(Steps) /\ Len(A) = 4 /\ A[1] = "dnat" /\ A[2] = "ports" /\ A[3] = "jump" /\ A[4] = "list"
    BY <2>1, <2>2, <2>3, <2>4, Concat
  <2>6. 1 \in 1..Len(A) /\ 2 \in 1..Len(A) /\ 3 \in 1..Len(A) /\ 4 \in 1..Len(A)
      /\ \A k \in 1..Len(A) : k = 1 \/ k = 2 \/ k = 3 \/ k = 4
    BY <2>5
  <2>7. Suits(m, f, "dnat") /\ Suits(m, f, "ports") /\ Suits(m, f, "jump") /\ Suits(m, f, "list")
    BY <1>3 DEF Suits
  <2>8. \A k \in 1..Len(A) : Suits(m, f, A[k]) /\ A[k] # "stale"
    BY <2>5, <2>6, <2>7
  <2> QED
    BY <1>3, <2>5, <2>6, <2>8
<1> QED
  BY <1>1, <1>2, <1>3

LEMMA SNATPartFacts ==
  ASSUME NEW m, NEW f, NEW B, B = SNATPart(m, f)
  PROVE  /\ B \in Seq(Steps) /\ Len(B) = 2
         /\ \A k \in 1..2 : Suits(m, f, B[k]) /\ B[k] \notin {"stale", "unrule"}
         /\ \E k \in 1..2 : B[k] \in {"snat", "unsnat"}
         /\ \E k \in 1..2 : B[k] \in {"srcs", "unsrcs"}
<1> USE DEF Steps
<1>1. CASE HasSNATIP(m, f)
  <2>1. B = <<"srcs", "snat">>
    BY <1>1 DEF SNATPart
  <2>2. B \in Seq(Steps) /\ Len(B) = 2 /\ B[1] = "srcs" /\ B[2] = "snat"
    BY <2>1
  <2> QED
    BY <1>1, <2>2 DEF Suits
<1>2. CASE ~HasSNATIP(m, f)
  <2>1. B = <<"unsnat", "unsrcs">>
    BY <1>2 DEF SNATPart
  <2>2. B \in Seq(Steps) /\ Len(B) = 2 /\ B[1] = "unsnat" /\ B[2] = "unsrcs"
    BY <2>1
  <2> QED
    BY <1>2, <2>2 DEF Suits
<1> QED
  BY <1>1, <1>2

\* The Syncs of EnsureService for one family ...
Occurs(P, steps) == \E k \in 1..Len(P) : P[k] \in steps
PartShape(P, m, f) ==
  /\ P \in Seq(Steps) /\ Len(P) >= 4
  /\ \A k \in 1..Len(P) : Suits(m, f, P[k]) /\ P[k] # "stale"
  /\ Occurs(P, {"list", "unlist"}) /\ Occurs(P, {"jump", "unrule"}) /\ Occurs(P, {"ports", "unrule"})
  /\ ~HasLBIP(m, f) => Occurs(P, {"unrule"})
  /\ HasLBIP(m, f) /\ ServedPorts(m, f) # {} => Occurs(P, {"dnat"})
  /\ Occurs(P, {"snat", "unsnat"}) /\ Occurs(P, {"srcs", "unsrcs"})
  /\ \A k \in 1..Len(P) : P[k] = "unrule" =>
       \E l \in 1..Len(P) : k < l /\ P[l] \in {"snat", "unsnat"}

LEMMA PartFacts ==
  ASSUME NEW m, NEW f
  PROVE  PartShape(LBPart(m, f) \o SNATPart(m, f), m, f)
<1>1. PICK A : A = LBPart(m, f)
  OBVIOUS
<1>2. PICK B : B = SNATPart(m, f)
  OBVIOUS
<1>3. PICK P : P = A \o B
  OBVIOUS
<1>4. /\ A \in Seq(Steps) /\ Len(A) \in Nat /\ Len(A) >= 2
      /\ \A k \in 1..Len(A) : Suits(m, f, A[k]) /\ A[k] # "stale"
  BY <1>1, LBPartFacts
<1>5. /\ B \in Seq(Steps) /\ Len(B) = 2
      /\ \A k \in 1..2 : Suits(m, f, B[k]) /\ B[k] \notin {"stale", "unrule"}
  BY <1>2, SNATPartFacts
<1>6. /\ P \in Seq(Steps) /\ Len(P) = Len(A) + 2
      /\ \A k \in 1..Len(A) : P[k] = A[k] /\ k \in 1..Len(P)
      /\ \A k \in 1..2 : P[Len(A) + k] = B[k] /\ Len(A) + k \in 1..Len(P)
  <2>1. A \in Seq(Steps) /\ B \in Seq(Steps) /\ Len(B) = 2
    BY <1>4, <1>5
  <2>2. P \in Seq(Steps)
    BY <1>3, <2>1, Concat
  <2>3. Len(P) = Len(A) + Len(B)
    BY <1>3, <2>1, LenConcat
  <2>4. ASSUME NEW k \in 1..Len(A) PROVE P[k] = A[k] /\ k \in 1..Len(P)
    BY <1>3, <1>4, <2>1, <2>3
  <2>5. ASSUME NEW k \in 1..2 PROVE P[Len(A) + k] = B[k] /\ Len(A) + k \in 1..Len(P)
    BY <1>3, <2>1, <2>3
  <2> QED
    BY <2>1, <2>2, <2>3, <2>4, <2>5
<1>7. ASSUME NEW k \in 1..Len(P), k \notin 1..Len(A)
      PROVE  k - Len(A) \in 1..2 /\ P[k] = B[k - Len(A)]
  <2>1. k - Len(A) \in 1..2 /\ k = Len(A) + (k - Len(A))
    BY <1>4, <1>6, <1>7
  <2> QED
    BY <1>6, <2>1
<1>8. \A k \in 1..Len(P) : Suits(m, f, P[k]) /\ P[k] # "stale"
  BY <1>4, <1>5, <1>6, <1>7
<1>9. /\ Occurs(P, {"list", "unlist"}) /\ Occurs(P, {"jump", "unrule"}) /\ Occurs(P, {"ports", "unrule"})
      /\ ~HasLBIP(m, f) => Occurs(P, {"unrule"})
      /\ HasLBIP(m, f) /\ ServedPorts(m, f) # {} => Occurs(P, {"dnat"})
  <2>1. /\ \E k \in 1..Len(A) : A[k] \in {"list", "unlist"}
        /\ \E k \in 1..Len(A) : A[k] \in {"jump", "unrule"}
        /\ \E k \in 1..Len(A) : A[k] \in {"ports", "unrule"}
        /\ ~HasLBIP(m, f) => \E k \in 1..Len(A) : A[k] \in {"unrule"}
        /\ HasLBIP(m, f) /\ ServedPorts(m, f) # {} => \E k \in 1..Len(A) : A[k] \in {"dnat"}
    BY <1>1, LBPartFacts
  <2>2. \A S : (\E k \in 1..Len(A) : A[k] \in S) => Occurs(P, S)
    BY <1>6 DEF Occurs
  <2> QED
    BY <2>1, <2>2
<1>10. PICK x \in 1..2 : B[x] \in {"snat", "unsnat"}
  BY <1>2, SNATPartFacts
<1>11. PICK y \in 1..2 : B[y] \in {"srcs", "unsrcs"}
  BY <1>2, SNATPartFacts
<1>12. Occurs(P, {"snat", "unsnat"}) /\ Occurs(P, {"srcs", "unsrcs"})
  BY <1>6, <1>10, <1>11 DEF Occurs
<1>13. ASSUME NEW k \in 1..Len(P), P[k] = "unrule"
       PROVE  \E l \in 1..Len(P) : k < l /\ P[l] \in {"snat", "unsnat"}
  <2>1. k \in 1..Len(A)
    BY <1>5, <1>7, <1>13
  <2>2. Len(A) + x \in 1..Len(P) /\ k < Len(A) + x /\ P[Len(A) + x] = B[x]
    BY <1>4, <1>6, <2>1
  <2> QED
    BY <1>10, <2>2
<1>14. PartShape(P, m, f)
  BY <1>4, <1>6, <1>8, <1>9, <1>12, <1>13 DEF PartShape
<1> QED
  BY <1>1, <1>2, <1>3, <1>14

FamilyShape(t, A, B) ==
  /\ t \in Seq(Todo) /\ Len(t) = Len(A) + Len(B)
  /\ \A k \in 1..Len(A) : t[k] = [family |-> "ipv4", step |-> A[k]]
  /\ \A k \in 1..Len(B) : t[Len(A) + k] = [family |-> "ipv6", step |-> B[k]]

LEMMA FamiliesInOrder ==
  ASSUME NEW A \in Seq(Steps), NEW B \in Seq(Steps), NEW t,
         t = InOrder("ipv4", A) \o InOrder("ipv6", B)
  PROVE  FamilyShape(t, A, B)
  BY DEF FamilyShape, InOrder, Todo, Family

LEMMA EnsureTodoIs ==
  ASSUME NEW m
  PROVE  EnsureTodo(m) = InOrder("ipv4", LBPart(m, "ipv4") \o SNATPart(m, "ipv4"))
                           \o InOrder("ipv6", LBPart(m, "ipv6") \o SNATPart(m, "ipv6"))
  BY DEF EnsureTodo, PerFamily

\* ... and for both.
AllAhead(t, m, f) ==
  /\ Ahead(t, f, {"list", "unlist"}) /\ Ahead(t, f, {"jump", "unrule"}) /\ Ahead(t, f, {"ports", "unrule"})
  /\ ~HasLBIP(m, f) => Ahead(t, f, {"unrule"})
  /\ HasLBIP(m, f) /\ ServedPorts(m, f) # {} => Ahead(t, f, {"dnat"})
  /\ Ahead(t, f, {"snat", "unsnat"}) /\ Ahead(t, f, {"srcs", "unsrcs"})

PlanFor(m, t) ==
  /\ t \in Seq(Todo) /\ t # << >> /\ Plan(m, t)
  /\ \A k \in 1..Len(t) : t[k].step # "stale"
  /\ \A f \in Family : AllAhead(t, m, f)

LEMMA PlanOfParts ==
  ASSUME NEW m, NEW A, NEW B, PartShape(A, m, "ipv4"), PartShape(B, m, "ipv6"),
         NEW t, t = InOrder("ipv4", A) \o InOrder("ipv6", B)
  PROVE  PlanFor(m, t)
<1>1. PICK n : n = Len(A)
  OBVIOUS
<1>2. A \in Seq(Steps) /\ B \in Seq(Steps) /\ n \in Nat /\ n >= 4 /\ Len(B) \in Nat
  BY <1>1 DEF PartShape
<1>3. t \in Seq(Todo) /\ Len(t) = n + Len(B)
  BY <1>1, <1>2, FamiliesInOrder DEF FamilyShape
<1>4. /\ \A k \in 1..n : k \in 1..Len(t) /\ t[k].family = "ipv4" /\ t[k].step = A[k]
      /\ \A k \in 1..Len(B) : n + k \in 1..Len(t) /\ t[n + k].family = "ipv6" /\ t[n + k].step = B[k]
  <2>1. ASSUME NEW k \in 1..n PROVE k \in 1..Len(t) /\ t[k].family = "ipv4" /\ t[k].step = A[k]
    <3>1. k \in 1..Len(t)
      BY <1>2, <1>3
    <3>2. t[k] = [family |-> "ipv4", step |-> A[k]]
      BY <1>1, <1>2, <3>1, <1>3 DEF InOrder
    <3> QED
      BY <3>1, <3>2
  <2>2. ASSUME NEW k \in 1..Len(B)
        PROVE  n + k \in 1..Len(t) /\ t[n + k].family = "ipv6" /\ t[n + k].step = B[k]
    <3>1. n + k \in 1..Len(t)
      BY <1>2, <1>3
    <3>2. t[n + k] = [family |-> "ipv6", step |-> B[k]]
      BY <1>1, <1>2, <3>1, <1>3 DEF InOrder
    <3> QED
      BY <3>1, <3>2
  <2> QED
    BY <2>1, <2>2
<1>5. ASSUME NEW k \in 1..Len(t), k \notin 1..n
      PROVE  k - n \in 1..Len(B) /\ t[k].family = "ipv6" /\ t[k].step = B[k - n]
  <2>1. k - n \in 1..Len(B) /\ n + (k - n) = k
    BY <1>2, <1>3, <1>5
  <2> QED
    BY <1>4, <2>1
<1>6. t # << >>
  BY <1>2, <1>3
<1>7. \A k \in 1..Len(t) : Suits(m, t[k].family, t[k].step) /\ t[k].step # "stale"
  <2> SUFFICES ASSUME NEW k \in 1..Len(t)
               PROVE  Suits(m, t[k].family, t[k].step) /\ t[k].step # "stale"
    OBVIOUS
  <2>1. CASE k \in 1..n
    BY <1>1, <1>4, <2>1 DEF PartShape
  <2>2. CASE k \notin 1..n
    BY <1>5, <2>2 DEF PartShape
  <2> QED
    BY <2>1, <2>2
<1>8. RuleRestored(t)
  <2> SUFFICES ASSUME NEW k \in 1..Len(t), t[k].step = "unrule"
               PROVE  \E l \in 1..Len(t) : /\ k < l /\ t[l].family = t[k].family
                                           /\ t[l].step \in {"snat", "unsnat"}
    BY DEF RuleRestored
  <2>1. CASE k \in 1..n
    <3>1. PICK l \in 1..n : k < l /\ A[l] \in {"snat", "unsnat"}
      BY <1>1, <1>4, <2>1 DEF PartShape
    <3> QED
      BY <1>4, <2>1, <3>1
  <2>2. CASE k \notin 1..n
    <3>1. k - n \in 1..Len(B) /\ t[k].family = "ipv6" /\ B[k - n] = "unrule"
      BY <1>5, <2>2
    <3>2. PICK l \in 1..Len(B) : k - n < l /\ B[l] \in {"snat", "unsnat"}
      BY <3>1 DEF PartShape
    <3>3. n + l \in 1..Len(t) /\ t[n + l].family = "ipv6" /\ t[n + l].step = B[l]
      BY <1>4
    <3>4. k < n + l
      BY <1>2, <3>2
    <3> QED
      BY <3>1, <3>2, <3>3, <3>4
  <2> QED
    BY <2>1, <2>2
<1>9. \A S : Occurs(A, S) => Ahead(t, "ipv4", S)
  <2> SUFFICES ASSUME NEW S, NEW k \in 1..n, A[k] \in S
               PROVE  Ahead(t, "ipv4", S)
    BY <1>1 DEF Occurs
  <2> QED
    BY <1>4 DEF Ahead
<1>10. \A S : Occurs(B, S) => Ahead(t, "ipv6", S)
  <2> SUFFICES ASSUME NEW S, NEW k \in 1..Len(B), B[k] \in S
               PROVE  Ahead(t, "ipv6", S)
    BY DEF Occurs
  <2>1. n + k \in 1..Len(t) /\ t[n + k].family = "ipv6" /\ t[n + k].step = B[k]
    BY <1>4
  <2> QED
    BY <2>1 DEF Ahead
<1>11. Plan(m, t) /\ \A k \in 1..Len(t) : t[k].step # "stale"
  <2>1. \A k \in 2..Len(t) : k \in 1..Len(t)
    BY <1>2, <1>3
  <2> QED
    BY <1>7, <1>8, <2>1 DEF Plan
<1> QED
  BY <1>3, <1>6, <1>9, <1>10, <1>11 DEF PlanFor, Family, PartShape, AllAhead

LEMMA EnsurePlan ==
  ASSUME NEW m
  PROVE  PlanFor(m, EnsureTodo(m))
<1>1. PICK A : A = LBPart(m, "ipv4") \o SNATPart(m, "ipv4")
  OBVIOUS
<1>2. PICK B : B = LBPart(m, "ipv6") \o SNATPart(m, "ipv6")
  OBVIOUS
<1>3. PartShape(A, m, "ipv4") /\ PartShape(B, m, "ipv6")
  BY <1>1, <1>2, PartFacts
<1> QED
  BY <1>1, <1>2, <1>3, PlanOfParts, EnsureTodoIs

LEMMA GoneUsesNothing ==
  ASSUME NEW f
  PROVE  ~HasLBIP(Gone, f) /\ ~HasSNATIP(Gone, f)
  BY DEF HasLBIP, HasSNATIP, OfFamily, Gone

LEMMA DeletePart ==
  ASSUME NEW f, NEW P, P = <<"unlist", "unrule", "unsnat", "unsrcs">>
  PROVE  PartShape(P, Gone, f)
<1>1. P \in Seq(Steps) /\ Len(P) = 4
  BY DEF Steps
<1>2. P[1] = "unlist" /\ P[2] = "unrule" /\ P[3] = "unsnat" /\ P[4] = "unsrcs"
  OBVIOUS
<1>3. /\ 1 \in 1..Len(P) /\ 2 \in 1..Len(P) /\ 3 \in 1..Len(P) /\ 4 \in 1..Len(P)
      /\ \A k \in 1..Len(P) : k = 1 \/ k = 2 \/ k = 3 \/ k = 4
  BY <1>1
<1>4. Suits(Gone, f, "unlist") /\ Suits(Gone, f, "unrule") /\ Suits(Gone, f, "unsnat") /\ Suits(Gone, f, "unsrcs")
  BY GoneUsesNothing DEF Suits
<1>5. \A k \in 1..Len(P) : Suits(Gone, f, P[k]) /\ P[k] # "stale"
  BY <1>2, <1>3, <1>4
<1>6. \A k \in 1..Len(P) : P[k] = "unrule" => k = 2
  BY <1>2, <1>3
<1>7. \A k \in 1..Len(P) : P[k] = "unrule" => \E l \in 1..Len(P) : k < l /\ P[l] \in {"snat", "unsnat"}
  BY <1>2, <1>3, <1>6
<1>8. /\ Occurs(P, {"list", "unlist"}) /\ Occurs(P, {"jump", "unrule"}) /\ Occurs(P, {"ports", "unrule"})
      /\ Occurs(P, {"unrule"}) /\ Occurs(P, {"snat", "unsnat"}) /\ Occurs(P, {"srcs", "unsrcs"})
  BY <1>2, <1>3 DEF Occurs
<1> QED
  BY <1>1, <1>5, <1>7, <1>8, GoneUsesNothing DEF PartShape

LEMMA DeletePlan == PlanFor(Gone, DeleteTodo)
<1>1. PICK P : P = <<"unlist", "unrule", "unsnat", "unsrcs">>
  OBVIOUS
<1>2. DeleteTodo = InOrder("ipv4", P) \o InOrder("ipv6", P)
  BY <1>1 DEF DeleteTodo, PerFamily
<1>3. PartShape(P, Gone, "ipv4") /\ PartShape(P, Gone, "ipv6")
  BY <1>1, DeletePart
<1> QED
  BY <1>2, <1>3, PlanOfParts

-----------------------------------------------------------------------------
(***************************************************************************)
(* One Sync: R are the objects before it, R2 those after it.               *)
(***************************************************************************)
ServiceSteps == {"dnat", "ports", "stale", "jump", "list", "unlist", "unrule",
                 "srcs", "snat", "unsnat", "unsrcs"}
ChainsOf(step) ==
  CASE step \in {"dnat", "stale"} -> {"port"}
    [] step = "ports" -> {"svc"}
    [] step = "jump" -> {"dnat"}
    [] step \in {"list", "unlist"} -> {"lb-ips"}
    [] step = "unrule" -> {"dnat", "svc", "port", "snat"}
    [] step \in {"snat", "unsnat"} -> {"snat"}
    [] step \in {"srcs", "unsrcs"} -> {"src-ips"}

Selects(step, f, s, m, p, r) ==
  /\ r.chain \in ChainsOf(step) /\ r.family = f
  /\ r.svc = s \/ (step = "list" /\ r.addr \in m.lb)
  /\ step \in {"dnat", "stale"} => r.port = p

LEMMA SelectedIs ==
  ASSUME NEW step \in ServiceSteps, NEW f, NEW s, NEW m, NEW p
  PROVE  Selected(step, f, s, m, p) = {r \in rows : Selects(step, f, s, m, p, r)}
<1> USE DEF Selected, Selects, ChainsOf, PortChain, ListEntries, OwnListEntries, ServiceRules,
            OwnSNATRule, OwnSrcIPs, Own
<1>1. CASE step \in {"dnat", "stale"}
  BY <1>1
<1>2. CASE step \in {"ports", "jump"}
  BY <1>2
<1>3. CASE step = "list"
  BY <1>3
<1>4. CASE step \in {"unlist", "unrule"}
  BY <1>4
<1>5. CASE step \in {"snat", "unsnat", "srcs", "unsrcs"}
  BY <1>5
<1> QED
  BY <1>1, <1>2, <1>3, <1>4, <1>5 DEF ServiceSteps

LEMMA RequestsAre ==
  ASSUME NEW step \in ServiceSteps, NEW f, NEW s, NEW m, NEW p,
         NEW r \in Requests(step, f, s, m, p)
  PROVE  /\ r.chain \in ChainsOf(step) /\ r.family = f /\ r.svc = s
         /\ step = "dnat" => r.port = p
         /\ step \notin {"stale", "unlist", "unrule", "unsnat", "unsrcs"}
<1> USE DEF Requests, ChainsOf, NewRow
<1>1. CASE step = "dnat"
  BY <1>1 DEF DNATRules
<1>2. CASE step = "ports"
  BY <1>2 DEF PortRules
<1>3. CASE step = "jump"
  BY <1>3 DEF ServiceRule
<1>4. CASE step = "list"
  BY <1>4 DEF LBIPsList
<1>5. CASE step = "srcs"
  BY <1>5 DEF SNATSrcIPsList
<1>6. CASE step = "snat"
  BY <1>6 DEF SNATServiceRule
<1>7. CASE step \in {"stale", "unlist", "unrule", "unsnat", "unsrcs"}
  BY <1>7
<1> QED
  BY <1>1, <1>2, <1>3, <1>4, <1>5, <1>6, <1>7 DEF ServiceSteps

\* A Sync, with or without an error, only touches what it selects and requests ...
Touches(R, R2, step, f, s, m, p) ==
  /\ \A r \in R2 : r \in R \/ r \in Requests(step, f, s, m, p)
  /\ \A r \in R : r \in R2 \/ Selects(step, f, s, m, p, r)

\* ... and without an error, leaves nothing else of what it selects.
Completes(R2, step, f, s, m, p) ==
  /\ \A r \in Requests(step, f, s, m, p) : r \in R2
  /\ \A r \in R2 : Selects(step, f, s, m, p, r) => r \in Requests(step, f, s, m, p)

LEMMA SyncedTouches ==
  ASSUME NEW step \in ServiceSteps, NEW f, NEW s, NEW m, NEW p, NEW R2,
         R2 = Synced(Selected(step, f, s, m, p), Requests(step, f, s, m, p))
  PROVE  Touches(rows, R2, step, f, s, m, p) /\ Completes(R2, step, f, s, m, p)
  BY SelectedIs DEF Synced, Touches, Completes

LEMMA HalfSyncedTouches ==
  ASSUME NEW step \in ServiceSteps, NEW f, NEW s, NEW m, NEW p,
         NEW R2 \in HalfSynced(Selected(step, f, s, m, p), Requests(step, f, s, m, p))
  PROVE  Touches(rows, R2, step, f, s, m, p)
<1> DEFINE own == Selected(step, f, s, m, p)
           reqs == Requests(step, f, s, m, p)
<1>1. \A r \in own : Selects(step, f, s, m, p, r)
  BY SelectedIs
<1>2. CASE \E gone \in SUBSET Conflicts(own, reqs) : R2 = rows \ gone
  <2> HIDE DEF own, reqs
  <2> QED
    BY <1>1, <1>2 DEF Touches, Conflicts, own, reqs
<1>3. CASE \E done \in SUBSET reqs :
             R2 = (rows \ (Conflicts(own, reqs) \cup {r \in own : \E q \in done : SameKey(r, q)})) \cup done
  <2> HIDE DEF own, reqs
  <2>1. PICK done \in SUBSET reqs :
             R2 = (rows \ (Conflicts(own, reqs) \cup {r \in own : \E q \in done : SameKey(r, q)})) \cup done
    BY <1>3
  <2>2. \A r \in R2 : r \in rows \/ r \in reqs
    BY <2>1
  <2>3. \A r \in rows : r \in R2 \/ r \in own
    BY <2>1 DEF Conflicts
  <2> QED
    BY <1>1, <2>2, <2>3 DEF Touches, reqs
<1> QED
  BY <1>2, <1>3 DEF HalfSynced

LEMMA Untouched ==
  ASSUME NEW step \in ServiceSteps, NEW f, NEW s, NEW m, NEW p, NEW R, NEW R2, NEW C, NEW g, NEW t,
         Touches(R, R2, step, f, s, m, p),
         \/ g # f
         \/ \A c \in C : c \notin ChainsOf(step)
         \/ t # s /\ \A r \in R : r.chain = "lb-ips" /\ r.svc = t => r.addr \notin m.lb
  PROVE  Kept(R2, C, g, t) = Kept(R, C, g, t)
<1>1. ASSUME NEW r \in R2, r.chain \in C, r.family = g, r.svc = t PROVE r \in R
  <2>1. SUFFICES r \notin Requests(step, f, s, m, p)
    BY DEF Touches
  <2> QED
    BY <1>1, RequestsAre
<1>2. ASSUME NEW r \in R, r.chain \in C, r.family = g, r.svc = t PROVE r \in R2
  <2>1. SUFFICES ~Selects(step, f, s, m, p, r)
    BY DEF Touches
  <2>2. step = "list" => ChainsOf(step) = {"lb-ips"}
    BY DEF ChainsOf
  <2> QED
    BY <1>2, <2>2 DEF Selects
<1> QED
  BY <1>1, <1>2 DEF Kept

\* What the Sync of a service does to the chains of another one: nothing.
LEMMA OthersUntouched ==
  ASSUME NEW step \in ServiceSteps, NEW f, NEW s, NEW m, NEW p, NEW R, NEW R2, NEW t, NEW n, NEW g,
         NEW busy, NEW busy2,
         Touches(R, R2, step, f, s, m, p), t # s,
         \A r \in R : r.chain = "lb-ips" /\ r.svc = t => r.addr \notin m.lb,
         Exact(R, t, n, g, busy), busy => busy2
  PROVE  Exact(R2, t, n, g, busy2)
<1>1. \A C : Kept(R2, C, g, t) = Kept(R, C, g, t)
  BY Untouched
<1> QED
  BY <1>1 DEF Exact, LBExact, ListOK, JumpOK, PortsOK, ChainOK, SNATOK, SrcsOK

(***************************************************************************)
(* What a Sync of a service's own call keeps of what is right, and what it *)
(* sets right.                                                             *)
(***************************************************************************)
Keeps(R, R2, s, m, g, step, f) ==
  /\ ListOK(R, s, m, g) => ListOK(R2, s, m, g)
  /\ JumpOK(R, s, m, g) => JumpOK(R2, s, m, g)
  /\ PortsOK(R, s, m, g) => PortsOK(R2, s, m, g)
  /\ \A q \in Port \cup {None} : ChainOK(R, s, m, g, q) => ChainOK(R2, s, m, g, q)
  /\ ~(g = f /\ step = "unrule" /\ HasSNATIP(m, g)) /\ SNATOK(R, s, m, g) => SNATOK(R2, s, m, g)
  /\ SrcsOK(R, s, m, g) => SrcsOK(R2, s, m, g)

Does(R2, s, m, step, f, p) ==
  /\ step \in {"list", "unlist"} => ListOK(R2, s, m, f)
  /\ step \in {"jump", "unrule"} => JumpOK(R2, s, m, f)
  /\ step \in {"ports", "unrule"} => PortsOK(R2, s, m, f)
  /\ step = "unrule" => \A q \in Port \cup {None} : ChainOK(R2, s, m, f, q)
  /\ step = "dnat" => ChainOK(R2, s, m, f, p)
  /\ step \in {"snat", "unsnat"} => SNATOK(R2, s, m, f)
  /\ step \in {"srcs", "unsrcs"} => SrcsOK(R2, s, m, f)

LEMMA NothingRequested ==
  ASSUME NEW m, NEW f, NEW s
  PROVE  /\ ~HasLBIP(m, f) => ServiceRule(m, f, s) = {} /\ LBIPsList(m, f, s) = {}
         /\ ~HasSNATIP(m, f) => SNATServiceRule(m, f, s) = {}
  BY DEF HasLBIP, HasSNATIP, ServiceRule, LBIPsList, SNATServiceRule

\* The objects of the chains of a completed Sync are the requested ones.
LEMMA CompletedChain ==
  ASSUME NEW step \in ServiceSteps, NEW f, NEW s, NEW m, NEW p, NEW R2, NEW c,
         Completes(R2, step, f, s, m, p), c \in ChainsOf(step), step \notin {"dnat", "stale"}
  PROVE  Kept(R2, {c}, f, s) = {r \in Requests(step, f, s, m, p) : r.chain = c}
<1>1. ASSUME NEW r \in R2, r.chain = c, r.family = f, r.svc = s PROVE r \in Requests(step, f, s, m, p)
  <2>1. Selects(step, f, s, m, p, r)
    BY <1>1 DEF Selects
  <2> QED
    BY <2>1 DEF Completes
<1>2. ASSUME NEW r \in Requests(step, f, s, m, p) PROVE r \in R2 /\ r.family = f /\ r.svc = s
  BY RequestsAre DEF Completes
<1> QED
  BY <1>1, <1>2 DEF Kept

LEMMA CompletedDoes ==
  ASSUME NEW step \in ServiceSteps, NEW f, NEW s, NEW m, NEW p, NEW R2,
         Completes(R2, step, f, s, m, p), Suits(m, f, step)
  PROVE  Does(R2, s, m, step, f, p)
<1> USE DEF Suits
<1>0. /\ step \in {"list", "unlist"} => "lb-ips" \in ChainsOf(step)
      /\ step \in {"jump", "unrule"} => "dnat" \in ChainsOf(step)
      /\ step \in {"ports", "unrule"} => "svc" \in ChainsOf(step)
      /\ step \in {"dnat", "unrule"} => "port" \in ChainsOf(step)
      /\ step \in {"snat", "unsnat"} => "snat" \in ChainsOf(step)
      /\ step \in {"srcs", "unsrcs"} => "src-ips" \in ChainsOf(step)
  BY DEF ChainsOf
<1>1. CASE step = "list"
  <2>1. Kept(R2, {"lb-ips"}, f, s) = {r \in Requests(step, f, s, m, p) : r.chain = "lb-ips"}
    BY <1>0, <1>1, CompletedChain
  <2>2. Requests(step, f, s, m, p) = LBIPsList(m, f, s)
    BY <1>1 DEF Requests
  <2>3. \A r \in LBIPsList(m, f, s) : r.chain = "lb-ips"
    BY DEF LBIPsList, NewRow
  <2> QED
    BY <1>1, <2>1, <2>2, <2>3 DEF Does, ListOK
<1>2. CASE step = "unlist"
  <2>1. Kept(R2, {"lb-ips"}, f, s) = {r \in Requests(step, f, s, m, p) : r.chain = "lb-ips"}
    BY <1>0, <1>2, CompletedChain
  <2>2. Requests(step, f, s, m, p) = {}
    BY <1>2 DEF Requests
  <2> QED
    BY <1>2, <2>1, <2>2, NothingRequested DEF Does, ListOK
<1>3. CASE step = "jump"
  <2>1. Kept(R2, {"dnat"}, f, s) = {r \in Requests(step, f, s, m, p) : r.chain = "dnat"}
    BY <1>0, <1>3, CompletedChain
  <2>2. Requests(step, f, s, m, p) = ServiceRule(m, f, s)
    BY <1>3 DEF Requests
  <2>3. \A r \in ServiceRule(m, f, s) : r.chain = "dnat"
    BY DEF ServiceRule, NewRow
  <2> QED
    BY <1>3, <2>1, <2>2, <2>3 DEF Does, JumpOK
<1>4. CASE step = "ports"
  <2>1. Kept(R2, {"svc"}, f, s) = {r \in Requests(step, f, s, m, p) : r.chain = "svc"}
    BY <1>0, <1>4, CompletedChain
  <2>2. Requests(step, f, s, m, p) = PortRules(m, f, s)
    BY <1>4 DEF Requests
  <2>3. \A r \in PortRules(m, f, s) : r.chain = "svc"
    BY DEF PortRules, NewRow
  <2> QED
    BY <1>4, <2>1, <2>2, <2>3 DEF Does, PortsOK
<1>5. CASE step = "unrule"
  <2>1. Requests(step, f, s, m, p) = {}
    BY <1>5 DEF Requests
  <2>2. \A c \in {"dnat", "svc", "port"} : Kept(R2, {c}, f, s) = {}
    BY <1>0, <1>5, <2>1, CompletedChain
  <2>3. JumpOK(R2, s, m, f) /\ PortsOK(R2, s, m, f)
    BY <1>5, <2>2, NothingRequested DEF JumpOK, PortsOK
  <2>4. \A q \in Port \cup {None} : ChainOK(R2, s, m, f, q)
    BY <1>5, <2>2 DEF ChainOK
  <2> QED
    BY <1>5, <2>3, <2>4 DEF Does
<1>6. CASE step = "dnat"
  <2>1. Requests(step, f, s, m, p) = DNATRules(m, f, s, p)
    BY <1>6 DEF Requests
  <2>2. \A r \in DNATRules(m, f, s, p) : r.chain = "port" /\ r.port = p /\ r.family = f /\ r.svc = s
    BY DEF DNATRules, NewRow
  <2>3. \A r \in R2 : r.chain = "port" /\ r.port = p /\ r.family = f /\ r.svc = s
                      => Selects(step, f, s, m, p, r)
    BY <1>0, <1>6 DEF Selects
  <2>4. {r \in Kept(R2, {"port"}, f, s) : r.port = p} = DNATRules(m, f, s, p)
    BY <2>1, <2>2, <2>3 DEF Completes, Kept
  <2> QED
    BY <1>6, <2>4 DEF Does, ChainOK
<1>7. CASE step = "snat"
  <2>1. Kept(R2, {"snat"}, f, s) = {r \in Requests(step, f, s, m, p) : r.chain = "snat"}
    BY <1>0, <1>7, CompletedChain
  <2>2. Requests(step, f, s, m, p) = SNATServiceRule(m, f, s)
    BY <1>7 DEF Requests
  <2>3. \A r \in SNATServiceRule(m, f, s) : r.chain = "snat"
    BY DEF SNATServiceRule, NewRow
  <2> QED
    BY <1>7, <2>1, <2>2, <2>3 DEF Does, SNATOK
<1>8. CASE step = "unsnat"
  <2>1. Kept(R2, {"snat"}, f, s) = {r \in Requests(step, f, s, m, p) : r.chain = "snat"}
    BY <1>0, <1>8, CompletedChain
  <2>2. Requests(step, f, s, m, p) = {}
    BY <1>8 DEF Requests
  <2> QED
    BY <1>8, <2>1, <2>2, NothingRequested DEF Does, SNATOK
<1>9. CASE step \in {"srcs", "unsrcs"}
  <2>1. Kept(R2, {"src-ips"}, f, s) = {r \in Requests(step, f, s, m, p) : r.chain = "src-ips"}
    BY <1>0, <1>9, CompletedChain
  <2>2. Requests(step, f, s, m, p) = IF HasSNATIP(m, f) THEN SNATSrcIPsList(m, f, s) ELSE {}
    BY <1>9 DEF Requests
  <2>3. \A r \in SNATSrcIPsList(m, f, s) : r.chain = "src-ips"
    BY DEF SNATSrcIPsList, NewRow
  <2> QED
    BY <1>9, <2>1, <2>2, <2>3 DEF Does, SrcsOK
<1>10. CASE step = "stale"
  BY <1>10 DEF Does
<1> QED
  BY <1>1, <1>2, <1>3, <1>4, <1>5, <1>6, <1>7, <1>8, <1>9, <1>10 DEF ServiceSteps

\* What the Sync does not select stays as it is.
KeepsElsewhere(R, R2, s, m, g, step, f, p) ==
  /\ g # f \/ step \notin {"list", "unlist"} => (ListOK(R, s, m, g) => ListOK(R2, s, m, g))
  /\ g # f \/ step \notin {"jump", "unrule"} => (JumpOK(R, s, m, g) => JumpOK(R2, s, m, g))
  /\ g # f \/ step \notin {"ports", "unrule"} => (PortsOK(R, s, m, g) => PortsOK(R2, s, m, g))
  /\ \A q \in Port \cup {None} :
       g # f \/ ~(step = "unrule" \/ (step = "dnat" /\ q = p)) =>
         (ChainOK(R, s, m, g, q) => ChainOK(R2, s, m, g, q))
  /\ g # f \/ step \notin {"snat", "unsnat", "unrule"} => (SNATOK(R, s, m, g) => SNATOK(R2, s, m, g))
  /\ g # f \/ step \notin {"srcs", "unsrcs"} => (SrcsOK(R, s, m, g) => SrcsOK(R2, s, m, g))

LEMMA TouchedElsewhere ==
  ASSUME NEW step \in ServiceSteps, NEW f, NEW s, NEW m, NEW p, NEW R, NEW R2, NEW g,
         Touches(R, R2, step, f, s, m, p), Suits(m, f, step), step = "stale" => p \notin Ports(m)
  PROVE  KeepsElsewhere(R, R2, s, m, g, step, f, p)
<1>1. \A c : g # f \/ c \notin ChainsOf(step) => Kept(R2, {c}, g, s) = Kept(R, {c}, g, s)
  <2> SUFFICES ASSUME NEW c, g # f \/ c \notin ChainsOf(step)
               PROVE  Kept(R2, {c}, g, s) = Kept(R, {c}, g, s)
    OBVIOUS
  <2>1. g # f \/ \A d \in {c} : d \notin ChainsOf(step)
    OBVIOUS
  <2> QED
    BY <2>1, Untouched
<1>2. /\ step \notin {"list", "unlist"} => "lb-ips" \notin ChainsOf(step)
      /\ step \notin {"jump", "unrule"} => "dnat" \notin ChainsOf(step)
      /\ step \notin {"ports", "unrule"} => "svc" \notin ChainsOf(step)
      /\ step \notin {"dnat", "stale", "unrule"} => "port" \notin ChainsOf(step)
      /\ step \notin {"snat", "unsnat", "unrule"} => "snat" \notin ChainsOf(step)
      /\ step \notin {"srcs", "unsrcs"} => "src-ips" \notin ChainsOf(step)
  BY DEF ChainsOf, ServiceSteps
<1>3. ASSUME NEW q \in Port \cup {None}, ChainOK(R, s, m, g, q),
             g # f \/ ~(step = "unrule" \/ (step = "dnat" /\ q = p))
      PROVE  ChainOK(R2, s, m, g, q)
  <2>1. CASE g # f \/ step \notin {"dnat", "stale", "unrule"}
    <3>1. Kept(R2, {"port"}, g, s) = Kept(R, {"port"}, g, s)
      BY <1>1, <1>2, <2>1
    <3> QED
      BY <1>3, <3>1 DEF ChainOK
  <2>2. CASE g = f /\ step \in {"dnat", "stale"} /\ q # p
    <3>1. \A r : (r \in R \/ r \in R2) /\ r.port = q => (r \in R <=> r \in R2)
      BY <2>2, RequestsAre DEF Touches, Selects
    <3>2. {r \in Kept(R2, {"port"}, g, s) : r.port = q} = {r \in Kept(R, {"port"}, g, s) : r.port = q}
      BY <3>1 DEF Kept
    <3> QED
      BY <1>3, <3>2 DEF ChainOK
  <2>3. CASE g = f /\ step = "stale" /\ q = p
    <3>1. HasLBIP(m, g) /\ q \notin ServedPorts(m, g)
      BY <2>3 DEF Suits, ServedPorts
    <3> QED
      BY <3>1 DEF ChainOK
  <2> QED
    BY <1>3, <2>1, <2>2, <2>3
<1>4. /\ g # f \/ step \notin {"list", "unlist"} => (ListOK(R, s, m, g) => ListOK(R2, s, m, g))
      /\ g # f \/ step \notin {"jump", "unrule"} => (JumpOK(R, s, m, g) => JumpOK(R2, s, m, g))
      /\ g # f \/ step \notin {"ports", "unrule"} => (PortsOK(R, s, m, g) => PortsOK(R2, s, m, g))
  BY <1>1, <1>2 DEF ListOK, JumpOK, PortsOK
<1>5. /\ g # f \/ step \notin {"snat", "unsnat", "unrule"} => (SNATOK(R, s, m, g) => SNATOK(R2, s, m, g))
      /\ g # f \/ step \notin {"srcs", "unsrcs"} => (SrcsOK(R, s, m, g) => SrcsOK(R2, s, m, g))
  BY <1>1, <1>2 DEF SNATOK, SrcsOK
<1> QED
  BY <1>3, <1>4, <1>5 DEF KeepsElsewhere

\* A Sync without an error ...
LEMMA CompletedKeeps ==
  ASSUME NEW step \in ServiceSteps, NEW f, NEW s, NEW m, NEW p, NEW R, NEW R2, NEW g,
         Touches(R, R2, step, f, s, m, p), Completes(R2, step, f, s, m, p),
         Suits(m, f, step), step = "stale" => p \notin Ports(m)
  PROVE  Keeps(R, R2, s, m, g, step, f) /\ Does(R2, s, m, step, f, p)
<1>1. Does(R2, s, m, step, f, p)
  BY CompletedDoes
<1>2. KeepsElsewhere(R, R2, s, m, g, step, f, p)
  BY TouchedElsewhere
<1>3. ASSUME g = f, step = "unrule", ~HasSNATIP(m, g) PROVE SNATOK(R2, s, m, g)
  <2>1. "snat" \in ChainsOf(step) /\ step \notin {"dnat", "stale"}
    BY <1>3 DEF ChainsOf
  <2>2. Kept(R2, {"snat"}, f, s) = {r \in Requests(step, f, s, m, p) : r.chain = "snat"}
    BY <2>1, CompletedChain
  <2>3. Requests(step, f, s, m, p) = {}
    BY <1>3 DEF Requests
  <2> QED
    BY <1>3, <2>2, <2>3, NothingRequested DEF SNATOK
<1>4. /\ ListOK(R, s, m, g) => ListOK(R2, s, m, g)
      /\ JumpOK(R, s, m, g) => JumpOK(R2, s, m, g)
      /\ PortsOK(R, s, m, g) => PortsOK(R2, s, m, g)
      /\ SrcsOK(R, s, m, g) => SrcsOK(R2, s, m, g)
  BY <1>1, <1>2 DEF Does, KeepsElsewhere
<1>5. ~(g = f /\ step = "unrule" /\ HasSNATIP(m, g)) /\ SNATOK(R, s, m, g) => SNATOK(R2, s, m, g)
  BY <1>1, <1>2, <1>3 DEF Does, KeepsElsewhere
<1>6. \A q \in Port \cup {None} : ChainOK(R, s, m, g, q) => ChainOK(R2, s, m, g, q)
  BY <1>1, <1>2 DEF Does, KeepsElsewhere
<1> QED
  BY <1>1, <1>4, <1>5, <1>6 DEF Keeps

\* ... one that only deletes ...
LEMMA DeletingKeeps ==
  ASSUME NEW step \in {"stale", "unlist", "unrule", "unsnat", "unsrcs"},
         NEW f, NEW s, NEW m, NEW p, NEW R, NEW R2, NEW g,
         Touches(R, R2, step, f, s, m, p), Suits(m, f, step), step = "stale" => p \notin Ports(m)
  PROVE  Keeps(R, R2, s, m, g, step, f)
<1>1. KeepsElsewhere(R, R2, s, m, g, step, f, p)
  BY TouchedElsewhere DEF ServiceSteps
<1>2. \A r \in R2 : r \in R
  BY RequestsAre DEF Touches, ServiceSteps
<1>3. \A c : Kept(R, {c}, g, s) = {} => Kept(R2, {c}, g, s) = {}
  BY <1>2 DEF Kept
<1>4. CASE g = f /\ step = "unlist"
  <2>1. ListOK(R, s, m, g) => ListOK(R2, s, m, g)
    BY <1>3, <1>4, NothingRequested DEF ListOK, Suits
  <2> QED
    BY <1>1, <1>4, <2>1 DEF Keeps, KeepsElsewhere
<1>5. CASE g = f /\ step = "unrule"
  <2>1. JumpOK(R, s, m, g) => JumpOK(R2, s, m, g)
    BY <1>3, <1>5, NothingRequested DEF JumpOK, Suits
  <2>2. PortsOK(R, s, m, g) => PortsOK(R2, s, m, g)
    BY <1>3, <1>5 DEF PortsOK, Suits
  <2>3. \A q : {r \in Kept(R, {"port"}, g, s) : r.port = q} = {}
                 => {r \in Kept(R2, {"port"}, g, s) : r.port = q} = {}
    BY <1>2 DEF Kept
  <2>4. \A q \in Port \cup {None} : ChainOK(R, s, m, g, q) => ChainOK(R2, s, m, g, q)
    BY <1>5, <2>3 DEF ChainOK, Suits
  <2>5. ~HasSNATIP(m, g) /\ SNATOK(R, s, m, g) => SNATOK(R2, s, m, g)
    BY <1>3, NothingRequested DEF SNATOK
  <2> QED
    BY <1>1, <1>5, <2>1, <2>2, <2>4, <2>5 DEF Keeps, KeepsElsewhere
<1>6. CASE g = f /\ step = "unsnat"
  <2>1. SNATOK(R, s, m, g) => SNATOK(R2, s, m, g)
    BY <1>3, <1>6, NothingRequested DEF SNATOK, Suits
  <2> QED
    BY <1>1, <1>6, <2>1 DEF Keeps, KeepsElsewhere
<1>7. CASE g = f /\ step = "unsrcs"
  <2>1. SrcsOK(R, s, m, g) => SrcsOK(R2, s, m, g)
    BY <1>3, <1>7 DEF SrcsOK, Suits
  <2> QED
    BY <1>1, <1>7, <2>1 DEF Keeps, KeepsElsewhere
<1>8. CASE g # f \/ step = "stale"
  BY <1>1, <1>8 DEF Keeps, KeepsElsewhere
<1> QED
  BY <1>4, <1>5, <1>6, <1>7, <1>8

\* ... and the rewriting of a port chain, even with an error.
LEMMA RewritingKeeps ==
  ASSUME NEW f, NEW s, NEW m, NEW p \in ServedPorts(m, f), NEW g, Suits(m, f, "dnat"),
         NEW R2 \in HalfSynced(Selected("dnat", f, s, m, p), Requests("dnat", f, s, m, p))
  PROVE  Keeps(rows, R2, s, m, g, "dnat", f)
<1>1. "dnat" \in ServiceSteps /\ "dnat" # "stale"
  BY DEF ServiceSteps
<1>2. Touches(rows, R2, "dnat", f, s, m, p)
  BY <1>1, HalfSyncedTouches
<1>3. KeepsElsewhere(rows, R2, s, m, g, "dnat", f, p)
  BY <1>1, <1>2, TouchedElsewhere
<1>4. ASSUME g = f, ChainOK(rows, s, m, f, p) PROVE R2 = rows
  <2>1. PICK own : own = Selected("dnat", f, s, m, p)
    OBVIOUS
  <2>2. PICK reqs : reqs = Requests("dnat", f, s, m, p)
    OBVIOUS
  <2>3. own = {r \in Kept(rows, {"port"}, f, s) : r.port = p}
    BY <2>1 DEF Selected, PortChain, Own, Kept
  <2>4. reqs = DNATRules(m, f, s, p)
    BY <2>2 DEF Requests
  <2>5. own = reqs
    BY <1>4, <2>3, <2>4 DEF ChainOK, Suits
  <2>6. \A r, q \in reqs : SameKey(r, q) => r = q
    BY <2>4 DEF SameKey, DNATRules, NewRow
  <2>7. \A r \in reqs : SameKey(r, r)
    BY DEF SameKey
  <2>8. Conflicts(own, reqs) = {}
    BY <2>5, <2>7 DEF Conflicts
  <2>9. reqs \subseteq rows
    BY <2>3, <2>5 DEF Kept
  <2>10. R2 \in HalfSynced(own, reqs)
    BY <2>1, <2>2
  <2>11. CASE \E gone \in SUBSET Conflicts(own, reqs) : R2 = rows \ gone
    BY <2>8, <2>11
  <2>12. CASE \E done \in SUBSET reqs :
            R2 = (rows \ (Conflicts(own, reqs) \cup {r \in own : \E q \in done : SameKey(r, q)})) \cup done
    <3>1. PICK done \in SUBSET reqs :
            R2 = (rows \ (Conflicts(own, reqs) \cup {r \in own : \E q \in done : SameKey(r, q)})) \cup done
      BY <2>12
    <3>2. {r \in own : \E q \in done : SameKey(r, q)} = done
      BY <2>5, <2>6, <2>7
    <3> QED
      BY <2>8, <2>9, <3>1, <3>2
  <2> QED
    BY <2>10, <2>11, <2>12 DEF HalfSynced
<1>5. \A q \in Port \cup {None} : ChainOK(rows, s, m, g, q) => ChainOK(R2, s, m, g, q)
  BY <1>3, <1>4 DEF KeepsElsewhere
<1> QED
  BY <1>3, <1>5 DEF Keeps, KeepsElsewhere

-----------------------------------------------------------------------------
(***************************************************************************)
(* The rest of a call after one of its Syncs.                              *)
(***************************************************************************)
LEMMA AheadTail ==
  ASSUME NEW todo \in Seq(Todo), todo # << >>, NEW g, NEW S, Ahead(todo, g, S)
  PROVE  (todo[1].family = g /\ todo[1].step \in S) \/ Ahead(Tail(todo), g, S)
<1>1. PICK k \in 1..Len(todo) : todo[k].family = g /\ todo[k].step \in S
  BY DEF Ahead
<1>2. CASE k = 1
  BY <1>1, <1>2
<1>3. CASE k # 1
  <2>1. k - 1 \in 1..(Len(todo) - 1) /\ (k - 1) + 1 = k
    BY <1>3, HeadTail
  <2>2. Tail(todo)[k - 1] = todo[k] /\ k - 1 \in 1..Len(Tail(todo))
    BY <2>1, HeadTail
  <2> QED
    BY <1>1, <2>2 DEF Ahead
<1> QED
  BY <1>2, <1>3

LEMMA AheadPrepended ==
  ASSUME NEW todo \in Seq(Todo), todo # << >>, NEW x \in Todo, NEW t, t = <<x>> \o Tail(todo),
         NEW g, NEW S, Ahead(Tail(todo), g, S)
  PROVE  Ahead(t, g, S)
<1>1. PICK k \in 1..Len(Tail(todo)) : Tail(todo)[k].family = g /\ Tail(todo)[k].step \in S
  BY DEF Ahead
<1>2. k \in 1..(Len(todo) - 1)
  BY <1>1, HeadTail
<1>3. Tail(todo)[k] = todo[k + 1] /\ k + 1 \in 2..Len(todo)
  BY <1>2, HeadTail
<1>4. t[k + 1] = todo[k + 1] /\ Len(t) = Len(todo)
  BY <1>3, Prepended
<1>5. k + 1 \in 1..Len(t)
  BY <1>3, <1>4, HeadTail
<1> QED
  BY <1>1, <1>3, <1>4, <1>5 DEF Ahead

LEMMA PlanTail ==
  ASSUME NEW todo \in Seq(Todo), todo # << >>, NEW m, Plan(m, todo)
  PROVE  /\ Plan(m, Tail(todo))
         /\ \A k \in 1..Len(Tail(todo)) : Tail(todo)[k].step # "stale"
         /\ todo[1].step = "unrule" => Ahead(Tail(todo), todo[1].family, {"snat", "unsnat"})
<1>1. PICK n : n = Len(todo)
  OBVIOUS
<1>2. n \in Nat /\ n >= 1 /\ Len(Tail(todo)) = n - 1
  BY <1>1, HeadTail
<1>3. \A k \in 1..(n - 1) : k + 1 \in 1..n /\ k + 1 \in 2..n /\ Tail(todo)[k] = todo[k + 1]
  BY <1>1, <1>2, HeadTail
<1>4. \A l \in 2..n : l - 1 \in 1..(n - 1) /\ Tail(todo)[l - 1] = todo[l]
  <2> SUFFICES ASSUME NEW l \in 2..n
               PROVE  l - 1 \in 1..(n - 1) /\ Tail(todo)[l - 1] = todo[l]
    OBVIOUS
  <2>1. l - 1 \in 1..(n - 1) /\ (l - 1) + 1 = l
    BY <1>2
  <2> QED
    BY <1>3, <2>1
<1>5. \A k \in 1..(n - 1) : Suits(m, Tail(todo)[k].family, Tail(todo)[k].step) /\ Tail(todo)[k].step # "stale"
  BY <1>1, <1>3 DEF Plan
<1>6. ASSUME NEW k \in 1..n, todo[k].step = "unrule"
      PROVE  \E l \in 2..n : k < l /\ todo[l].family = todo[k].family /\ todo[l].step \in {"snat", "unsnat"}
  <2>1. PICK l \in 1..n : k < l /\ todo[l].family = todo[k].family /\ todo[l].step \in {"snat", "unsnat"}
    BY <1>1, <1>6 DEF Plan, RuleRestored
  <2>2. l \in 2..n
    BY <1>2, <2>1
  <2> QED
    BY <2>1, <2>2
<1>7. RuleRestored(Tail(todo))
  <2> SUFFICES ASSUME NEW k \in 1..(n - 1), Tail(todo)[k].step = "unrule"
               PROVE  \E l \in 1..(n - 1) : /\ k < l /\ Tail(todo)[l].family = Tail(todo)[k].family
                                            /\ Tail(todo)[l].step \in {"snat", "unsnat"}
    BY <1>2 DEF RuleRestored
  <2>1. k + 1 \in 1..n /\ todo[k + 1].step = "unrule" /\ Tail(todo)[k] = todo[k + 1]
    BY <1>3
  <2>2. PICK l \in 2..n : k + 1 < l /\ todo[l].family = todo[k + 1].family /\ todo[l].step \in {"snat", "unsnat"}
    BY <1>6, <2>1
  <2>3. l - 1 \in 1..(n - 1) /\ k < l - 1 /\ Tail(todo)[l - 1] = todo[l]
    BY <1>2, <1>4, <2>2
  <2> QED
    BY <2>1, <2>2, <2>3
<1>8. ASSUME todo[1].step = "unrule"
      PROVE  Ahead(Tail(todo), todo[1].family, {"snat", "unsnat"})
  <2>1. 1 \in 1..n
    BY <1>2
  <2>2. PICK l \in 2..n : todo[l].family = todo[1].family /\ todo[l].step \in {"snat", "unsnat"}
    BY <1>6, <1>8, <2>1
  <2>3. l - 1 \in 1..(n - 1) /\ Tail(todo)[l - 1] = todo[l]
    BY <1>4
  <2> QED
    BY <1>2, <2>2, <2>3 DEF Ahead
<1>9. \A k \in 2..(n - 1) : k \in 1..(n - 1)
  BY <1>2
<1> QED
  BY <1>2, <1>5, <1>7, <1>8, <1>9 DEF Plan

LEMMA PlanPrepended ==
  ASSUME NEW todo \in Seq(Todo), todo # << >>, NEW m, Plan(m, todo), NEW x \in Todo,
         x.step = "stale", Suits(m, x.family, "stale"), NEW t, t = <<x>> \o Tail(todo)
  PROVE  Plan(m, t)
<1>1. PICK n : n = Len(todo)
  OBVIOUS
<1>2. n \in Nat /\ n >= 1 /\ Len(t) = n /\ t[1] = x /\ \A k \in 2..n : t[k] = todo[k]
  BY <1>1, HeadTail, Prepended
<1>3. \A k \in 1..n : k = 1 \/ k \in 2..n
  BY <1>2
<1>4. \A k \in 1..n : Suits(m, t[k].family, t[k].step)
  BY <1>1, <1>2, <1>3 DEF Plan
<1>5. \A k \in 2..n : t[k].step # "stale"
  BY <1>1, <1>2 DEF Plan
<1>6. RuleRestored(t)
  <2> SUFFICES ASSUME NEW k \in 1..n, t[k].step = "unrule"
               PROVE  \E l \in 1..n : /\ k < l /\ t[l].family = t[k].family
                                      /\ t[l].step \in {"snat", "unsnat"}
    BY <1>2 DEF RuleRestored
  <2>1. k \in 2..n /\ t[k] = todo[k]
    BY <1>2, <1>3
  <2>2. PICK l \in 1..n : k < l /\ todo[l].family = todo[k].family /\ todo[l].step \in {"snat", "unsnat"}
    BY <1>1, <2>1 DEF Plan, RuleRestored
  <2>3. l \in 2..n
    BY <1>2, <2>2
  <2> QED
    BY <1>2, <2>1, <2>2, <2>3
<1> QED
  BY <1>2, <1>4, <1>5, <1>6 DEF Plan

\* The head of todo was the last Sync of its kind: the next one's turn.
LEMMA DoneTail ==
  ASSUME NEW todo \in Seq(Todo), todo # << >>, NEW m, Plan(m, todo),
         NEW R, NEW R2, NEW s, NEW p, NEW g, NEW left2,
         DoneFor(R, s, m, g, todo, {p}),
         Keeps(R, R2, s, m, g, todo[1].step, todo[1].family),
         Does(R2, s, m, todo[1].step, todo[1].family, p),
         Tail(todo) # << >> /\ Tail(todo)[1].step = "dnat" => left2 = ServedPorts(m, Tail(todo)[1].family)
  PROVE  DoneFor(R2, s, m, g, Tail(todo), left2)
<1>1. PICK f : f = todo[1].family
  OBVIOUS
<1>2. PICK step : step = todo[1].step
  OBVIOUS
<1>3. PICK T : T = Tail(todo)
  OBVIOUS
<1>4. \A S : Ahead(todo, g, S) => (f = g /\ step \in S) \/ Ahead(T, g, S)
  BY <1>1, <1>2, <1>3, AheadTail
<1>5. Keeps(R, R2, s, m, g, step, f) /\ Does(R2, s, m, step, f, p)
  BY <1>1, <1>2
<1>6. /\ ListOK(R2, s, m, g) \/ Ahead(T, g, {"list", "unlist"})
      /\ JumpOK(R2, s, m, g) \/ Ahead(T, g, {"jump", "unrule"})
      /\ PortsOK(R2, s, m, g) \/ Ahead(T, g, {"ports", "unrule"})
      /\ SrcsOK(R2, s, m, g) \/ Ahead(T, g, {"srcs", "unsrcs"})
  BY <1>4, <1>5 DEF DoneFor, Keeps, Does
<1>7. SNATOK(R2, s, m, g) \/ Ahead(T, g, {"snat", "unsnat"})
  <2>1. CASE g = f /\ step = "unrule"
    BY <1>1, <1>2, <1>3, <2>1, PlanTail
  <2>2. CASE ~(g = f /\ step = "unrule")
    BY <1>4, <1>5, <2>2 DEF DoneFor, Keeps, Does
  <2> QED
    BY <2>1, <2>2
<1>8. ASSUME NEW q \in Port \cup {None} PROVE ChainOK(R2, s, m, g, q) \/ ChainAhead(T, left2, g, q)
  <2>1. CASE ChainOK(R, s, m, g, q)
    BY <1>5, <2>1 DEF Keeps
  <2>2. CASE Ahead(todo, g, {"unrule"})
    BY <1>4, <1>5, <2>2 DEF Does, ChainAhead
  <2>3. ASSUME NEW k \in 1..Len(todo), todo[k].family = g, todo[k].step = "dnat", k = 1 => q \in {p}
        PROVE  ChainOK(R2, s, m, g, q) \/ ChainAhead(T, left2, g, q)
    <3>1. CASE k = 1
      BY <1>1, <1>2, <1>5, <2>3, <3>1 DEF Does
    <3>2. CASE k # 1 /\ q \in ServedPorts(m, g)
      <4>1. k - 1 \in 1..(Len(todo) - 1) /\ (k - 1) + 1 = k
        BY <3>2, HeadTail
      <4>2. T[k - 1] = todo[k] /\ k - 1 \in 1..Len(T)
        BY <1>3, <4>1, HeadTail
      <4>3. k - 1 = 1 => q \in left2
        <5>1. SUFFICES ASSUME k - 1 = 1 PROVE q \in left2
          OBVIOUS
        <5>2. T[1] = todo[k] /\ T # << >>
          BY <4>2, <5>1
        <5> QED
          BY <1>3, <2>3, <3>2, <5>2
      <4> QED
        BY <2>3, <4>2, <4>3 DEF ChainAhead
    <3>3. CASE q \notin ServedPorts(m, g)
      <4>1. Suits(m, g, "dnat")
        BY <2>3 DEF Plan
      <4> QED
        BY <3>3, <4>1 DEF Suits, ChainOK
    <3> QED
      BY <3>1, <3>2, <3>3
  <2>4. ChainOK(R, s, m, g, q) \/ ChainAhead(todo, {p}, g, q)
    BY DEF DoneFor
  <2> QED
    BY <2>1, <2>2, <2>3, <2>4 DEF ChainAhead
<1>9. DoneFor(R2, s, m, g, T, left2)
  BY <1>6, <1>7, <1>8 DEF DoneFor
<1> QED
  BY <1>3, <1>9

\* A cleanup of stale chains is put before the rest.
LEMMA DonePrepended ==
  ASSUME NEW todo \in Seq(Todo), todo # << >>, NEW m, NEW x \in Todo, NEW t, t = <<x>> \o Tail(todo),
         NEW R, NEW s, NEW g, NEW left2, NEW left3,
         DoneFor(R, s, m, g, Tail(todo), left2)
  PROVE  DoneFor(R, s, m, g, t, left3)
<1>1. PICK T : T = Tail(todo)
  OBVIOUS
<1>2. \A S : Ahead(T, g, S) => Ahead(t, g, S)
  BY <1>1, AheadPrepended
<1>3. ASSUME NEW q, ChainAhead(T, left2, g, q) PROVE ChainAhead(t, left3, g, q)
  <2>1. CASE Ahead(T, g, {"unrule"})
    BY <1>2, <2>1 DEF ChainAhead
  <2>2. CASE \E k \in 1..Len(T) : T[k].family = g /\ T[k].step = "dnat"
    <3>1. PICK k \in 1..Len(T) : T[k].family = g /\ T[k].step = "dnat"
      BY <2>2
    <3>2. k \in 1..(Len(todo) - 1)
      BY <1>1, <3>1, HeadTail
    <3>3. T[k] = todo[k + 1] /\ k + 1 \in 2..Len(todo)
      BY <1>1, <3>2, HeadTail
    <3>4. t[k + 1] = todo[k + 1] /\ Len(t) = Len(todo)
      BY <3>3, Prepended
    <3>5. k + 1 \in 1..Len(t) /\ k + 1 # 1
      BY <3>3, <3>4, HeadTail
    <3> QED
      BY <3>1, <3>3, <3>4, <3>5 DEF ChainAhead
  <2> QED
    BY <1>3, <2>1, <2>2 DEF ChainAhead
<1>4. DoneFor(R, s, m, g, T, left2)
  BY <1>1
<1> QED
  BY <1>2, <1>3, <1>4 DEF DoneFor

\* More port chains are left.
LEMMA DoneHere ==
  ASSUME NEW todo \in Seq(Todo), todo # << >>, NEW m,
         NEW R, NEW R2, NEW s, NEW p, NEW g, NEW left,
         DoneFor(R, s, m, g, todo, left), todo[1].step \in {"dnat", "stale"},
         Keeps(R, R2, s, m, g, todo[1].step, todo[1].family),
         Does(R2, s, m, todo[1].step, todo[1].family, p)
  PROVE  DoneFor(R2, s, m, g, todo, left \ {p})
<1>1. \A q \in Port \cup {None} : ChainOK(R2, s, m, g, q) \/ ChainAhead(todo, left \ {p}, g, q)
  <2> SUFFICES ASSUME NEW q \in Port \cup {None}
               PROVE  ChainOK(R2, s, m, g, q) \/ ChainAhead(todo, left \ {p}, g, q)
    OBVIOUS
  <2>1. CASE ChainOK(R, s, m, g, q)
    BY <2>1 DEF Keeps
  <2>2. CASE ChainAhead(todo, left, g, q) /\ q # p
    BY <2>2 DEF ChainAhead
  <2>3. CASE ChainAhead(todo, left, g, q) /\ q = p
    <3>1. CASE todo[1].step = "dnat" /\ todo[1].family = g
      BY <2>3, <3>1 DEF Does
    <3>2. CASE ~(todo[1].step = "dnat" /\ todo[1].family = g)
      BY <2>3, <3>2 DEF ChainAhead
    <3> QED
      BY <3>1, <3>2
  <2> QED
    BY <2>1, <2>2, <2>3 DEF DoneFor
<1> QED
  BY <1>1 DEF DoneFor, Keeps

-----------------------------------------------------------------------------
(***************************************************************************)
(* The invariant.                                                          *)
(***************************************************************************)
WantInv == \A s \in Svc : \A t \in Svc \ {s} : Uses(want[s]) \cap Uses(want[t]) = {}

NoSharing ==
  Working => \A t \in settled :
    IF t = call.svc THEN call.model = want[t] ELSE Uses(call.model) \cap Uses(want[t]) = {}

PlanInv ==
  Working =>
    /\ call.svc \in Svc
    /\ call.op = "delete" => call.model = Gone
    /\ Plan(call.model, call.todo)
    /\ LeftFits(call.model, Head(call.todo).family, Head(call.todo).step, call.left)

CallDone ==
  Working /\ ~call.failed =>
    \A f \in Family : DoneFor(rows, call.svc, call.model, f, call.todo, call.left)

Busy(s) == Working /\ call.svc = s
SettledExact == \A s \in settled : \A f \in Family : Exact(rows, s, want[s], f, Busy(s))

Guarded == Family \X BaseRule \subseteq base
GuardInv ==
  /\ rows # {} \/ call.op # "setup" => Guarded
  /\ call.op = "setup" =>
       /\ \A f \in Family, b \in BaseRule :
            <<f, b>> \in base \/ \E k \in 1..Len(call.todo) : call.todo[k] = [family |-> f, step |-> b]
       /\ \A k \in 1..Len(call.todo) : call.todo[k].step \in BaseRule

BackendInv == TypeOK /\ WantInv /\ NoSharing /\ PlanInv /\ CallDone /\ SettledExact /\ GuardInv

LEMMA ModelTyped ==
  ASSUME NEW m \in Models \cup {Gone}, NEW f
  PROVE  /\ m.lb \subseteq Address /\ m.snat \subseteq Address
         /\ Ports(m) \subseteq Port /\ ServedPorts(m, f) \subseteq Ports(m)
         /\ EndpointsOf(m, f) \subseteq Endpoint /\ \A p : Behind(m, f, p) \subseteq Endpoint
         /\ OfFamily(f, m.lb) \subseteq m.lb /\ OfFamily(f, m.snat) \subseteq m.snat
<1>1. m.lb \subseteq Address /\ m.snat \subseteq Address /\ m.slices \subseteq Slice
  BY ModelsAssumption DEF Model, Gone
<1>2. \A sl \in m.slices : sl.ips \subseteq Endpoint /\ sl.ports \subseteq Port
  BY <1>1 DEF Slice
<1>3. Ports(m) \subseteq Port /\ ServedPorts(m, f) \subseteq Ports(m)
  BY <1>2 DEF Ports, ServedPorts
<1>4. EndpointsOf(m, f) \subseteq Endpoint
  BY <1>2 DEF EndpointsOf, OfFamily
<1>5. \A p : Behind(m, f, p) \subseteq Endpoint
  BY <1>2 DEF Behind, OfFamily
<1> QED
  BY <1>1, <1>3, <1>4, <1>5 DEF OfFamily

LEMMA RequestsTyped ==
  ASSUME NEW step \in ServiceSteps, NEW f \in Family, NEW s \in Svc, NEW m \in Models \cup {Gone}, NEW p,
         step = "dnat" => p \in Port
  PROVE  Requests(step, f, s, m, p) \subseteq Row
<1> USE DEF Requests, NewRow, Row, Chain
<1>1. CASE step = "dnat"
  BY <1>1, ModelTyped DEF DNATRules
<1>2. CASE step = "ports"
  BY <1>2, ModelTyped DEF PortRules
<1>3. CASE step = "jump"
  BY <1>3, ModelTyped DEF ServiceRule
<1>4. CASE step = "list"
  BY <1>4, ModelTyped DEF LBIPsList
<1>5. CASE step = "srcs"
  BY <1>5, ModelTyped DEF SNATSrcIPsList
<1>6. CASE step = "snat"
  BY <1>6, ModelTyped DEF SNATServiceRule
<1>7. CASE step \in {"stale", "unlist", "unrule", "unsnat", "unsrcs"}
  BY <1>7
<1> QED
  BY <1>1, <1>2, <1>3, <1>4, <1>5, <1>6, <1>7 DEF ServiceSteps

\* The next Sync of a running call.
NextSync(s, m, todo, left, step, f) ==
  /\ s \in Svc /\ m \in Models \cup {Gone} /\ todo \in Seq(Todo) /\ todo # << >>
  /\ step = todo[1].step /\ f = todo[1].family /\ step \in ServiceSteps /\ f \in Family
  /\ left \subseteq Port \cup {None}
  /\ Plan(m, todo) /\ Suits(m, f, step) /\ LeftFits(m, f, step, left)

LEMMA RunningCall ==
  ASSUME TypeOK, PlanInv, Working
  PROVE  /\ NextSync(call.svc, call.model, call.todo, call.left, Head(call.todo).step, Head(call.todo).family)
         /\ Head(call.todo) = call.todo[1] /\ call \in Call /\ call.failed \in BOOLEAN
<1>1. call \in Call /\ call.todo # << >>
  BY DEF TypeOK, Working
<1>2. call.todo \in Seq(Todo) /\ call.model \in Models \cup {Gone} /\ call.left \subseteq Port \cup {None}
  BY <1>1 DEF Call
<1>3. call.failed \in BOOLEAN
  BY <1>1 DEF Call
<1>4. Head(call.todo) = call.todo[1] /\ call.todo[1] \in Todo /\ 1 \in 1..Len(call.todo)
  BY <1>1, <1>2, HeadTail
<1>5. call.todo[1].family \in Family
  BY <1>4 DEF Todo
<1>6. /\ call.svc \in Svc /\ Plan(call.model, call.todo)
      /\ LeftFits(call.model, Head(call.todo).family, Head(call.todo).step, call.left)
  BY DEF PlanInv
<1>7. Suits(call.model, call.todo[1].family, call.todo[1].step)
  BY <1>4, <1>6 DEF Plan
<1>8. call.todo[1].step \in ServiceSteps
  BY <1>7 DEF Suits, ServiceSteps
<1> QED
  BY <1>1, <1>2, <1>3, <1>4, <1>5, <1>6, <1>7, <1>8 DEF NextSync

\* What a Sync for chain p leaves, with an error or without one.
LEMMA SyncLeaves ==
  ASSUME NEW s, NEW m, NEW todo, NEW left, NEW step, NEW f, NextSync(s, m, todo, left, step, f),
         NEW p \in left, NEW R, R \subseteq Row, NEW R2, Touches(R, R2, step, f, s, m, p)
  PROVE  R2 \subseteq Row
<1>1. step = "dnat" => p \in Port
  BY ModelTyped DEF NextSync, LeftFits
<1>2. Requests(step, f, s, m, p) \subseteq Row
  BY <1>1, RequestsTyped DEF NextSync
<1> QED
  BY <1>2 DEF Touches

\* Another service that is settled keeps what it has: it shares no address with the call.
LEMMA OthersKept ==
  ASSUME TypeOK, PlanInv, NoSharing, SettledExact, Working, NEW p \in call.left,
         Touches(rows, rows', Head(call.todo).step, Head(call.todo).family, call.svc, call.model, p),
         NEW t \in settled, t # call.svc, NEW g \in Family
  PROVE  Exact(rows', t, want[t], g, FALSE)
<1>1. PICK s, m, step, f : s = call.svc /\ m = call.model /\ step = Head(call.todo).step
                           /\ f = Head(call.todo).family
  OBVIOUS
<1>2. step \in ServiceSteps /\ Touches(rows, rows', step, f, s, m, p)
  BY <1>1, RunningCall DEF NextSync
<1>3. \A h \in Family : Exact(rows, t, want[t], h, FALSE)
  BY DEF SettledExact, Busy
<1>4. Uses(m) \cap Uses(want[t]) = {}
  BY <1>1 DEF NoSharing
<1>5. ASSUME NEW r \in rows, r.chain = "lb-ips", r.svc = t PROVE r.addr \notin m.lb
  <2>1. r.family \in Family
    BY DEF TypeOK, Row
  <2>2. ListOK(rows, t, want[t], r.family)
    BY <1>3, <2>1 DEF Exact, LBExact
  <2>3. r \in LBIPsList(want[t], r.family, t)
    BY <1>5, <2>2 DEF ListOK, Kept
  <2>4. r.addr \in want[t].lb
    BY <2>3 DEF LBIPsList, NewRow, OfFamily
  <2> QED
    BY <1>4, <2>4 DEF Uses
<1>6. Exact(rows, t, want[t], g, FALSE)
  BY <1>3
<1> QED
  BY <1>1, <1>2, <1>5, <1>6, OthersUntouched

\* The service of the call itself keeps what it has, but for the SNAT rule.
LEMMA OwnKept ==
  ASSUME NEW s, NEW m, NEW g, NEW step, NEW f, NEW R, NEW R2,
         Keeps(R, R2, s, m, g, step, f), Suits(m, f, step), Exact(R, s, m, g, TRUE)
  PROVE  Exact(R2, s, m, g, TRUE)
<1>1. step = "unrule" => ~HasLBIP(m, f)
  BY DEF Suits
<1>2. LBExact(R2, s, m, g) /\ SrcsOK(R2, s, m, g)
  BY DEF Keeps, Exact, LBExact
<1>3. HasLBIP(m, g) \/ ~HasSNATIP(m, g) => SNATOK(R2, s, m, g)
  BY <1>1 DEF Keeps, Exact
<1> QED
  BY <1>2, <1>3 DEF Exact

\* A call that has nothing ahead any more leaves the service's objects exact.
LEMMA NothingAhead ==
  ASSUME NEW s, NEW m, NEW g, NEW R, NEW left, DoneFor(R, s, m, g, << >>, left)
  PROVE  Exact(R, s, m, g, FALSE)
<1>1. \A S : ~Ahead(<< >>, g, S)
  BY DEF Ahead
<1>2. \A q : ~ChainAhead(<< >>, left, g, q)
  BY <1>1 DEF ChainAhead
<1> QED
  BY <1>1, <1>2 DEF DoneFor, Exact, LBExact

LEMMA LeftForFits ==
  ASSUME NEW t \in Seq(Todo), t # << >>, NEW m \in Models \cup {Gone}, Plan(m, t), t[1].step # "stale"
  PROVE  /\ LeftFits(m, t[1].family, t[1].step, LeftFor(t, m))
         /\ LeftFor(t, m) \subseteq Port \cup {None} /\ LeftFor(t, m) # {}
         /\ t[1].step = "dnat" => LeftFor(t, m) = ServedPorts(m, t[1].family)
<1>1. Head(t) = t[1] /\ 1 \in 1..Len(t)
  BY HeadTail
<1>2. Suits(m, t[1].family, t[1].step)
  BY <1>1 DEF Plan
<1>3. ServedPorts(m, t[1].family) \subseteq Port
  BY ModelTyped
<1> QED
  BY <1>1, <1>2, <1>3 DEF LeftFor, LeftFits, Suits

CallTyped ==
  /\ settled \subseteq Svc /\ call \in Call
  /\ call.op = "idle" => call = Idle
  /\ call.op # "idle" => call.todo # << >> /\ call.left # {}
CallInv == CallTyped /\ NoSharing /\ PlanInv /\ CallDone /\ SettledExact

LEMMA IdleTyped == Idle \in Call /\ Idle.op = "idle"
<1>1. << >> \in Seq(Todo)
  OBVIOUS
<1> QED
  BY <1>1 DEF Idle, Call

\* The call returns, the objects of its service being exact if it says so.
LEMMA Returns ==
  ASSUME TypeOK, NoSharing, PlanInv, SettledExact, Working, NEW p \in call.left, NEW ok \in BOOLEAN,
         Return(ok), want' = want,
         Touches(rows, rows', Head(call.todo).step, Head(call.todo).family, call.svc, call.model, p),
         ok => \A g \in Family : Exact(rows', call.svc, call.model, g, FALSE)
  PROVE  CallInv'
<1>1. call' = Idle
  BY DEF Return
<1>2. CallTyped'
  BY <1>1, IdleTyped, RunningCall DEF CallTyped, TypeOK, Return, NextSync
<1>3. ~Working'
  BY <1>1 DEF Working, Idle
<1>4. SettledExact'
  <2> SUFFICES ASSUME NEW t \in settled', NEW g \in Family
               PROVE  Exact(rows', t, want[t], g, FALSE)
    BY <1>3 DEF SettledExact, Busy
  <2>1. CASE t # call.svc
    <3>1. t \in settled
      BY <2>1 DEF Return
    <3> QED
      BY <2>1, <3>1, OthersKept
  <2>2. CASE t = call.svc
    <3>1. ok /\ call.model = want[t]
      BY <2>2 DEF Return
    <3> QED
      BY <2>2, <3>1
  <2> QED
    BY <2>1, <2>2
<1> QED
  BY <1>2, <1>3, <1>4 DEF CallInv, NoSharing, PlanInv, CallDone

\* The call goes on with the Syncs of t, and the chains left2.
LEMMA Continues ==
  ASSUME TypeOK, NoSharing, PlanInv, SettledExact, Working, NEW p \in call.left, NEW failed \in BOOLEAN,
         NEW t \in Seq(Todo), t # << >>, NEW left2 \in SUBSET (Port \cup {None}), left2 # {},
         call' = [call EXCEPT !.todo = t, !.left = left2, !.failed = failed],
         settled' = settled, want' = want,
         Touches(rows, rows', Head(call.todo).step, Head(call.todo).family, call.svc, call.model, p),
         \A g \in Family : Keeps(rows, rows', call.svc, call.model, g,
                                 Head(call.todo).step, Head(call.todo).family),
         Plan(call.model, t), LeftFits(call.model, t[1].family, t[1].step, left2),
         ~failed => \A g \in Family : DoneFor(rows', call.svc, call.model, g, t, left2)
  PROVE  CallInv'
<1>1. call \in Call
  BY DEF TypeOK
<1>2. /\ call'.op = call.op /\ call'.svc = call.svc /\ call'.model = call.model
      /\ call'.todo = t /\ call'.left = left2 /\ call'.failed = failed
  BY <1>1 DEF Call
<1>3. call' \in Call
  BY <1>1 DEF Call
<1>4. call.op # "idle" /\ Working'
  BY <1>2 DEF Working
<1>5. CallTyped'
  BY <1>2, <1>3, <1>4 DEF CallTyped, TypeOK
<1>6. NoSharing'
  BY <1>2 DEF NoSharing
<1>7. PlanInv'
  <2>1. Head(t) = t[1]
    BY HeadTail
  <2> QED
    BY <1>2, <2>1 DEF PlanInv
<1>8. CallDone'
  BY <1>2 DEF CallDone
<1>9. SettledExact'
  <2> SUFFICES ASSUME NEW u \in settled, NEW g \in Family
               PROVE  Exact(rows', u, want[u], g, Busy(u)')
    BY DEF SettledExact
  <2>1. CASE u # call.svc
    <3>1. Exact(rows', u, want[u], g, FALSE)
      BY <2>1, OthersKept
    <3>2. ~Busy(u)'
      BY <1>2, <2>1 DEF Busy
    <3> QED
      BY <3>1, <3>2 DEF Exact
  <2>2. CASE u = call.svc
    <3>1. call.model = want[u]
      BY <2>2 DEF NoSharing
    <3>2. Exact(rows, u, want[u], g, TRUE) /\ Busy(u)'
      BY <1>2, <1>4, <2>2 DEF SettledExact, Busy
    <3>3. Suits(call.model, Head(call.todo).family, Head(call.todo).step)
      BY RunningCall DEF NextSync
    <3>4. Exact(rows', u, want[u], g, TRUE)
      BY <2>2, <3>1, <3>2, <3>3, OwnKept
    <3> QED
      BY <3>2, <3>4 DEF Exact
  <2> QED
    BY <2>1, <2>2
<1> QED
  BY <1>5, <1>6, <1>7, <1>8, <1>9 DEF CallInv

\* Either way, after a Sync that kept what was right (and set right what it was for).
LEMMA GoesOn ==
  ASSUME TypeOK, NoSharing, PlanInv, CallDone, SettledExact, Working,
         NEW p \in call.left, NEW failed \in BOOLEAN, call.failed => failed,
         NEW extra, NEW extraLeft,
         \/ extra = << >>
         \/ /\ extra = <<[family |-> Head(call.todo).family, step |-> "stale"]>>
            /\ Head(call.todo).step = "ports"
            /\ extraLeft # {} /\ extraLeft \subseteq Port \cup {None} /\ extraLeft \cap Ports(call.model) = {},
         GoOn(p, failed, extra, extraLeft), want' = want,
         Touches(rows, rows', Head(call.todo).step, Head(call.todo).family, call.svc, call.model, p),
         \A g \in Family : Keeps(rows, rows', call.svc, call.model, g,
                                 Head(call.todo).step, Head(call.todo).family),
         ~failed => Does(rows', call.svc, call.model, Head(call.todo).step, Head(call.todo).family, p)
  PROVE  CallInv'
<1>1. PICK s, m, todo, left : s = call.svc /\ m = call.model /\ todo = call.todo /\ left = call.left
  OBVIOUS
<1>2. PICK step, f : step = Head(call.todo).step /\ f = Head(call.todo).family
  OBVIOUS
<1>3. NextSync(s, m, todo, left, step, f) /\ Head(todo) = todo[1] /\ call \in Call /\ call.failed \in BOOLEAN
  BY <1>1, <1>2, RunningCall
<1>4. /\ s \in Svc /\ m \in Models \cup {Gone} /\ todo \in Seq(Todo) /\ todo # << >>
      /\ step = todo[1].step /\ f = todo[1].family /\ f \in Family /\ left \subseteq Port \cup {None}
      /\ Plan(m, todo) /\ LeftFits(m, f, step, left)
  BY <1>3 DEF NextSync
<1>5. ASSUME ~failed, NEW g \in Family
      PROVE  /\ DoneFor(rows, s, m, g, todo, left)
             /\ Keeps(rows, rows', s, m, g, todo[1].step, todo[1].family)
             /\ Does(rows', s, m, todo[1].step, todo[1].family, p)
  BY <1>1, <1>2, <1>4, <1>5 DEF CallDone
<1>6. CASE left # {p}
  <2>1. /\ call' = [call EXCEPT !.left = left \ {p}, !.failed = failed]
        /\ settled' = settled
    BY <1>1, <1>6 DEF GoOn
  <2>2. call' = [call EXCEPT !.todo = todo, !.left = left \ {p}, !.failed = failed]
    BY <1>1, <1>3, <2>1 DEF Call
  <2>3. left \ {p} # {} /\ left \ {p} \in SUBSET (Port \cup {None})
    BY <1>1, <1>4, <1>6
  <2>4. step \in {"dnat", "stale"} /\ LeftFits(m, f, step, left \ {p})
    BY <1>1, <1>4, <1>6, <2>3 DEF LeftFits
  <2>5. ~failed => \A g \in Family : DoneFor(rows', s, m, g, todo, left \ {p})
    <3> SUFFICES ASSUME ~failed, NEW g \in Family PROVE DoneFor(rows', s, m, g, todo, left \ {p})
      OBVIOUS
    <3> QED
      BY <1>4, <1>5, <2>4, DoneHere
  <2> QED
    BY <1>1, <1>4, <2>1, <2>2, <2>3, <2>4, <2>5, Continues
<1>7. CASE left = {p} /\ extra = << >>
  <2>1. PICK T : T = Tail(todo)
    OBVIOUS
  <2>2. T \in Seq(Todo) /\ extra \o Tail(call.todo) = T
    BY <1>1, <1>4, <1>7, <2>1, HeadTail, EmptyConcat
  <2>3. Plan(m, T) /\ \A k \in 1..Len(T) : T[k].step # "stale"
    BY <1>4, <2>1, PlanTail
  <2>4. T # << >> => T[1].step # "stale" /\ (T[1].step = "dnat" => LeftFor(T, m) = ServedPorts(m, T[1].family))
    <3>1. SUFFICES ASSUME T # << >>
                   PROVE  T[1].step # "stale" /\ (T[1].step = "dnat" => LeftFor(T, m) = ServedPorts(m, T[1].family))
      OBVIOUS
    <3>2. 1 \in 1..Len(T)
      BY <2>2, <3>1, HeadTail
    <3> QED
      BY <1>4, <2>2, <2>3, <3>1, <3>2, LeftForFits
  <2>5. ~failed => \A g \in Family : DoneFor(rows', s, m, g, T, LeftFor(T, m))
    <3> SUFFICES ASSUME ~failed, NEW g \in Family PROVE DoneFor(rows', s, m, g, T, LeftFor(T, m))
      OBVIOUS
    <3>1. DoneFor(rows, s, m, g, todo, {p})
      BY <1>5, <1>7
    <3> QED
      BY <1>4, <1>5, <2>1, <2>4, <3>1, DoneTail
  <2>6. CASE T = << >> \/ (failed /\ step = "dnat")
    <3>1. Return(~failed)
      BY <1>1, <1>2, <1>7, <2>2, <2>6 DEF GoOn
    <3>2. ~failed => \A g \in Family : Exact(rows', s, m, g, FALSE)
      <4> SUFFICES ASSUME ~failed, NEW g \in Family PROVE Exact(rows', s, m, g, FALSE)
        OBVIOUS
      <4>1. DoneFor(rows', s, m, g, << >>, LeftFor(T, m))
        BY <2>5, <2>6
      <4> QED
        BY <4>1, NothingAhead
    <3>3. PICK ok \in BOOLEAN : ok = ~failed
      OBVIOUS
    <3>4. Return(ok)
      BY <3>1, <3>3 DEF Return
    <3> QED
      BY <1>1, <3>2, <3>3, <3>4, Returns
  <2>7. CASE ~(T = << >> \/ (failed /\ step = "dnat"))
    <3>1. /\ call' = [call EXCEPT !.todo = T, !.failed = failed, !.left = LeftFor(T, m)]
          /\ settled' = settled
      BY <1>1, <1>2, <1>7, <2>2, <2>7 DEF GoOn
    <3>2. call' = [call EXCEPT !.todo = T, !.left = LeftFor(T, m), !.failed = failed]
      BY <1>3, <3>1 DEF Call
    <3>3. /\ LeftFits(m, T[1].family, T[1].step, LeftFor(T, m))
          /\ LeftFor(T, m) \in SUBSET (Port \cup {None}) /\ LeftFor(T, m) # {}
      BY <1>4, <2>2, <2>3, <2>4, <2>7, LeftForFits
    <3> QED
      BY <1>1, <2>2, <2>3, <2>5, <2>7, <3>1, <3>2, <3>3, Continues
  <2> QED
    BY <2>6, <2>7
<1>8. CASE left = {p} /\ extra # << >>
  <2>1. PICK x \in Todo : x = [family |-> f, step |-> "stale"]
    BY <1>4 DEF Todo, Steps
  <2>2. PICK t : t = <<x>> \o Tail(todo)
    OBVIOUS
  <2>3. extra = <<x>> /\ step = "ports" /\ x.family = f /\ x.step = "stale"
    BY <1>2, <1>8, <2>1
  <2>4. t \in Seq(Todo) /\ Len(t) = Len(todo) /\ t[1] = x /\ t # << >>
    BY <1>4, <2>2, Prepended, HeadTail
  <2>5. extra \o Tail(call.todo) = t
    BY <1>1, <2>2, <2>3
  <2>6. /\ call' = [call EXCEPT !.todo = t, !.failed = failed, !.left = extraLeft]
        /\ settled' = settled
    BY <1>1, <1>2, <1>8, <2>3, <2>4, <2>5 DEF GoOn
  <2>7. call' = [call EXCEPT !.todo = t, !.left = extraLeft, !.failed = failed]
    BY <1>3, <2>6 DEF Call
  <2>8. Suits(m, f, "stale")
    BY <1>3, <2>3 DEF NextSync, Suits
  <2>9. Plan(m, t)
    BY <1>4, <2>1, <2>2, <2>3, <2>8, PlanPrepended
  <2>10. LeftFits(m, t[1].family, t[1].step, extraLeft) /\ extraLeft \in SUBSET (Port \cup {None})
    BY <1>1, <1>8, <2>3, <2>4 DEF LeftFits
  <2>11. ~failed => \A g \in Family : DoneFor(rows', s, m, g, t, extraLeft)
    <3> SUFFICES ASSUME ~failed, NEW g \in Family PROVE DoneFor(rows', s, m, g, t, extraLeft)
      OBVIOUS
    <3>1. DoneFor(rows, s, m, g, todo, {p})
      BY <1>5, <1>8
    <3>2. PICK left2 : left2 = ServedPorts(m, Tail(todo)[1].family)
      OBVIOUS
    <3>3. DoneFor(rows', s, m, g, Tail(todo), left2)
      BY <1>4, <1>5, <3>1, <3>2, DoneTail
    <3> QED
      BY <1>4, <2>1, <2>2, <3>3, DonePrepended
  <2> QED
    BY <1>1, <1>8, <2>4, <2>6, <2>7, <2>9, <2>10, <2>11, Continues
<1> QED
  BY <1>6, <1>7, <1>8

-----------------------------------------------------------------------------
(***************************************************************************)
(* Every action keeps the invariant.                                       *)
(***************************************************************************)
LEMMA SetupTodoIs ==
  /\ SetupTodo \in Seq(Todo) /\ SetupTodo # << >>
  /\ \A k \in 1..Len(SetupTodo) : SetupTodo[k].step \in BaseRule
  /\ \A f \in Family, b \in BaseRule :
       \E k \in 1..Len(SetupTodo) : SetupTodo[k] = [family |-> f, step |-> b]
<1>1. PICK P : P = <<"reject", "accept", "mangle", ConnectionChainRule, SNATRule>>
  OBVIOUS
<1>2. P \in Seq(Steps) /\ Len(P) = 5
  BY <1>1 DEF Steps, BaseRule, FilterRule
<1>3. \A b \in BaseRule : \E k \in 1..5 : P[k] = b
  BY <1>1 DEF BaseRule, FilterRule
<1>4. PICK t : t = SetupTodo
  OBVIOUS
<1>5. t = InOrder("ipv4", P) \o InOrder("ipv6", P)
  BY <1>1, <1>4 DEF SetupTodo, PerFamily
<1>6. /\ t \in Seq(Todo) /\ Len(t) = 10 /\ t # << >>
      /\ \A k \in 1..5 : t[k] = [family |-> "ipv4", step |-> P[k]]
      /\ \A k \in 1..5 : t[5 + k] = [family |-> "ipv6", step |-> P[k]]
  <2>1. FamilyShape(t, P, P)
    BY <1>2, <1>5, FamiliesInOrder
  <2>2. t \in Seq(Todo) /\ Len(t) = Len(P) + Len(P)
    BY <2>1 DEF FamilyShape
  <2>3. Len(t) = 10 /\ t # << >>
    BY <1>2, <2>2
  <2>4. /\ \A k \in 1..Len(P) : t[k] = [family |-> "ipv4", step |-> P[k]]
        /\ \A k \in 1..Len(P) : t[Len(P) + k] = [family |-> "ipv6", step |-> P[k]]
    BY <2>1 DEF FamilyShape
  <2> QED
    BY <1>2, <2>2, <2>3, <2>4
<1>7. \A k \in 1..5 : k \in 1..10 /\ 5 + k \in 1..10
  OBVIOUS
<1>8. \A k \in 1..5 : P[k] \in BaseRule
  BY <1>1 DEF BaseRule, FilterRule
<1>9. ASSUME NEW k \in 1..10 PROVE t[k].step \in BaseRule
  <2>1. CASE k \in 1..5
    BY <1>6, <1>8, <2>1
  <2>2. CASE k \notin 1..5
    <3>1. k - 5 \in 1..5 /\ k = 5 + (k - 5)
      BY <2>2
    <3>2. t[k] = [family |-> "ipv6", step |-> P[k - 5]]
      BY <1>6, <3>1
    <3> QED
      BY <1>8, <3>1, <3>2
  <2> QED
    BY <2>1, <2>2
<1>10. ASSUME NEW f \in Family, NEW b \in BaseRule
      PROVE  \E k \in 1..Len(t) : t[k] = [family |-> f, step |-> b]
  <2>1. PICK k \in 1..5 : P[k] = b
    BY <1>3
  <2>2. CASE f = "ipv4"
    BY <1>6, <1>7, <2>1, <2>2
  <2>3. CASE f = "ipv6"
    BY <1>6, <1>7, <2>1, <2>3
  <2> QED
    BY <2>2, <2>3 DEF Family
<1> QED
  BY <1>4, <1>6, <1>10, <1>9

LEMMA SetupCallIs ==
  /\ SetupCall \in Call /\ SetupCall.op = "setup"
  /\ SetupCall.todo = SetupTodo /\ SetupCall.left # {}
<1>1. PICK t : t = SetupTodo
  OBVIOUS
<1>2. t \in Seq(Todo) /\ t # << >>
  BY <1>1, SetupTodoIs
<1>3. LeftFor(t, Gone) \subseteq Port \cup {None} /\ LeftFor(t, Gone) # {}
  <2>1. t[1] = [family |-> "ipv4", step |-> "reject"]
    <3>1. PICK P : P = <<"reject", "accept", "mangle", ConnectionChainRule, SNATRule>>
      OBVIOUS
    <3>2. P \in Seq(Steps) /\ Len(P) = 5 /\ P[1] = "reject"
      BY <3>1 DEF Steps, BaseRule, FilterRule
    <3>3. t = InOrder("ipv4", P) \o InOrder("ipv6", P)
      BY <1>1, <3>1 DEF SetupTodo, PerFamily
    <3>4. 1 \in 1..Len(P)
      BY <3>2
    <3>5. FamilyShape(t, P, P)
      BY <3>2, <3>3, FamiliesInOrder
    <3> QED
      BY <3>2, <3>4, <3>5 DEF FamilyShape
  <2> QED
    BY <1>2, <2>1, HeadTail DEF LeftFor
<1> QED
  BY <1>1, <1>2, <1>3 DEF SetupCall, NewCall, Call

LEMMA BackendInitInv == Init => BackendInv
<1> SUFFICES ASSUME Init PROVE BackendInv
  OBVIOUS
<1> USE DEF Init
<1>1. call \in Call /\ call.op = "setup" /\ call.todo = SetupTodo /\ call.todo # << >> /\ call.left # {}
  BY SetupCallIs, SetupTodoIs
<1>2. TypeOK
  BY <1>1 DEF TypeOK
<1>3. ~Working
  BY <1>1 DEF Working
<1>4. WantInv
  BY DEF WantInv, Uses, Gone
<1>5. SettledExact
  <2> SUFFICES ASSUME NEW s \in Svc, NEW f \in Family PROVE Exact({}, s, Gone, f, FALSE)
    BY <1>3 DEF SettledExact, Busy, Exact
  <2>1. \A C : Kept({}, C, f, s) = {}
    BY DEF Kept
  <2> QED
    BY <2>1, GoneUsesNothing, NothingRequested
    DEF Exact, LBExact, ListOK, JumpOK, PortsOK, ChainOK, SNATOK, SrcsOK
<1>6. GuardInv
  BY <1>1, SetupTodoIs DEF GuardInv
<1> QED
  BY <1>2, <1>3, <1>4, <1>5, <1>6 DEF BackendInv, NoSharing, PlanInv, CallDone

LEMMA ChangeStep ==
  ASSUME BackendInv, NEW s \in Svc, Change(s)
  PROVE  BackendInv'
<1> USE DEF BackendInv, Change
<1>1. PICK m \in Models \cup {Gone} : /\ want' = [want EXCEPT ![s] = m]
                                     /\ \A t \in Svc \ {s} : Uses(m) \cap Uses(want[t]) = {}
  OBVIOUS
<1>2. want \in [Svc -> Models \cup {Gone}] /\ settled \subseteq Svc
  BY DEF TypeOK
<1>3. \A t \in settled' : t \in settled /\ want'[t] = want[t]
  BY <1>1, <1>2
<1>4. TypeOK'
  BY <1>1, <1>2, BackendBoundAssumption DEF TypeOK
<1>5. WantInv'
  BY <1>1, <1>2 DEF WantInv
<1>6. NoSharing' /\ PlanInv' /\ CallDone' /\ GuardInv'
  BY <1>3 DEF NoSharing, PlanInv, CallDone, GuardInv, Guarded, Working
<1>7. SettledExact'
  BY <1>3 DEF SettledExact, Busy, Working
<1> QED
  BY <1>4, <1>5, <1>6, <1>7

LEMMA BeginStep ==
  ASSUME BackendInv, NEW s \in Svc, NEW op \in {"ensure", "delete"}, NEW t,
         op = "delete" => want[s] = Gone, PlanFor(want[s], t),
         call = Idle, call' = NewCall(op, s, want[s], t),
         UNCHANGED <<base, rows, want, settled, changes, faults>>
  PROVE  BackendInv'
<1> USE DEF BackendInv
<1>1. PICK m \in Models \cup {Gone} : m = want[s]
  BY DEF TypeOK
<1>2. /\ t \in Seq(Todo) /\ t # << >> /\ Plan(m, t) /\ t[1].step # "stale" /\ Head(t) = t[1]
      /\ \A f \in Family : AllAhead(t, m, f)
  <2>1. t \in Seq(Todo) /\ t # << >> /\ Plan(m, t) /\ \A f \in Family : AllAhead(t, m, f)
    BY <1>1 DEF PlanFor
  <2>2. Head(t) = t[1] /\ 1 \in 1..Len(t)
    BY <2>1, HeadTail
  <2> QED
    BY <1>1, <2>1, <2>2 DEF PlanFor
<1>3. PICK left : left = LeftFor(t, m)
  OBVIOUS
<1>4. LeftFits(m, t[1].family, t[1].step, left) /\ left \subseteq Port \cup {None} /\ left # {}
      /\ (t[1].step = "dnat" => left = ServedPorts(m, t[1].family))
  BY <1>2, <1>3, LeftForFits
<1>5. /\ call'.op = op /\ call'.svc = s /\ call'.model = m /\ call'.todo = t /\ call'.left = left
      /\ call'.failed = FALSE /\ call' \in Call /\ Working'
  BY <1>1, <1>2, <1>3, <1>4 DEF NewCall, Call, Working
<1>6. TypeOK'
  BY <1>2, <1>4, <1>5 DEF TypeOK
<1>7. NoSharing'
  BY <1>1, <1>5 DEF NoSharing, WantInv, TypeOK
<1>8. PlanInv'
  BY <1>1, <1>2, <1>4, <1>5 DEF PlanInv
<1>9. CallDone'
  <2> SUFFICES ASSUME NEW f \in Family PROVE DoneFor(rows, s, m, f, t, left)
    BY <1>5 DEF CallDone
  <2>1. AllAhead(t, m, f)
    BY <1>2
  <2>2. ASSUME NEW p \in Port \cup {None} PROVE ChainOK(rows, s, m, f, p) \/ ChainAhead(t, left, f, p)
    <3>1. CASE ~HasLBIP(m, f)
      BY <2>1, <3>1 DEF AllAhead, ChainAhead
    <3>2. CASE HasLBIP(m, f) /\ p \notin ServedPorts(m, f)
      BY <3>2 DEF ChainOK
    <3>3. CASE HasLBIP(m, f) /\ p \in ServedPorts(m, f)
      <4>1. PICK k \in 1..Len(t) : t[k].family = f /\ t[k].step = "dnat"
        BY <2>1, <3>3 DEF AllAhead, Ahead
      <4>2. k = 1 => p \in left
        BY <1>4, <3>3, <4>1
      <4> QED
        BY <4>1, <4>2 DEF ChainAhead
    <3> QED
      BY <3>1, <3>2, <3>3
  <2> QED
    BY <2>1, <2>2 DEF DoneFor, AllAhead
<1>10. SettledExact'
  <2> SUFFICES ASSUME NEW u \in settled, NEW f \in Family PROVE Exact(rows, u, want[u], f, Busy(u)')
    BY DEF SettledExact
  <2>1. ~Busy(u)
    BY DEF Busy, Working, Idle
  <2>2. Exact(rows, u, want[u], f, Busy(u))
    BY DEF SettledExact
  <2> QED
    BY <2>1, <2>2 DEF Exact
<1>11. GuardInv'
  BY <1>5 DEF GuardInv, Guarded, Idle
<1> QED
  BY <1>6, <1>7, <1>8, <1>9, <1>10, <1>11 DEF WantInv

LEMMA WorkingGuarded ==
  ASSUME BackendInv, Working, CallInv', rows' \subseteq Row, UNCHANGED <<base, want, changes>>, faults' \in Nat,
         call' = Idle \/ call'.op = call.op
  PROVE  BackendInv'
<1>1. TypeOK'
  BY DEF BackendInv, TypeOK, CallInv, CallTyped
<1>2. WantInv'
  BY DEF BackendInv, WantInv
<1>3. call.op # "setup" /\ call'.op # "setup"
  BY DEF Working, Idle
<1>4. GuardInv'
  BY <1>3 DEF BackendInv, GuardInv, Guarded
<1> QED
  BY <1>1, <1>2, <1>4 DEF BackendInv, CallInv

LEMMA GoOnSameOp ==
  ASSUME TypeOK, NEW p, NEW failed, NEW extra, NEW extraLeft, GoOn(p, failed, extra, extraLeft)
  PROVE  call' = Idle \/ call'.op = call.op
<1>1. call \in Call
  BY DEF TypeOK
<1> QED
  BY <1>1 DEF GoOn, Return, Call

LEMMA SyncOKStep ==
  ASSUME BackendInv, SyncOK
  PROVE  BackendInv'
<1> USE DEF BackendInv
<1>1. PICK step, f : step = Head(call.todo).step /\ f = Head(call.todo).family
  OBVIOUS
<1>2. Working
  BY DEF SyncOK
<1>3. PICK p \in call.left :
        /\ rows' = Synced(Selected(step, f, call.svc, call.model, p),
                          Requests(step, f, call.svc, call.model, p))
        /\ IF step = "ports" /\ StaleChains(f) # {}
           THEN GoOn(p, call.failed, <<[family |-> f, step |-> "stale"]>>, StaleChains(f))
           ELSE GoOn(p, call.failed, << >>, {})
  BY <1>1 DEF SyncOK
<1>4. /\ NextSync(call.svc, call.model, call.todo, call.left, step, f)
      /\ call.failed \in BOOLEAN
  BY <1>1, <1>2, RunningCall
<1>5. step \in ServiceSteps /\ Suits(call.model, f, step) /\ (step = "stale" => p \notin Ports(call.model))
  BY <1>4 DEF NextSync, LeftFits
<1>6. Touches(rows, rows', step, f, call.svc, call.model, p) /\ Completes(rows', step, f, call.svc, call.model, p)
  BY <1>3, <1>5, SyncedTouches
<1>7. /\ \A g \in Family : Keeps(rows, rows', call.svc, call.model, g, step, f)
      /\ Does(rows', call.svc, call.model, step, f, p)
  BY <1>5, <1>6, CompletedKeeps, CompletedDoes
<1>8. rows' \subseteq Row
  BY <1>4, <1>6, SyncLeaves DEF TypeOK
<1>9. UNCHANGED <<base, want, changes>> /\ faults' \in Nat
  BY DEF SyncOK, TypeOK
<1>10. CASE step = "ports" /\ StaleChains(f) # {}
  <2>1. GoOn(p, call.failed, <<[family |-> f, step |-> "stale"]>>, StaleChains(f))
    BY <1>3, <1>10
  <2>2. StaleChains(f) \subseteq Port \cup {None} /\ StaleChains(f) \cap Ports(call.model) = {}
    BY DEF StaleChains, Own, TypeOK, Row
  <2>3. CallInv'
    BY <1>1, <1>2, <1>4, <1>6, <1>7, <1>9, <1>10, <2>1, <2>2, GoesOn
  <2> QED
    BY <1>2, <1>8, <1>9, <2>1, <2>3, GoOnSameOp, WorkingGuarded
<1>11. CASE ~(step = "ports" /\ StaleChains(f) # {})
  <2>1. GoOn(p, call.failed, << >>, {})
    BY <1>3, <1>11
  <2>2. CallInv'
    BY <1>1, <1>2, <1>4, <1>6, <1>7, <1>9, <2>1, GoesOn
  <2> QED
    BY <1>2, <1>8, <1>9, <2>1, <2>2, GoOnSameOp, WorkingGuarded
<1> QED
  BY <1>10, <1>11

LEMMA SyncFailsStep ==
  ASSUME BackendInv, SyncFails
  PROVE  BackendInv'
<1> USE DEF BackendInv
<1>1. PICK step, f : step = Head(call.todo).step /\ f = Head(call.todo).family
  OBVIOUS
<1>2. Working
  BY DEF SyncFails
<1>3. PICK p \in call.left :
        /\ rows' \in HalfSynced(Selected(step, f, call.svc, call.model, p),
                                Requests(step, f, call.svc, call.model, p))
        /\ IF Logged(step) \/ Collected(step)
           THEN GoOn(p, call.failed \/ ~Logged(step), << >>, {})
           ELSE Return(FALSE)
  BY <1>1 DEF SyncFails
<1>4. /\ NextSync(call.svc, call.model, call.todo, call.left, step, f)
      /\ call.failed \in BOOLEAN
  BY <1>1, <1>2, RunningCall
<1>5. /\ step \in ServiceSteps /\ Suits(call.model, f, step)
      /\ step = "stale" => p \notin Ports(call.model)
      /\ step = "dnat" => p \in ServedPorts(call.model, f)
  BY <1>4 DEF NextSync, LeftFits
<1>6. Touches(rows, rows', step, f, call.svc, call.model, p)
  BY <1>3, <1>5, HalfSyncedTouches
<1>7. rows' \subseteq Row
  BY <1>4, <1>6, SyncLeaves DEF TypeOK
<1>8. UNCHANGED <<base, want, changes>> /\ faults' \in Nat
  BY DEF SyncFails, Fault, TypeOK
<1>9. CASE Logged(step) \/ Collected(step)
  <2>1. PICK failed \in BOOLEAN : failed = (call.failed \/ ~Logged(step))
    OBVIOUS
  <2>2. GoOn(p, failed, << >>, {})
    BY <1>3, <1>9, <2>1
  <2>3. step \in {"dnat", "stale", "unlist", "unrule", "unsnat", "unsrcs"}
    <3>1. CASE step \in {"dnat", "stale"}
      BY <3>1
    <3>2. CASE call.op = "delete"
      <4>1. call.model = Gone
        BY <1>2, <3>2 DEF PlanInv
      <4>2. ~HasLBIP(Gone, f) /\ ~HasSNATIP(Gone, f)
        BY GoneUsesNothing
      <4> QED
        BY <1>5, <4>1, <4>2 DEF Suits
    <3> QED
      BY <1>9, <3>1, <3>2 DEF Logged, Collected
  <2>4. \A g \in Family : Keeps(rows, rows', call.svc, call.model, g, step, f)
    <3> SUFFICES ASSUME NEW g \in Family PROVE Keeps(rows, rows', call.svc, call.model, g, step, f)
      OBVIOUS
    <3>1. CASE step = "dnat"
      BY <1>3, <1>5, <3>1, RewritingKeeps
    <3>2. CASE step \in {"stale", "unlist", "unrule", "unsnat", "unsrcs"}
      BY <1>5, <1>6, <3>2, DeletingKeeps
    <3> QED
      BY <2>3, <3>1, <3>2
  <2>5. ~failed => Does(rows', call.svc, call.model, step, f, p)
    BY <2>1 DEF Logged, Does
  <2>6. call.failed => failed
    BY <2>1
  <2>7. CallInv'
    BY <1>1, <1>2, <1>4, <1>6, <1>8, <2>2, <2>4, <2>5, <2>6, GoesOn
  <2> QED
    BY <1>2, <1>7, <1>8, <2>2, <2>7, GoOnSameOp, WorkingGuarded
<1>10. CASE ~(Logged(step) \/ Collected(step))
  <2>1. Return(FALSE)
    BY <1>3, <1>10
  <2>2. CallInv'
    BY <1>1, <1>2, <1>6, <1>8, <2>1, Returns
  <2>3. call' = Idle
    BY <2>1 DEF Return
  <2> QED
    BY <1>2, <1>7, <1>8, <2>2, <2>3, WorkingGuarded
<1> QED
  BY <1>9, <1>10

\* Setup is running: its call has a Sync ahead.
LEMMA SetupStep ==
  ASSUME BackendInv, SetupSync
  PROVE  BackendInv'
<1>1. PICK todo, T : todo = call.todo /\ T = Tail(todo)
  OBVIOUS
<1>2. TypeOK /\ GuardInv /\ WantInv /\ SettledExact
  BY DEF BackendInv
<1>3. /\ call.op = "setup" /\ base' = base \cup {<<Head(todo).family, Head(todo).step>>}
      /\ call' = IF Len(todo) = 1 THEN Idle ELSE [call EXCEPT !.todo = T]
      /\ UNCHANGED <<rows, want, settled, changes, faults>>
  BY <1>1 DEF SetupSync
<1>4. call \in Call /\ todo \in Seq(Todo) /\ todo # << >> /\ call.left # {} /\ ~Working
  BY <1>1, <1>2, <1>3 DEF TypeOK, Call, Working
<1>5. /\ Head(todo) = todo[1] /\ todo[1] \in Todo /\ 1 \in 1..Len(todo) /\ Len(todo) \in Nat
      /\ T \in Seq(Todo) /\ Len(T) = Len(todo) - 1
      /\ \A k \in 1..(Len(todo) - 1) : T[k] = todo[k + 1]
  BY <1>1, <1>4, HeadTail
<1>6. base' \subseteq Family \X BaseRule
  BY <1>1, <1>2, <1>3, <1>5 DEF TypeOK, Todo, GuardInv
<1>7. ASSUME NEW f \in Family, NEW b \in BaseRule
      PROVE  <<f, b>> \in base' \/ \E k \in 1..Len(T) : T[k] = [family |-> f, step |-> b]
  <2> SUFFICES ASSUME <<f, b>> \notin base'
               PROVE  \E k \in 1..Len(T) : T[k] = [family |-> f, step |-> b]
    OBVIOUS
  <2>1. PICK k \in 1..Len(todo) : todo[k] = [family |-> f, step |-> b]
    BY <1>1, <1>2, <1>3 DEF GuardInv
  <2>2. k # 1
    BY <1>3, <1>5, <2>1
  <2>3. k - 1 \in 1..(Len(todo) - 1) /\ (k - 1) + 1 = k
    BY <1>5, <2>2
  <2>4. T[k - 1] = todo[k] /\ k - 1 \in 1..Len(T)
    BY <1>5, <2>3
  <2> QED
    BY <2>1, <2>4
<1>8. CASE Len(todo) = 1
  <2>1. call' = Idle /\ Idle \in Call /\ Idle.op = "idle"
    BY <1>3, <1>8, IdleTyped
  <2>2. TypeOK' /\ ~Working'
    BY <1>2, <1>3, <1>6, <2>1 DEF TypeOK, Working
  <2>3. Guarded'
    <3>1. Len(T) = 0
      BY <1>5, <1>8
    <3>2. 1..Len(T) = {}
      BY <3>1
    <3>3. \A f \in Family, b \in BaseRule : <<f, b>> \in base'
      BY <1>7, <3>2
    <3> QED
      BY <3>3 DEF Guarded
  <2>4. GuardInv'
    BY <2>1, <2>3 DEF GuardInv
  <2> QED
    BY <1>2, <1>3, <1>4, <2>2, <2>4
    DEF BackendInv, NoSharing, PlanInv, CallDone, SettledExact, Busy, WantInv
<1>9. CASE Len(todo) # 1
  <2>1. call' = [call EXCEPT !.todo = T]
    BY <1>3, <1>9
  <2>2. T # << >>
    BY <1>5, <1>9
  <2>3. /\ call' \in Call /\ call'.op = "setup" /\ call'.todo = T /\ call'.left = call.left
    BY <1>3, <1>4, <1>5, <2>1 DEF Call
  <2>4. TypeOK' /\ ~Working'
    BY <1>2, <1>3, <1>4, <1>6, <2>2, <2>3 DEF TypeOK, Working
  <2>5. ASSUME NEW k \in 1..Len(T) PROVE T[k].step \in BaseRule
    <3>1. k \in 1..(Len(todo) - 1) /\ k + 1 \in 1..Len(todo)
      BY <1>5
    <3>2. T[k] = todo[k + 1]
      BY <1>5, <3>1
    <3> QED
      BY <1>1, <1>2, <1>3, <3>1, <3>2 DEF GuardInv
  <2>6. rows' # {} => Guarded'
    BY <1>2, <1>3 DEF GuardInv, Guarded
  <2>7. GuardInv'
    BY <1>7, <2>3, <2>5, <2>6 DEF GuardInv
  <2> QED
    BY <1>2, <1>3, <1>4, <2>4, <2>7
    DEF BackendInv, NoSharing, PlanInv, CallDone, SettledExact, Busy, WantInv
<1> QED
  BY <1>8, <1>9

LEMMA RestartStep ==
  ASSUME BackendInv, call' = SetupCall, base \subseteq base', base' \subseteq Family \X BaseRule,
         settled' \subseteq settled, UNCHANGED <<rows, want, changes>>, faults' \in Nat,
         \A s \in settled' : ~Busy(s)
  PROVE  BackendInv'
<1> USE DEF BackendInv
<1>1. /\ call' \in Call /\ call'.op = "setup" /\ call'.todo = SetupTodo /\ call'.todo # << >>
      /\ call'.left # {} /\ ~Working'
  BY SetupCallIs, SetupTodoIs DEF Working
<1>2. TypeOK'
  BY <1>1 DEF TypeOK
<1>3. SettledExact'
  <2> SUFFICES ASSUME NEW u \in settled', NEW f \in Family PROVE Exact(rows, u, want[u], f, Busy(u)')
    BY DEF SettledExact
  <2>1. u \in settled /\ ~Busy(u)
    OBVIOUS
  <2>2. Exact(rows, u, want[u], f, Busy(u))
    BY <2>1 DEF SettledExact
  <2> QED
    BY <2>1, <2>2 DEF Exact
<1>4. GuardInv'
  <2>1. rows' # {} => Guarded'
    BY DEF GuardInv, Guarded
  <2> QED
    BY <1>1, <2>1, SetupTodoIs DEF GuardInv
<1> QED
  BY <1>1, <1>2, <1>3, <1>4 DEF NoSharing, PlanInv, CallDone, WantInv

LEMMA BackendNextInv == BackendInv /\ [Next]_vars => BackendInv'
<1> SUFFICES ASSUME BackendInv, [Next]_vars PROVE BackendInv'
  OBVIOUS
<1>1. CASE UNCHANGED vars
  BY <1>1 DEF vars, BackendInv, TypeOK, WantInv, NoSharing, PlanInv, CallDone, SettledExact, Busy,
              GuardInv, Guarded, Working
<1>2. ASSUME NEW s \in Svc, Change(s) PROVE BackendInv'
  BY <1>2, ChangeStep
<1>3. ASSUME NEW s \in Svc, EnsureService(s) PROVE BackendInv'
  <2>1. PlanFor(want[s], EnsureTodo(want[s]))
    BY EnsurePlan
  <2> QED
    BY <1>3, <2>1, BeginStep DEF EnsureService
<1>4. ASSUME NEW s \in Svc, DeleteService(s) PROVE BackendInv'
  <2>1. want[s] = Gone /\ PlanFor(want[s], DeleteTodo)
    BY <1>4, DeletePlan DEF DeleteService
  <2>2. call' = NewCall("delete", s, want[s], DeleteTodo)
    BY <1>4, <2>1 DEF DeleteService
  <2> QED
    BY <1>4, <2>1, <2>2, BeginStep DEF DeleteService
<1>5. CASE SyncOK
  BY <1>5, SyncOKStep
<1>6. CASE SyncFails
  BY <1>6, SyncFailsStep
<1>7. CASE SetupSync
  BY <1>7, SetupStep
<1>8. CASE SetupFails
  <2>1. call \in Call /\ call.todo # << >>
    BY <1>8 DEF SetupFails, BackendInv, TypeOK
  <2>2. call.todo \in Seq(Todo)
    BY <2>1 DEF Call
  <2>3. Head(call.todo) = call.todo[1] /\ call.todo[1] \in Todo /\ 1 \in 1..Len(call.todo)
    BY <2>1, <2>2, HeadTail
  <2>4. base' \subseteq Family \X BaseRule /\ base \subseteq base'
    BY <1>8, <2>3 DEF SetupFails, BackendInv, TypeOK, GuardInv, Todo
  <2>5. \A s \in settled' : ~Busy(s)
    BY <1>8 DEF SetupFails, Busy, Working
  <2>6. faults' \in Nat
    BY <1>8 DEF SetupFails, Fault, BackendInv, TypeOK
  <2> QED
    BY <1>8, <2>4, <2>5, <2>6, RestartStep DEF SetupFails
<1>9. CASE Crash
  <2>1. \A s \in settled' : ~Busy(s)
    BY <1>9 DEF Crash, Busy
  <2>2. faults' \in Nat /\ base \subseteq base' /\ base' \subseteq Family \X BaseRule
    BY <1>9 DEF Crash, Fault, BackendInv, TypeOK
  <2> QED
    BY <1>9, <2>1, <2>2, RestartStep DEF Crash
<1> QED
  BY <1>1, <1>2, <1>3, <1>4, <1>5, <1>6, <1>7, <1>8, <1>9 DEF Next

\* The invariant of the running calls holds throughout.
THEOREM BackendInvariant == Spec => []BackendInv
  BY BackendInitInv, BackendNextInv, PTL DEF Spec

-----------------------------------------------------------------------------
(***************************************************************************)
(* What the firewall does follows from the objects it has.                 *)
(***************************************************************************)
LEMMA ExactForwarding ==
  ASSUME BackendInv
  PROVE  ForwardedExactly
<1> SUFFICES ASSUME NEW s \in settled
             PROVE  /\ Served(s)
                    /\ \A a \in Address, p \in Port, e \in Endpoint :
                         Forwards(s, a, p, e) =>
                           /\ a \in want[s].lb /\ p \in Ports(want[s])
                           /\ p \in ServedPorts(want[s], FamilyOf[a]) => e \in Behind(want[s], FamilyOf[a], p)
  BY DEF ForwardedExactly
<1>1. s \in Svc /\ want[s] \in Models \cup {Gone}
  BY DEF BackendInv, TypeOK
<1>2. PICK m \in Models \cup {Gone} : m = want[s]
  BY <1>1
<1>3. \A f \in Family : LBExact(rows, s, m, f)
  BY <1>2 DEF BackendInv, SettledExact, Exact
<1>4. \A a \in Address : FamilyOf[a] \in Family
  BY FamilyAssumption
<1>5. ASSUME NEW a \in m.lb, NEW p \in Ports(m), NEW e \in Behind(m, FamilyOf[a], p)
      PROVE  Forwards(s, a, p, e)
  <2>1. PICK f \in Family : f = FamilyOf[a]
    BY <1>4, ModelTyped
  <2>2. a \in OfFamily(f, m.lb) /\ HasLBIP(m, f) /\ p \in ServedPorts(m, f) /\ p \in Port
    BY <1>5, <2>1, ModelTyped DEF OfFamily, HasLBIP, ServedPorts
  <2>3. NewRow("lb-ips", s, f, None, a) \in rows
    BY <1>3, <2>2 DEF LBExact, ListOK, LBIPsList, Kept
  <2>4. NewRow("dnat", s, f, None, a) \in rows
    BY <1>3, <2>2 DEF LBExact, JumpOK, ServiceRule, Kept
  <2>5. NewRow("svc", s, f, p, None) \in rows
    BY <1>3, <1>5, <2>2 DEF LBExact, PortsOK, PortRules, Kept
  <2>6. NewRow("port", s, f, p, e) \in rows
    <3>1. ChainOK(rows, s, m, f, p)
      BY <1>3, <2>2 DEF LBExact
    <3>2. NewRow("port", s, f, p, e) \in DNATRules(m, f, s, p)
      BY <1>5, <2>1 DEF DNATRules
    <3> QED
      BY <2>2, <3>1, <3>2 DEF ChainOK, Kept
  <2>7. {f} \X BaseRule \subseteq base
    BY <2>3 DEF BackendInv, GuardInv, Guarded
  <2> QED
    BY <1>1, <2>1, <2>3, <2>4, <2>5, <2>6, <2>7 DEF Forwards, Has
<1>6. ASSUME NEW a \in Address, NEW p \in Port, NEW e \in Endpoint, Forwards(s, a, p, e)
      PROVE  /\ a \in m.lb /\ p \in Ports(m)
             /\ p \in ServedPorts(m, FamilyOf[a]) => e \in Behind(m, FamilyOf[a], p)
  <2>1. PICK f \in Family : f = FamilyOf[a]
    BY <1>4
  <2>2. /\ NewRow("dnat", s, f, None, a) \in rows /\ NewRow("svc", s, f, p, None) \in rows
        /\ NewRow("port", s, f, p, e) \in rows
    BY <1>6, <2>1 DEF Forwards, Has
  <2>3. NewRow("dnat", s, f, None, a) \in Kept(rows, {"dnat"}, f, s)
    BY <2>2 DEF Kept, NewRow
  <2>4. NewRow("dnat", s, f, None, a) \in ServiceRule(m, f, s)
    BY <1>3, <2>3 DEF LBExact, JumpOK
  <2>5. a \in OfFamily(f, m.lb)
    BY <2>4 DEF ServiceRule, NewRow
  <2>6. a \in m.lb /\ HasLBIP(m, f)
    BY <2>5 DEF OfFamily, HasLBIP
  <2>7. NewRow("svc", s, f, p, None) \in Kept(rows, {"svc"}, f, s)
    BY <2>2 DEF Kept, NewRow
  <2>8. NewRow("svc", s, f, p, None) \in PortRules(m, f, s)
    BY <1>3, <2>6, <2>7 DEF LBExact, PortsOK
  <2>9. p \in Ports(m)
    BY <2>8 DEF PortRules, NewRow
  <2>10. ASSUME p \in ServedPorts(m, f) PROVE e \in Behind(m, f, p)
    <3>1. NewRow("port", s, f, p, e) \in {r \in Kept(rows, {"port"}, f, s) : r.port = p}
      BY <2>2 DEF Kept, NewRow
    <3>2. ChainOK(rows, s, m, f, p)
      BY <1>3 DEF LBExact
    <3>3. NewRow("port", s, f, p, e) \in DNATRules(m, f, s, p)
      BY <2>6, <2>10, <3>1, <3>2 DEF ChainOK
    <3> QED
      BY <3>3 DEF DNATRules, NewRow
  <2> QED
    BY <2>1, <2>6, <2>9, <2>10
<1> QED
  BY <1>2, <1>5, <1>6 DEF Served

LEMMA ExactTranslation ==
  ASSUME BackendInv
  PROVE  TranslatedExactly
<1> SUFFICES ASSUME NEW s \in settled, NEW f \in Family, call.svc # s \/ HasLBIP(want[s], f)
             PROVE  /\ OwnSNATRule(f, s) = SNATServiceRule(want[s], f, s)
                    /\ OwnSrcIPs(f, s) = IF HasSNATIP(want[s], f) THEN SNATSrcIPsList(want[s], f, s) ELSE {}
  BY DEF TranslatedExactly
<1>1. SNATOK(rows, s, want[s], f) /\ SrcsOK(rows, s, want[s], f)
  BY DEF BackendInv, SettledExact, Exact, Busy
<1>2. OwnSNATRule(f, s) = Kept(rows, {"snat"}, f, s) /\ OwnSrcIPs(f, s) = Kept(rows, {"src-ips"}, f, s)
  BY DEF OwnSNATRule, OwnSrcIPs, Own, Kept
<1> QED
  BY <1>1, <1>2 DEF SNATOK, SrcsOK

LEMMA NothingOfDeleted ==
  ASSUME BackendInv
  PROVE  DeletedLeavesNothing
<1> SUFFICES ASSUME NEW s \in settled, want[s] = Gone, NEW r \in rows, r.svc = s
             PROVE  FALSE
  BY DEF DeletedLeavesNothing
<1>1. r \in Row
  BY DEF BackendInv, TypeOK
<1>2. PICK f \in Family : f = r.family
  BY <1>1 DEF Row
<1>3. r.chain \in Chain /\ r.port \in Port \cup {None}
  BY <1>1 DEF Row
<1>4. ~HasLBIP(Gone, f) /\ ~HasSNATIP(Gone, f)
  BY GoneUsesNothing
<1>5. LBExact(rows, s, Gone, f) /\ SrcsOK(rows, s, Gone, f) /\ SNATOK(rows, s, Gone, f)
  BY <1>4 DEF BackendInv, SettledExact, Exact
<1>6. /\ Kept(rows, {"lb-ips"}, f, s) = {} /\ Kept(rows, {"dnat"}, f, s) = {}
      /\ Kept(rows, {"svc"}, f, s) = {}
      /\ Kept(rows, {"snat"}, f, s) = {} /\ Kept(rows, {"src-ips"}, f, s) = {}
  BY <1>4, <1>5, NothingRequested DEF LBExact, ListOK, JumpOK, PortsOK, SrcsOK, SNATOK
<1>7. {x \in Kept(rows, {"port"}, f, s) : x.port = r.port} = {}
  BY <1>3, <1>4, <1>5 DEF LBExact, ChainOK
<1>8. \A c : r.chain = c => r \in Kept(rows, {c}, f, s)
  BY <1>2 DEF Kept
<1> QED
  BY <1>3, <1>6, <1>7, <1>8 DEF Chain

LEMMA ListedIsGuarded ==
  ASSUME BackendInv
  PROVE  GuardedBeforeListed
<1> SUFFICES ASSUME NEW r \in rows PROVE {r.family} \X BaseRule \subseteq base
  BY DEF GuardedBeforeListed
<1>1. r.family \in Family
  BY DEF BackendInv, TypeOK, Row
<1>2. Family \X BaseRule \subseteq base
  BY DEF BackendInv, GuardInv, Guarded
<1> QED
  BY <1>1, <1>2

(***************************************************************************)
(* After EnsureService returned without an error the router forwards to    *)
(* exactly the endpoints of the service, whatever failed calls, crashes    *)
(* and the calls of other services left behind.                            *)
(***************************************************************************)
THEOREM ServiceForwardedExactly == Spec => []ForwardedExactly
  BY BackendInvariant, ExactForwarding, PTL

(***************************************************************************)
(* After EnsureService returned without an error exactly the endpoints of  *)
(* the service leave with its SNAT address, although deleteLBServiceRules  *)
(* takes the SNAT rule away on the way there.                              *)
(***************************************************************************)
THEOREM SourcesTranslatedExactly == Spec => []TranslatedExactly
  BY BackendInvariant, ExactTranslation, PTL

(***************************************************************************)
(* After DeleteService returned without an error no object of the service  *)
(* is on the router, not even in a chain that an earlier call lost sight   *)
(* of.                                                                     *)
(***************************************************************************)
THEOREM DeletedServiceLeavesNothing == Spec => []DeletedLeavesNothing
  BY BackendInvariant, NothingOfDeleted, PTL

(***************************************************************************)
(* No address is listed while a rule of Setup is missing, however often    *)
(* Setup fails or the process is restarted.                                *)
(***************************************************************************)
THEOREM AddressGuardedBeforeListed == Spec => []GuardedBeforeListed
  BY BackendInvariant, ListedIsGuarded, PTL

=============================================================================
