---------------------------- MODULE RouteSelection -----------------------------
(***************************************************************************)
(* determineInterfaceForIP (internal/routeros/backend.go): the interface   *)
(* on which an address is advertised when its pool names none, chosen from *)
(* the router's routes in the order in which the router lists them.  One   *)
(* action is one turn of the loop.                                         *)
(***************************************************************************)
EXTENDS Naturals, Sequences

CONSTANTS Bits,        \* prefix lengths
          Distances,   \* metrics
          Interfaces,
          NoInterface, \* no immediate-gw
          MaxRoutes    \* bound of a run

ASSUME RouteAssumption == Bits \subseteq Nat /\ Distances \subseteq Nat /\ MaxRoutes \in Nat

(***************************************************************************)
(* A route: covers - it is active and its dst-address parses and contains  *)
(* the address; gw - the interface in its immediate-gw.                    *)
(***************************************************************************)
Route == [covers : BOOLEAN, gw : Interfaces \cup {NoInterface}, bits : Bits, distance : Distances]

VARIABLES routes,   \* the router's answer
          i,        \* position in it
          matched,  \* the position of the matched route, or 0
          matchedBits, matchedDistance, done

vars == <<routes, i, matched, matchedBits, matchedDistance, done>>

TypeOK ==
  /\ routes \in Seq(Route)
  /\ i \in 1..(Len(routes) + 1)
  /\ matched \in 0..Len(routes)
  /\ matchedBits \in Nat /\ matchedDistance \in Nat
  /\ done \in BOOLEAN

Init ==
  /\ routes \in UNION {[1..n -> Route] : n \in 0..MaxRoutes}
  /\ i = 1 /\ matched = 0 /\ matchedBits = 0 /\ matchedDistance = 0 /\ done = FALSE

Eligible(r) == r.covers /\ r.gw # NoInterface

\* Mutant: the distance is ignored.
Better_AnyDistance(r) == matched = 0 \/ r.bits >= matchedBits

\* The route is better than the matched one.
Better(r) ==
  \/ matched = 0
  \/ r.bits > matchedBits
  \/ r.bits = matchedBits /\ r.distance < matchedDistance

Examine ==
  /\ ~done /\ i <= Len(routes)
  /\ LET r == routes[i] IN
     \/ /\ Eligible(r) /\ Better(r)
        /\ matched' = i /\ matchedBits' = r.bits /\ matchedDistance' = r.distance
     \/ /\ ~(Eligible(r) /\ Better(r))
        /\ UNCHANGED <<matched, matchedBits, matchedDistance>>
  /\ i' = i + 1
  /\ UNCHANGED <<routes, done>>

\* The interface of the matched route, or "no matching route found".
Answer ==
  /\ ~done /\ i > Len(routes)
  /\ done' = TRUE
  /\ UNCHANGED <<routes, i, matched, matchedBits, matchedDistance>>

Next == Examine \/ Answer

Spec == Init /\ [][Next]_vars

-----------------------------------------------------------------------------
\* Route k comes before route l in the router's own choice.
Precedes(k, l) ==
  \/ routes[k].bits > routes[l].bits
  \/ routes[k].bits = routes[l].bits /\ routes[k].distance < routes[l].distance
  \/ routes[k].bits = routes[l].bits /\ routes[k].distance = routes[l].distance /\ k <= l

(***************************************************************************)
(* The answer is the route the router itself would use: of the eligible    *)
(* routes the one with the longest prefix, among these the one with the    *)
(* smallest distance, and of equal ones the first; there is none only when *)
(* no route is eligible.  This does not depend on the order of the list.   *)
(***************************************************************************)
LongestPrefixWins ==
  LET best == {k \in 1..(i - 1) : Eligible(routes[k])} IN
  /\ matched = 0 <=> best = {}
  /\ matched # 0 => matched \in best /\ \A l \in best : Precedes(matched, l)

=============================================================================
