------------------------ MODULE IPAdvertisement_proofs -------------------------
(***************************************************************************)
(* determineInterfaceForIP chooses the best route of any list of routes,   *)
(* alone and as a part of EnsureIPAdvertisement; and the calls that change *)
(* the advertisement of an address leave what they are for.                *)
(*                                                                         *)
(* RouteInv adds to LongestPrefixWins that the loop's two variables are    *)
(* those of the matched route.  AdvertisementInv adds what the call in     *)
(* flight has done already.                                                *)
(***************************************************************************)
EXTENDS IPAdvertisement, TLAPS

MatchedIsRoute ==
  matched # 0 => matchedBits = routes[matched].bits /\ matchedDistance = routes[matched].distance

RouteInv == TypeOK /\ MatchedIsRoute /\ LongestPrefixWins

\* Before the first route there is no match, whatever the routes.
LEMMA LoopStarts ==
  ASSUME routes \in Seq(Route), i = 1, matched = 0, matchedBits = 0, matchedDistance = 0, ~done,
         done \in BOOLEAN
  PROVE  RouteInv
<1>1. Len(routes) \in Nat
  OBVIOUS
<1>2. TypeOK
  BY <1>1 DEF TypeOK
<1>3. 1..(i - 1) = {}
  OBVIOUS
<1> QED
  BY <1>2, <1>3 DEF RouteInv, MatchedIsRoute, LongestPrefixWins

LEMMA InitRoute == Init => RouteInv
<1> SUFFICES ASSUME Init PROVE RouteInv
  OBVIOUS
<1>1. MaxRoutes \in Nat
  BY RouteAssumption
<1>2. PICK n \in 0..MaxRoutes : routes \in [1..n -> Route]
  BY DEF Init
<1>3. routes \in Seq(Route)
  BY <1>1, <1>2
<1> QED
  BY <1>3, LoopStarts DEF Init

\* One more route: it is matched exactly when it precedes the matched one.
LEMMA ExamineRoute == RouteInv /\ Examine => RouteInv'
<1> SUFFICES ASSUME RouteInv, Examine PROVE RouteInv'
  OBVIOUS
<1> DEFINE r == routes[i]
<1>1. i \in 1..Len(routes) /\ r \in Route /\ i' = i + 1 /\ routes' = routes /\ Len(routes) \in Nat
  BY DEF RouteInv, TypeOK, Examine
<1>2. ASSUME NEW k \in 1..Len(routes)
      PROVE  routes[k].bits \in Nat /\ routes[k].distance \in Nat
  <2>1. routes[k] \in Route
    BY DEF RouteInv, TypeOK
  <2>2. QED
    BY <2>1, RouteAssumption DEF Route
<1>3. CASE Eligible(r) /\ Better(r)
  <2>1. matched' = i /\ matchedBits' = r.bits /\ matchedDistance' = r.distance
    BY <1>3 DEF Examine
  <2>2. TypeOK' /\ MatchedIsRoute'
    BY <1>1, <1>2, <2>1 DEF RouteInv, TypeOK, Examine, MatchedIsRoute
  <2>4. CASE \E l \in 1..(i - 1) : Eligible(routes[l])
    <3>1. matched # 0 /\ matched \in 1..(i - 1) /\ Eligible(routes[matched])
      BY <2>4 DEF RouteInv, LongestPrefixWins
    <3>2. \/ r.bits > matchedBits
          \/ r.bits = matchedBits /\ r.distance < matchedDistance
      BY <1>3, <3>1 DEF Better
    <3>3. ASSUME NEW l \in 1..(i - 1), Eligible(routes[l])
          PROVE  \/ r.bits > routes[l].bits
                 \/ r.bits = routes[l].bits /\ r.distance < routes[l].distance
      <4>1. Precedes(matched, l)
        BY <3>1, <3>3 DEF RouteInv, LongestPrefixWins
      <4>2. /\ matched \in 1..Len(routes) /\ l \in 1..Len(routes) /\ i \in 1..Len(routes)
            /\ matchedBits = routes[matched].bits /\ matchedDistance = routes[matched].distance
        BY <1>1, <3>1 DEF RouteInv, MatchedIsRoute
      <4>3. /\ r.bits \in Nat /\ r.distance \in Nat
            /\ routes[l].bits \in Nat /\ routes[l].distance \in Nat
            /\ routes[matched].bits \in Nat /\ routes[matched].distance \in Nat
        BY <1>2, <4>2
      <4>4. QED
        BY <3>2, <4>1, <4>2, <4>3, SMTT(30) DEF Precedes
    <3>4. QED
      BY <1>1, <1>2, <1>3, <2>1, <2>2, <3>3 DEF RouteInv, LongestPrefixWins, Precedes, Eligible
  <2>5. CASE ~ \E l \in 1..(i - 1) : Eligible(routes[l])
    BY <1>1, <1>2, <1>3, <2>1, <2>2, <2>5 DEF RouteInv, LongestPrefixWins, Precedes, Eligible
  <2>6. QED
    BY <2>4, <2>5
<1>4. CASE ~(Eligible(r) /\ Better(r))
  <2>1. UNCHANGED <<matched, matchedBits, matchedDistance>>
    BY <1>4 DEF Examine
  <2>2. TypeOK' /\ MatchedIsRoute'
    BY <1>1, <2>1 DEF RouteInv, TypeOK, Examine, MatchedIsRoute
  <2>3. CASE Eligible(r)
    BY <1>1, <1>2, <1>4, <2>1, <2>2, <2>3, SMTT(30)
    DEF RouteInv, TypeOK, Better, LongestPrefixWins, Precedes, MatchedIsRoute, Eligible
  <2>4. CASE ~Eligible(r)
    BY <1>1, <2>1, <2>2, <2>4 DEF RouteInv, TypeOK, LongestPrefixWins, Precedes, Eligible
  <2>5. QED
    BY <2>3, <2>4
<1>5. QED
  BY <1>3, <1>4

LEMMA RouteStep == RouteInv /\ [Next]_vars => RouteInv'
<1> SUFFICES ASSUME RouteInv, [Next]_vars PROVE RouteInv'
  OBVIOUS
<1>1. CASE Examine
  BY <1>1, ExamineRoute
<1>2. CASE Answer
  BY <1>2 DEF Answer, RouteInv, TypeOK, MatchedIsRoute, LongestPrefixWins, Precedes, Eligible
<1>3. CASE UNCHANGED vars
  BY <1>3 DEF vars, RouteInv, TypeOK, MatchedIsRoute, LongestPrefixWins, Precedes, Eligible
<1> QED
  BY <1>1, <1>2, <1>3 DEF Next

-----------------------------------------------------------------------------
\* The interface the address belongs on.
Chosen == IF configured = NoInterface THEN routes[matched].gw ELSE configured

CallInFlight ==
  /\ step # "idle" => last = "none" /\ announced = NoInterface
  /\ step = "select" => configured = NoInterface
  /\ step \in {"sync", "announce"} => target = Chosen
  /\ step = "announce" => entries = {Advertised(target)}

AdvertisementInv ==
  AdvTypeOK /\ RouteInv /\ CallInFlight /\ AdvertisementIsExact /\ AnnouncedIsAdvertised

LEMMA InitAdvertisement == AdvInit => AdvertisementInv
  BY InitRoute
  DEF AdvInit, AdvertisementInv, RouteInv, AdvTypeOK, CallInFlight, AdvertisementIsExact, AnnouncedIsAdvertised

\* The loop's state is as a step leaves it when the step has nothing to do with it.
LEMMA RouteKept == RouteInv /\ UNCHANGED vars => RouteInv'
  BY RouteStep

LEMMA EnsureStarts == AdvertisementInv /\ EnsureIPAdvertisement => AdvertisementInv'
<1> SUFFICES ASSUME AdvertisementInv, EnsureIPAdvertisement PROVE AdvertisementInv'
  OBVIOUS
<1>1. RouteInv'
  <2>1. CASE UNCHANGED vars
    BY <2>1, RouteKept DEF AdvertisementInv
  <2>2. CASE ~UNCHANGED vars
    <3>1. /\ i' = 1 /\ matched' = 0 /\ matchedBits' = 0 /\ matchedDistance' = 0 /\ done' = FALSE
          /\ routes' = routes
      BY <2>2 DEF EnsureIPAdvertisement
    <3>2. 1..(i' - 1) = {} /\ Len(routes) \in Nat /\ routes \in Seq(Route)
      BY <3>1 DEF AdvertisementInv, RouteInv, TypeOK
    <3>3. TypeOK'
      <4>1. i' \in 1..(Len(routes) + 1) /\ matched' \in 0..Len(routes)
        BY <3>1, <3>2
      <4>2. done' \in BOOLEAN /\ matchedBits' \in Nat /\ matchedDistance' \in Nat
        BY <3>1
      <4> QED
        BY <3>1, <3>2, <4>1, <4>2 DEF TypeOK
    <3>4. LongestPrefixWins'
      BY <3>1, <3>2 DEF LongestPrefixWins
    <3> QED
      BY <3>1, <3>3, <3>4 DEF RouteInv, MatchedIsRoute
  <2> QED
    BY <2>1, <2>2
<1>2. AdvTypeOK'
  BY <1>1 DEF AdvertisementInv, AdvTypeOK, RouteInv, EnsureIPAdvertisement, End
<1>3. CallInFlight' /\ AdvertisementIsExact' /\ AnnouncedIsAdvertised'
  BY DEF EnsureIPAdvertisement, End, AdvertisementInv, CallInFlight, AdvertisementIsExact,
         AnnouncedIsAdvertised, Chosen
<1> QED
  BY <1>1, <1>2, <1>3 DEF AdvertisementInv

\* While the loop runs, no call has a result.
LEMMA SelectKeeps == AdvertisementInv /\ Select => AdvertisementInv'
<1> SUFFICES ASSUME AdvertisementInv, Select PROVE AdvertisementInv'
  OBVIOUS
<1>1. RouteInv'
  BY RouteStep DEF Select, AdvertisementInv
<1>2. AdvTypeOK'
  BY <1>1 DEF AdvertisementInv, AdvTypeOK, RouteInv, Select, advertising
<1>3. CallInFlight' /\ AdvertisementIsExact' /\ AnnouncedIsAdvertised'
  BY DEF Select, advertising, AdvertisementInv, CallInFlight, AdvertisementIsExact, AnnouncedIsAdvertised
<1> QED
  BY <1>1, <1>2, <1>3 DEF AdvertisementInv

\* A matched route has an interface.
LEMMA SelectedKeeps == AdvertisementInv /\ Selected => AdvertisementInv'
<1> SUFFICES ASSUME AdvertisementInv, Selected PROVE AdvertisementInv'
  OBVIOUS
<1>1. RouteInv'
  BY RouteKept DEF Selected, AdvertisementInv
<1>2. matched # 0 => routes[matched].gw \in Interfaces
  <2> SUFFICES ASSUME matched # 0 PROVE routes[matched].gw \in Interfaces
    OBVIOUS
  <2>1. Eligible(routes[matched]) /\ matched \in 1..Len(routes)
    BY DEF AdvertisementInv, RouteInv, TypeOK, LongestPrefixWins
  <2>2. routes[matched] \in Route
    BY <2>1 DEF AdvertisementInv, RouteInv, TypeOK
  <2> QED
    BY <2>1, <2>2 DEF Eligible, Route
<1>3. AdvTypeOK'
  BY <1>1, <1>2 DEF AdvertisementInv, AdvTypeOK, RouteInv, Selected, End
<1>4. CallInFlight' /\ AdvertisementIsExact' /\ AnnouncedIsAdvertised'
  BY DEF Selected, End, vars, AdvertisementInv, CallInFlight, AdvertisementIsExact, AnnouncedIsAdvertised,
         Chosen
<1> QED
  BY <1>1, <1>3, <1>4 DEF AdvertisementInv

\* Only a Sync that succeeds lets the call go on.
LEMMA SyncEntriesKeeps == AdvertisementInv /\ SyncEntries => AdvertisementInv'
<1> SUFFICES ASSUME AdvertisementInv, SyncEntries PROVE AdvertisementInv'
  OBVIOUS
<1>1. RouteInv'
  BY RouteKept DEF SyncEntries, AdvertisementInv
<1>2. entries' \subseteq Entries
  <2>1. target \in Interfaces /\ entries \subseteq Entries
    BY DEF AdvertisementInv, AdvTypeOK, SyncEntries
  <2>2. SyncedEntries \subseteq Entries
    BY <2>1 DEF SyncedEntries, Advertised, Entries
  <2> QED
    BY <2>1, <2>2 DEF SyncEntries
<1>3. AdvTypeOK'
  BY <1>1, <1>2 DEF AdvertisementInv, AdvTypeOK, RouteInv, SyncEntries, End
<1>4. CallInFlight' /\ AdvertisementIsExact' /\ AnnouncedIsAdvertised'
  BY DEF SyncEntries, SyncedEntries, End, vars, AdvertisementInv, CallInFlight, AdvertisementIsExact,
         AnnouncedIsAdvertised, Chosen
<1> QED
  BY <1>1, <1>3, <1>4 DEF AdvertisementInv

\* The packet goes out on the interface of the one entry.
LEMMA AnnounceKeeps == AdvertisementInv /\ Announce => AdvertisementInv'
<1> SUFFICES ASSUME AdvertisementInv, Announce PROVE AdvertisementInv'
  OBVIOUS
<1>1. RouteInv'
  BY RouteKept DEF Announce, AdvertisementInv
<1>2. AdvTypeOK'
  BY <1>1 DEF AdvertisementInv, AdvTypeOK, RouteInv, Announce, End, Policies
<1>3. CallInFlight' /\ AdvertisementIsExact' /\ AnnouncedIsAdvertised'
  BY DEF Announce, End, vars, AdvertisementInv, CallInFlight, AdvertisementIsExact, AnnouncedIsAdvertised,
         Chosen
<1> QED
  BY <1>1, <1>2, <1>3 DEF AdvertisementInv

LEMMA DeleteKeeps == AdvertisementInv /\ DeleteIPAdvertisement => AdvertisementInv'
<1> SUFFICES ASSUME AdvertisementInv, DeleteIPAdvertisement PROVE AdvertisementInv'
  OBVIOUS
<1>1. RouteInv'
  BY RouteKept DEF DeleteIPAdvertisement, AdvertisementInv
<1>2. entries' \subseteq Entries
  BY DEF AdvertisementInv, AdvTypeOK, DeleteIPAdvertisement, Foreign
<1>3. AdvTypeOK'
  BY <1>1, <1>2 DEF AdvertisementInv, AdvTypeOK, RouteInv, DeleteIPAdvertisement, End
<1>4. CallInFlight' /\ AdvertisementIsExact' /\ AnnouncedIsAdvertised'
  BY DEF DeleteIPAdvertisement, End, Foreign, AdvertisementInv, CallInFlight, AdvertisementIsExact,
         AnnouncedIsAdvertised
<1> QED
  BY <1>1, <1>3, <1>4 DEF AdvertisementInv

LEMMA PoliciesKeep ==
  AdvertisementInv /\ (ChangePolicies \/ PoliciesExpire \/ UNCHANGED advVars) => AdvertisementInv'
<1> SUFFICES ASSUME AdvertisementInv, ChangePolicies \/ PoliciesExpire \/ UNCHANGED advVars
             PROVE  AdvertisementInv'
  OBVIOUS
<1>1. /\ UNCHANGED <<vars, configured, entries, step, target, announced, last>>
      /\ allowed' \in {"all", "few"} /\ cached' \in {"all", "few", "expired"}
  BY DEF ChangePolicies, PoliciesExpire, advVars, advertising, AdvertisementInv, AdvTypeOK
<1>2. RouteInv'
  BY <1>1, RouteKept DEF AdvertisementInv
<1>3. AdvTypeOK'
  BY <1>1, <1>2 DEF AdvertisementInv, AdvTypeOK, RouteInv
<1>4. CallInFlight' /\ AdvertisementIsExact' /\ AnnouncedIsAdvertised'
  BY <1>1 DEF vars, AdvertisementInv, CallInFlight, AdvertisementIsExact, AnnouncedIsAdvertised, Chosen
<1> QED
  BY <1>2, <1>3, <1>4 DEF AdvertisementInv

LEMMA AdvertisementStep == AdvertisementInv /\ [AdvNext]_advVars => AdvertisementInv'
  BY EnsureStarts, SelectKeeps, SelectedKeeps, SyncEntriesKeeps, AnnounceKeeps, DeleteKeeps, PoliciesKeep
  DEF AdvNext

LEMMA AdvertisementInvariant == AdvSpec => []AdvertisementInv
  BY InitAdvertisement, AdvertisementStep, PTL DEF AdvSpec

(***************************************************************************)
(* Whatever routes the router lists and in whatever order, the matched     *)
(* route is the best of those examined, in the loop of                     *)
(* determineInterfaceForIP by itself and in every call of                  *)
(* EnsureIPAdvertisement.                                                  *)
(***************************************************************************)
THEOREM BestRouteMatched ==
  (Spec => []LongestPrefixWins) /\ (AdvSpec => []LongestPrefixWins)
<1>1. RouteInv => LongestPrefixWins
  BY DEF RouteInv
<1>2. AdvertisementInv => LongestPrefixWins
  BY DEF AdvertisementInv, RouteInv
<1>3. Spec => []LongestPrefixWins
  BY <1>1, InitRoute, RouteStep, PTL DEF Spec
<1>4. AdvSpec => []LongestPrefixWins
  BY <1>2, AdvertisementInvariant, PTL
<1> QED
  BY <1>3, <1>4

(***************************************************************************)
(* For any routes, interfaces and entries the address table starts with: a *)
(* call of EnsureIPAdvertisement that returned without an error left the   *)
(* address on its interface and nowhere else, and one of                   *)
(* DeleteIPAdvertisement no entry of its own, whatever calls failed        *)
(* half-way before.                                                        *)
(***************************************************************************)
THEOREM AdvertisementExact == AdvSpec => []AdvertisementIsExact
<1>1. AdvertisementInv => AdvertisementIsExact
  BY DEF AdvertisementInv
<1> QED
  BY <1>1, AdvertisementInvariant, PTL

(***************************************************************************)
(* The gratuitous packet of EnsureIPAdvertisement is only sent on an       *)
(* interface that has the address, whatever the cached policies say.       *)
(***************************************************************************)
THEOREM AnnouncedAdvertised == AdvSpec => []AnnouncedIsAdvertised
<1>1. AdvertisementInv => AnnouncedIsAdvertised
  BY DEF AdvertisementInv
<1> QED
  BY <1>1, AdvertisementInvariant, PTL

=============================================================================
