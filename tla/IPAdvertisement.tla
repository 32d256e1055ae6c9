---------------------------- MODULE IPAdvertisement ----------------------------
(***************************************************************************)
(* EnsureIPAdvertisement and DeleteIPAdvertisement of one address          *)
(* (internal/routeros/backend.go): the interface is configured or chosen   *)
(* as in RouteSelection, one Sync writes the entry of the router's address *)
(* table, and a gratuitous packet tells the neighbours, if the user's      *)
(* policies (Client.Policies, cached for a while) and the router allow it. *)
(*                                                                         *)
(* The calls may be made in any order; the address table may start with    *)
(* what earlier calls with other routes left, and with entries of the      *)
(* administrator.                                                          *)
(***************************************************************************)
EXTENDS RouteSelection

VARIABLES configured,   \* the pool's interface, or NoInterface
          entries,      \* the entries for ip/32: [iface, own], own by the comment
          allowed,      \* the user's policies: "all", or "few" - without sniff or test
          cached,       \* the cached policies: "all", "few", or "expired"
          step,         \* what the call does next
          target,       \* its interface
          announced,    \* the interface the packet went out on
          last          \* how the last call ended

advertising == <<configured, entries, allowed, cached, step, target, announced, last>>
advVars == <<vars, advertising>>

Entries == [iface : Interfaces, own : BOOLEAN]
Advertised(iface) == [iface |-> iface, own |-> TRUE]

AdvTypeOK ==
  /\ TypeOK
  /\ configured \in Interfaces \cup {NoInterface} /\ entries \subseteq Entries
  /\ allowed \in {"all", "few"} /\ cached \in {"all", "few", "expired"}
  /\ step \in {"idle", "select", "sync", "announce"}
  /\ step \in {"sync", "announce"} => target \in Interfaces
  /\ announced \in Interfaces \cup {NoInterface}
  /\ last \in {"none", "ensured", "withdrawn", "failed"}

AdvInit ==
  /\ Init
  /\ configured \in Interfaces \cup {NoInterface}
  /\ configured # NoInterface => routes = << >>   \* they are not read
  /\ entries \in SUBSET Entries
  /\ allowed = "all" /\ cached = "expired"
  /\ step = "idle" /\ target = NoInterface /\ announced = NoInterface /\ last = "none"

\* The call ends.
End(result) == step' = "idle" /\ target' = NoInterface /\ last' = result

EnsureIPAdvertisement ==
  /\ step = "idle"
  /\ announced' = NoInterface
  /\ \/ /\ configured # NoInterface
        /\ step' = "sync" /\ target' = configured /\ last' = "none"
        /\ UNCHANGED vars
     \/ /\ configured = NoInterface   \* the routes are read
        /\ step' = "select" /\ target' = NoInterface /\ last' = "none"
        /\ i' = 1 /\ matched' = 0 /\ matchedBits' = 0 /\ matchedDistance' = 0 /\ done' = FALSE
        /\ UNCHANGED routes
     \/ /\ configured = NoInterface   \* or cannot be
        /\ End("failed")
        /\ UNCHANGED vars
  /\ UNCHANGED <<configured, entries, allowed, cached>>

Select == step = "select" /\ Next /\ UNCHANGED advertising

Selected ==
  /\ step = "select" /\ done
  /\ \/ /\ matched = 0
        /\ End("failed")
     \/ /\ matched # 0
        /\ step' = "sync" /\ target' = routes[matched].gw /\ UNCHANGED last
  /\ UNCHANGED <<vars, configured, entries, allowed, cached, announced>>

\* Mutant: entries on other interfaces are left alone.
SyncedEntries_Added == entries \cup {Advertised(target)}

\* All entries for the address share one key, so one is kept or patched and the others go.
SyncedEntries == {Advertised(target)}

\* The entries that a Sync that fails half-way keeps one of.
Spared == IF Advertised(target) \in entries THEN {Advertised(target)} ELSE entries

\* Mutant: the call goes on after a failed Sync.
SyncEntries_GoesOn ==
  /\ step = "sync"
  /\ entries' \in {entries, SyncedEntries}
  /\ step' = "announce"
  /\ UNCHANGED <<vars, configured, allowed, cached, target, announced, last>>

SyncEntries ==
  /\ step = "sync"
  /\ \/ /\ entries' = SyncedEntries
        /\ step' = "announce" /\ UNCHANGED <<target, last>>
     \/ /\ \/ \E left \in SUBSET entries :
                (left \cap Spared # {} \/ entries = {}) /\ entries' = left
           \/ entries' = SyncedEntries   \* only the last reply is lost
        /\ End("failed")
  /\ UNCHANGED <<vars, configured, allowed, cached, announced>>

\* Client.Policies: the cache while it is fresh, else the router (or an error).
Policies == IF cached = "expired" THEN allowed ELSE cached

Announce ==
  /\ step = "announce"
  /\ \/ /\ cached' = Policies   \* without the policies or the traffic generator: no packet
        /\ End("ensured")
     \/ /\ cached' \in {cached, Policies}   \* a request fails, or its reply is lost
        /\ End("failed")
  /\ announced' \in {NoInterface} \cup
                    {iface \in {target} : cached' = "all" /\ allowed = "all"}
  /\ UNCHANGED <<vars, configured, entries, allowed>>

\* The filter of deleteIPAvertisement leaves these.
Foreign == {e \in entries : ~e.own}

DeleteIPAdvertisement ==
  /\ step = "idle"
  /\ announced' = NoInterface
  /\ \/ /\ entries' = Foreign
        /\ End("withdrawn")
     \/ /\ \E kept \in SUBSET (entries \ Foreign) : entries' = Foreign \cup kept
        /\ End("failed")
  /\ UNCHANGED <<vars, configured, allowed, cached>>

\* The administrator changes the user's policies, and the cached ones expire.
ChangePolicies ==
  /\ allowed' \in {"all", "few"} \ {allowed}
  /\ UNCHANGED <<vars, configured, entries, cached, step, target, announced, last>>

PoliciesExpire ==
  /\ cached # "expired" /\ cached' = "expired"
  /\ UNCHANGED <<vars, configured, entries, allowed, step, target, announced, last>>

AdvNext ==
  \/ EnsureIPAdvertisement \/ Select \/ Selected \/ SyncEntries \/ Announce
  \/ DeleteIPAdvertisement \/ ChangePolicies \/ PoliciesExpire

AdvSpec == AdvInit /\ [][AdvNext]_advVars

-----------------------------------------------------------------------------
(***************************************************************************)
(* A call that returns without an error leaves exactly what it is for,     *)
(* whatever failed calls for other interfaces left: the address on the     *)
(* pool's interface, or on that of the best route, and nowhere else; or no *)
(* entry of the controller's own.                                          *)
(***************************************************************************)
AdvertisementIsExact ==
  /\ last = "ensured" =>
       entries = {Advertised(IF configured = NoInterface THEN routes[matched].gw ELSE configured)}
  /\ last = "withdrawn" => \A e \in entries : ~e.own

\* The neighbours are only told of an address that the router has on that interface.
AnnouncedIsAdvertised == announced # NoInterface => Advertised(announced) \in entries

=============================================================================
