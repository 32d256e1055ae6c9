---------------------------- MODULE RouterOSBackend ----------------------------
(***************************************************************************)
(* Setup, EnsureService and DeleteService (internal/routeros/backend.go):  *)
(* sequences of Sync calls under the backend's mutex that bring the        *)
(* router's firewall from whatever an earlier call left to what one        *)
(* service needs.  One step is one Sync; it may fail with part of its work *)
(* done, and the process may end between two of them.                      *)
(*                                                                         *)
(* Sync itself is module ClientSync.  Here it is what SyncedExactly says   *)
(* of it: without an error, the objects it looks after are the requested   *)
(* ones; with an error, some of the superfluous ones are gone, or all of   *)
(* them and some of the requested ones are written.  The order of the      *)
(* rules in a chain and their nth fields are ClientSync's subject too.     *)
(* Names of chains and lists, which are derived from the service's UID,    *)
(* are told apart by the service itself.                                   *)
(***************************************************************************)
EXTENDS Naturals, Sequences, FiniteSets

CONSTANTS Svc, Address, Endpoint, Port,
          FamilyOf,    \* the family of every address and every endpoint
          Models,      \* the values of core.Service
          MaxChanges, MaxFaults   \* bounds of a run

Family == {"ipv4", "ipv6"}

\* The rules of Setup: filter and mangle rules, and the jumps into this program's chains.
FilterRule == {"reject", "accept", "mangle"}
ConnectionChainRule == "dstnat"
SNATRule == "srcnat"
BaseRule == FilterRule \cup {ConnectionChainRule, SNATRule}

(***************************************************************************)
(* core.Service: the load balancer addresses, the addresses for SNAT and   *)
(* the endpoint slices.  LBEnabled and SNATEnabled are never read by the   *)
(* backend.                                                                *)
(***************************************************************************)
Slice == [ips : SUBSET Endpoint \ {{}}, ports : SUBSET Port \ {{}}]
Model == [lb : SUBSET Address, snat : SUBSET Address, slices : SUBSET Slice]

ASSUME FamilyAssumption == FamilyOf \in [Address \cup Endpoint -> Family]
ASSUME ModelsAssumption ==
  /\ Models \subseteq Model
  /\ \A m \in Models : \A a, b \in m.snat : FamilyOf[a] = FamilyOf[b] => a = b
ASSUME BackendBoundAssumption == {MaxChanges, MaxFaults} \subseteq Nat

Gone == [lb |-> {}, snat |-> {}, slices |-> {}]   \* the service is to be deleted
None == "none"

(***************************************************************************)
(* An object of the router that belongs to a service, by the UID in its    *)
(* comment.  Chains: "lb-ips" and "src-ips" are address lists, the others  *)
(* are chains of the nat table - "dnat" the jumps by destination address,  *)
(* "svc" the jumps by port, "port" the DNAT rules, "snat" the SNAT rules.  *)
(***************************************************************************)
Chain == {"lb-ips", "src-ips", "dnat", "svc", "port", "snat"}
Row == [chain : Chain, svc : Svc, family : Family,
        port : Port \cup {None}, addr : Address \cup Endpoint \cup {None}]

VARIABLES base,      \* the rules of Setup that the router has
          rows,      \* the services' objects on the router
          want,      \* what the reconciliations will ask for, service by service
          settled,   \* services whose last call asked for that and succeeded
          call,      \* the running call, and the Syncs it still has to make
          changes, faults   \* (bounds only)

vars == <<base, rows, want, settled, call, changes, faults>>

\* A Sync of a call; left are the port chains that it is still to be made for.
Steps == {"dnat", "ports", "stale", "jump", "list", "unlist", "unrule",
          "srcs", "snat", "unsnat", "unsrcs"} \cup BaseRule
Todo == [family : Family, step : Steps]
Call == [op : {"idle", "setup", "ensure", "delete"}, svc : Svc \cup {None},
         model : Models \cup {Gone}, todo : Seq(Todo), left : SUBSET (Port \cup {None}),
         failed : BOOLEAN]
Idle == [op |-> "idle", svc |-> None, model |-> Gone, todo |-> << >>, left |-> {}, failed |-> FALSE]

TypeOK ==
  /\ base \subseteq Family \X BaseRule
  /\ rows \subseteq Row
  /\ want \in [Svc -> Models \cup {Gone}]
  /\ settled \subseteq Svc
  /\ call \in Call
  /\ call.op = "idle" => call = Idle
  /\ call.op # "idle" => call.todo # << >> /\ call.left # {}
  /\ changes \in Nat /\ faults \in Nat

-----------------------------------------------------------------------------
(***************************************************************************)
(* The order of the Syncs of a call: IPv4 before IPv6.                     *)
(***************************************************************************)
OfFamily(f, set) == {x \in set : FamilyOf[x] = f}
InOrder(f, steps) == [k \in 1..Len(steps) |-> [family |-> f, step |-> steps[k]]]
PerFamily(Part(_)) == InOrder("ipv4", Part("ipv4")) \o InOrder("ipv6", Part("ipv6"))

HasLBIP(m, f) == OfFamily(f, m.lb) # {}
HasSNATIP(m, f) == OfFamily(f, m.snat) # {}

SetupTodo ==
  LET Part(f) == <<"reject", "accept", "mangle", ConnectionChainRule, SNATRule>> IN PerFamily(Part)

Ports(m) == UNION {sl.ports : sl \in m.slices}
EndpointsOf(m, f) == OfFamily(f, UNION {sl.ips : sl \in m.slices})
Behind(m, f, p) == OfFamily(f, UNION {sl.ips : sl \in {x \in m.slices : p \in x.ports}})

\* The port chains of ensureLBServicePortDNATRules: those with endpoints of the family.
ServedPorts(m, f) == {p \in Ports(m) : Behind(m, f, p) # {}}

LBPart(m, f) ==
  IF ~HasLBIP(m, f) THEN <<"unlist", "unrule">>
  ELSE (IF ServedPorts(m, f) = {} THEN << >> ELSE <<"dnat">>) \o <<"ports", "jump", "list">>
SNATPart(m, f) == IF HasSNATIP(m, f) THEN <<"srcs", "snat">> ELSE <<"unsnat", "unsrcs">>

\* Mutant: SNAT comes first.
EnsureTodo_SNATFirst(m) == LET Part(f) == SNATPart(m, f) \o LBPart(m, f) IN PerFamily(Part)

EnsureTodo(m) == LET Part(f) == LBPart(m, f) \o SNATPart(m, f) IN PerFamily(Part)

DeleteTodo ==
  LET Part(f) == <<"unlist", "unrule", "unsnat", "unsrcs">> IN PerFamily(Part)

-----------------------------------------------------------------------------
(***************************************************************************)
(* What each Sync requests, and the objects its query and filter select.   *)
(***************************************************************************)
NewRow(chain, s, f, p, x) == [chain |-> chain, svc |-> s, family |-> f, port |-> p, addr |-> x]

DNATRules(m, f, s, p) == {NewRow("port", s, f, p, e) : e \in Behind(m, f, p)}
PortRules(m, f, s) == {NewRow("svc", s, f, p, None) : p \in Ports(m)}
ServiceRule(m, f, s) == {NewRow("dnat", s, f, None, a) : a \in OfFamily(f, m.lb)}
LBIPsList(m, f, s) == {NewRow("lb-ips", s, f, None, a) : a \in OfFamily(f, m.lb)}
SNATSrcIPsList(m, f, s) == {NewRow("src-ips", s, f, None, e) : e \in EndpointsOf(m, f)}
SNATServiceRule(m, f, s) == {NewRow("snat", s, f, None, a) : a \in OfFamily(f, m.snat)}

Requests(step, f, s, m, p) ==
  CASE step = "dnat" -> DNATRules(m, f, s, p)
    [] step = "ports" -> PortRules(m, f, s)
    [] step = "jump" -> ServiceRule(m, f, s)
    [] step = "list" -> LBIPsList(m, f, s)
    [] step = "srcs" -> SNATSrcIPsList(m, f, s)
    [] step = "snat" -> SNATServiceRule(m, f, s)
    [] OTHER -> {}

Own(chains, f, s) == {r \in rows : r.chain \in chains /\ r.family = f /\ r.svc = s}
PortChain(f, s, p) == {r \in Own({"port"}, f, s) : r.port = p}

\* Mutant: only the rules that lead to the service's chains are found.
ServiceRules_Jumps(f, s) == Own({"dnat", "svc"}, f, s)

\* The filter of deleteLBServiceRules: every nat rule with the UID in its comment.
ServiceRules(f, s) == Own({"dnat", "svc", "port", "snat"}, f, s)

\* Mutant: the whole list is taken for the service's.
ListEntries_All(f, s, m) == {r \in rows : r.chain = "lb-ips" /\ r.family = f}

\* The filter of ensureLBIPsList: the UID or one of the service's addresses.
ListEntries(f, s, m) ==
  {r \in rows : r.chain = "lb-ips" /\ r.family = f /\ (r.svc = s \/ r.addr \in m.lb)}

\* The filter of cleanupLBIPsList, and the queries for a service's SNAT rule and list.
OwnListEntries(f, s) == Own({"lb-ips"}, f, s)
OwnSNATRule(f, s) == Own({"snat"}, f, s)
OwnSrcIPs(f, s) == Own({"src-ips"}, f, s)

Selected(step, f, s, m, p) ==
  CASE step \in {"dnat", "stale"} -> PortChain(f, s, p)
    [] step = "ports" -> Own({"svc"}, f, s)
    [] step = "jump" -> Own({"dnat"}, f, s)
    [] step = "list" -> ListEntries(f, s, m)
    [] step = "unlist" -> OwnListEntries(f, s)
    [] step = "unrule" -> ServiceRules(f, s)
    [] step \in {"snat", "unsnat"} -> OwnSNATRule(f, s)
    [] step \in {"srcs", "unsrcs"} -> OwnSrcIPs(f, s)

(***************************************************************************)
(* Client.Sync: objects without a request of their key are deleted first,  *)
(* then the requests are written, an object of the same key being patched. *)
(* The keys (address, port, target) are all of a row but its service.      *)
(***************************************************************************)
SameKey(r, q) == r.chain = q.chain /\ r.family = q.family /\ r.port = q.port /\ r.addr = q.addr

Conflicts(own, reqs) == {r \in own : \A q \in reqs : ~SameKey(r, q)}

Synced(own, reqs) == (rows \ own) \cup reqs

HalfSynced(own, reqs) ==
  {rows \ gone : gone \in SUBSET Conflicts(own, reqs)}
    \cup {(rows \ (Conflicts(own, reqs) \cup {r \in own : \E q \in done : SameKey(r, q)})) \cup done :
            done \in SUBSET reqs}

-----------------------------------------------------------------------------
(***************************************************************************)
(* The calls.                                                              *)
(***************************************************************************)
LeftFor(todo, m) ==
  IF todo = << >> THEN {}
  ELSE IF Head(todo).step = "dnat" THEN ServedPorts(m, Head(todo).family) ELSE {None}

NewCall(op, s, m, todo) ==
  [op |-> op, svc |-> s, model |-> m, todo |-> todo, left |-> LeftFor(todo, m), failed |-> FALSE]

SetupCall == NewCall("setup", None, Gone, SetupTodo)

Init ==
  /\ base = {} /\ rows = {}
  /\ want = [s \in Svc |-> Gone] /\ settled = Svc
  /\ call = SetupCall
  /\ changes = 0 /\ faults = 0

\* A fault; a Sync or a process meets one at any time.
Fault == faults < MaxFaults /\ faults' = faults + 1

(***************************************************************************)
(* The service, its endpoints or its addresses change.  An address belongs *)
(* to one service at a time (UniqueAddress), but it changes hands before   *)
(* the rules of its old service are gone.                                  *)
(***************************************************************************)
Uses(m) == m.lb \cup m.snat

Change(s) ==
  /\ changes < MaxChanges /\ changes' = changes + 1
  /\ \E m \in (Models \cup {Gone}) \ {want[s]} :
       /\ \A t \in Svc \ {s} : Uses(m) \cap Uses(want[t]) = {}
       /\ want' = [want EXCEPT ![s] = m]
  /\ settled' = settled \ {s}
  /\ UNCHANGED <<base, rows, call, faults>>

\* The service's reconciliation reaches the backend.
EnsureService(s) ==
  /\ call = Idle /\ want[s] # Gone
  /\ call' = NewCall("ensure", s, want[s], EnsureTodo(want[s]))
  /\ UNCHANGED <<base, rows, want, settled, changes, faults>>

DeleteService(s) ==
  /\ call = Idle /\ want[s] = Gone
  /\ call' = NewCall("delete", s, Gone, DeleteTodo)
  /\ UNCHANGED <<base, rows, want, settled, changes, faults>>

\* The call returns; ok says whether without an error.
Return(ok) ==
  /\ call' = Idle
  /\ settled' = IF ok /\ call.model = want[call.svc] THEN settled \cup {call.svc}
                                                   ELSE settled \ {call.svc}

(***************************************************************************)
(* The rest of the call after a Sync for chain p: more chains, the next    *)
(* Sync, or the end.  extra is a Sync that only turns out to be needed.    *)
(***************************************************************************)
GoOn(p, failed, extra, extraLeft) ==
  LET rest == extra \o Tail(call.todo) IN
  IF call.left # {p}
  THEN call' = [call EXCEPT !.left = @ \ {p}, !.failed = failed] /\ UNCHANGED settled
  ELSE IF rest = << >> \/ (failed /\ Head(call.todo).step = "dnat")
  THEN Return(~failed)
  ELSE /\ call' = [call EXCEPT !.todo = rest, !.failed = failed,
                               !.left = IF extra = << >> THEN LeftFor(rest, call.model) ELSE extraLeft]
       /\ UNCHANGED settled

\* Mutant: a failed jump rule is only logged, too.
Logged_Jump(step) == step \in {"stale", "jump"}

\* Errors that are logged, and errors that are collected while the call goes on.
Logged(step) == step = "stale"
Collected(step) == step = "dnat" \/ call.op = "delete"

\* The chains that ensureLBServicePortRules finds without a port in the service.
StaleChains(f) == {r.port : r \in Own({"svc"}, f, call.svc)} \ Ports(call.model)

Working == call.op \in {"ensure", "delete"}

SyncOK ==
  /\ Working
  /\ LET step == Head(call.todo).step  f == Head(call.todo).family IN
     \E p \in call.left :
       /\ rows' = Synced(Selected(step, f, call.svc, call.model, p),
                         Requests(step, f, call.svc, call.model, p))
       /\ IF step = "ports" /\ StaleChains(f) # {}
          THEN GoOn(p, call.failed, <<[family |-> f, step |-> "stale"]>>, StaleChains(f))
          ELSE GoOn(p, call.failed, << >>, {})
  /\ UNCHANGED <<base, want, changes, faults>>

SyncFails ==
  /\ Working /\ Fault
  /\ LET step == Head(call.todo).step  f == Head(call.todo).family IN
     \E p \in call.left :
       /\ rows' \in HalfSynced(Selected(step, f, call.svc, call.model, p),
                               Requests(step, f, call.svc, call.model, p))
       /\ IF Logged(step) \/ Collected(step)
          THEN GoOn(p, call.failed \/ ~Logged(step), << >>, {})
          ELSE Return(FALSE)
  /\ UNCHANGED <<base, want, changes>>

\* A Sync of Setup; an error ends the process, which starts again.
SetupSync ==
  /\ call.op = "setup"
  /\ base' = base \cup {<<Head(call.todo).family, Head(call.todo).step>>}
  /\ call' = IF Len(call.todo) = 1 THEN Idle
             ELSE [call EXCEPT !.todo = Tail(@)]
  /\ UNCHANGED <<rows, want, settled, changes, faults>>

\* Mutant: Setup goes on after an error.
SetupFails_GoesOn ==
  /\ call.op = "setup" /\ Fault
  /\ call' = IF Len(call.todo) = 1 THEN Idle
             ELSE [call EXCEPT !.todo = Tail(@)]
  /\ UNCHANGED <<base, rows, want, settled, changes>>

SetupFails ==
  /\ call.op = "setup" /\ Fault
  /\ call' = SetupCall
  /\ base' \in {base, base \cup {<<Head(call.todo).family, Head(call.todo).step>>}}
  /\ UNCHANGED <<rows, want, settled, changes>>

\* The process ends between two Syncs and starts again.
Crash ==
  /\ Working /\ Fault
  /\ call' = SetupCall
  /\ settled' = settled \ {call.svc}
  /\ UNCHANGED <<base, rows, want, changes>>

Begin(s) == EnsureService(s) \/ DeleteService(s)
Work == SyncOK \/ SetupSync

Next ==
  \/ \E s \in Svc : Change(s) \/ EnsureService(s) \/ DeleteService(s)
  \/ SyncOK \/ SyncFails \/ SetupSync \/ SetupFails \/ Crash

Spec == Init /\ [][Next]_vars

(***************************************************************************)
(* The work queue brings every service back whose reconciliation failed or *)
(* whose objects changed; a call that is made goes on.                     *)
(***************************************************************************)
FairSpec ==
  /\ Spec /\ WF_vars(Work)
  /\ \A s \in Svc : SF_vars(s \notin settled /\ Begin(s))

-----------------------------------------------------------------------------
Has(chain, s, f, p, x) == NewRow(chain, s, f, p, x) \in rows

(***************************************************************************)
(* What the firewall does: a connection to a listed address a jumps to the *)
(* chain of a service, from there to the chain of its port p, and on to an *)
(* endpoint e.                                                             *)
(***************************************************************************)
Forwards(s, a, p, e) ==
  LET f == FamilyOf[a] IN
  /\ {f} \X BaseRule \subseteq base
  /\ \E t \in Svc : Has("lb-ips", t, f, None, a)
  /\ Has("dnat", s, f, None, a) /\ Has("svc", s, f, p, None) /\ Has("port", s, f, p, e)

\* Every endpoint of the service is reached through every address and port of it.
Served(s) ==
  \A a \in want[s].lb, p \in Ports(want[s]) :
    \A e \in Behind(want[s], FamilyOf[a], p) : Forwards(s, a, p, e)

(***************************************************************************)
(* A service whose last EnsureService returned without an error is served, *)
(* and nothing but its current addresses, ports and endpoints is reached   *)
(* through its chains - whatever earlier calls left behind, while other    *)
(* services are changed (one that gives up or takes over an address        *)
(* included) and while the same EnsureService is repeated.  A port that    *)
(* has endpoints, but none in the family of the address, is left out: its  *)
(* chain is not looked after (see the README).                             *)
(***************************************************************************)
ForwardedExactly ==
  \A s \in settled :
    /\ Served(s)
    /\ \A a \in Address, p \in Port, e \in Endpoint :
         Forwards(s, a, p, e) =>
           /\ a \in want[s].lb /\ p \in Ports(want[s])
           /\ p \in ServedPorts(want[s], FamilyOf[a]) => e \in Behind(want[s], FamilyOf[a], p)

(***************************************************************************)
(* Likewise for the source addresses: exactly the endpoints of the service *)
(* leave with its SNAT address.  While EnsureService is repeated for a     *)
(* service without an LB address in the family this does not hold, because *)
(* deleteLBServiceRules removes the SNAT rule first.                       *)
(***************************************************************************)
TranslatedExactly ==
  \A s \in settled, f \in Family :
    LET m == want[s] IN
    call.svc # s \/ HasLBIP(m, f) =>
      /\ OwnSNATRule(f, s) = SNATServiceRule(m, f, s)
      /\ OwnSrcIPs(f, s) = IF HasSNATIP(m, f) THEN SNATSrcIPsList(m, f, s) ELSE {}

(***************************************************************************)
(* A DeleteService that returned without an error leaves no object of the  *)
(* service, reachable or not: chains that lost their jump rule in a call   *)
(* that failed, or whose cleanup was only logged, included.                *)
(***************************************************************************)
DeletedLeavesNothing ==
  \A s \in settled : want[s] = Gone => \A r \in rows : r.svc # s

\* No address is listed before the rules of Setup guard it.
GuardedBeforeListed ==
  \A r \in rows : r.chain = "lb-ips" => {r.family} \X BaseRule \subseteq base

\* When changes and faults stop, every service ends up served.
Converges == <>[](\A s \in Svc : Served(s))

=============================================================================
