------------------------------ MODULE ClientSync -------------------------------
(***************************************************************************)
(* Client.Sync (internal/routeros/api/client.go): the one way in which the *)
(* backend changes the router.  It reads a table of the router, matches    *)
(* its objects with the requested ones and then deletes, patches and       *)
(* creates objects, one REST call at a time.  The backend's mutex lets one *)
(* Sync run at a time, but nothing stops the router's administrator from   *)
(* changing the table between two calls, a call from failing (before or    *)
(* after it took effect), or the process from ending.  An error ends Sync; *)
(* the reconciler's retry calls it again.  (A Get that fails changes       *)
(* nothing: it is no step.)                                                *)
(*                                                                         *)
(* A rule is what compareObjs compares, without the ignored fields; its    *)
(* key is what idFunc returns (one key for all when Sync is called without *)
(* an idFunc).  Every object of the router has an .id.                     *)
(***************************************************************************)
EXTENDS Integers, Sequences, FiniteSets

CONSTANTS Key, Body,
          RequestLists,   \* the lists of requests Sync may be called with
          Edited,         \* TRUE: an administrator edits the table too
          MaxOps, MaxFaults, MaxId   \* bounds of a run

Rule == [key : Key, body : Body]

ASSUME RequestListsAssumption == RequestLists \subseteq Seq(Rule)
ASSUME EditedAssumption == Edited \in BOOLEAN
ASSUME SyncBoundAssumption == {MaxOps, MaxFaults, MaxId} \subseteq Nat

VARIABLES table,    \* the router's table, in its order
          reqs,     \* the requests
          pc,       \* what Sync does
          resp,     \* objects of the router's answer that are not matched yet
          found, patchable, conflicts,   \* the result of the matching
          next,     \* position in reqs of the loops over them
          nextId,   \* the router's next .id
          calm,     \* nobody else changed table or reqs since the last Get
          synced,   \* whether Sync has returned without an error since then
          ops, faults   \* operations and faults so far (bounds only)

matching == <<found, patchable, conflicts>>
vars == <<table, reqs, pc, resp, matching, next, nextId, calm, synced, ops, faults>>

NoId == 0
Object == [id : Nat \ {NoId}, own : BOOLEAN, rule : Rule]   \* own: filterFunc accepts it

(***************************************************************************)
(* Since others changed the table or the requests, Sync has not returned   *)
(* without an error ("no"), it has ("now"), or it has and there was        *)
(* another Get ("before").                                                 *)
(***************************************************************************)
SyncStates == {"no", "now", "before"}

TypeOK ==
  /\ table \in Seq(Object)
  /\ reqs \in Seq(Rule)
  /\ pc \in {"idle", "match", "delete", "write"}
  /\ resp \in Seq(Object)
  /\ found \in Seq(Nat) /\ patchable \in Seq(Nat) /\ conflicts \in Seq(Nat)
  /\ pc # "idle" => Len(found) = Len(reqs) /\ Len(patchable) = Len(reqs)
  /\ next \in 1..(Len(reqs) + 1)
  /\ nextId \in Nat \ {NoId} /\ \A n \in 1..Len(table) : table[n].id < nextId
  /\ calm \in BOOLEAN /\ synced \in SyncStates
  /\ ops \in Nat /\ faults \in Nat

Init ==
  /\ table = << >>
  /\ reqs \in RequestLists
  /\ pc = "idle" /\ resp = << >> /\ found = << >> /\ patchable = << >> /\ conflicts = << >> /\ next = 1
  /\ nextId = 1
  /\ calm = FALSE /\ synced = "no"
  /\ ops = 0 /\ faults = 0

Operation == ops < MaxOps /\ ops' = ops + 1
Fault == faults < MaxFaults /\ faults' = faults + 1

-----------------------------------------------------------------------------
(***************************************************************************)
(* The router.                                                             *)
(***************************************************************************)
Ids == {table[n].id : n \in 1..Len(table)}
Remove(id) ==
  \E k \in 1..Len(table) :
    /\ table[k].id = id
    /\ table' = [n \in 1..(Len(table) - 1) |-> IF n < k THEN table[n] ELSE table[n + 1]]
With(id, rule) == [n \in 1..Len(table) |->
                     IF table[n].id = id THEN [table[n] EXCEPT !.rule = rule] ELSE table[n]]
Created(own, rule) == Append(table, [id |-> nextId, own |-> own, rule |-> rule])

(***************************************************************************)
(* Others: the reconciler wants something else from its next Sync; the     *)
(* administrator creates, edits or removes an object.                      *)
(***************************************************************************)
ChangeRequests ==
  /\ pc = "idle"
  /\ Operation
  /\ \E list \in RequestLists \ {reqs} : reqs' = list
  /\ calm' = FALSE /\ synced' = "no"
  /\ UNCHANGED <<table, pc, resp, matching, next, nextId, faults>>

Administrate ==
  /\ Edited
  /\ pc # "match"
  /\ Operation
  /\ \/ \E own \in BOOLEAN, rule \in Rule : table' = Created(own, rule) /\ nextId' = nextId + 1
     \/ \E id \in Ids : Remove(id) /\ nextId' = nextId
     \/ \E id \in Ids, rule \in Rule : table' = With(id, rule) /\ nextId' = nextId
  /\ calm' = FALSE /\ synced' = "no"
  /\ UNCHANGED <<reqs, pc, resp, matching, next, faults>>

-----------------------------------------------------------------------------
(***************************************************************************)
(* The matching: every object, in table order, goes to the first request   *)
(* that it equals or whose key it has, while that place is free; an object *)
(* without a request is a conflict, and so is the object to patch for a    *)
(* request that has an equal one.  It makes no call, so what others do     *)
(* meanwhile is covered by what they do right after it.                    *)
(***************************************************************************)
Get ==
  /\ pc = "idle"
  /\ resp' = table
  /\ LET none == [j \in 1..Len(reqs) |-> NoId] IN found' = none /\ patchable' = none
  /\ pc' = "match"
  /\ calm' = TRUE /\ synced' = IF synced = "no" THEN "no" ELSE "before"
  /\ UNCHANGED <<table, reqs, conflicts, next, nextId, ops, faults>>

\* Mutant: the keys are not compared.
Patches_AnyKey(o, j) == patchable[j] = NoId

Finds(o, j) == found[j] = NoId /\ o.rule = reqs[j]
Patches(o, j) == patchable[j] = NoId /\ o.rule.key = reqs[j].key
Fits(o) == {j \in 1..Len(reqs) : Finds(o, j) \/ Patches(o, j)}

\* The places of o among the requests, all left alone when it has none.
Match(o) ==
  IF Fits(o) = {} THEN conflicts' = Append(conflicts, o.id) /\ UNCHANGED <<found, patchable>>
  ELSE \E j \in Fits(o) :
         /\ \A k \in Fits(o) : j <= k
         /\ IF Finds(o, j) THEN found' = [found EXCEPT ![j] = o.id] /\ UNCHANGED patchable
                           ELSE patchable' = [patchable EXCEPT ![j] = o.id] /\ UNCHANGED found
         /\ UNCHANGED conflicts

\* Mutant: the filter is ignored.
Accepted_All(o) == TRUE

\* filterFunc
Accepted(o) == o.own

MatchNext ==
  /\ pc = "match" /\ resp # << >>
  /\ IF Accepted(Head(resp)) THEN Match(Head(resp)) ELSE UNCHANGED matching
  /\ resp' = Tail(resp)
  /\ UNCHANGED <<table, reqs, pc, next, nextId, calm, synced, ops, faults>>

\* Mutant: an object to patch stays next to an equal one.
Superfluous_Never(j) == FALSE

Superfluous(j) == found[j] # NoId /\ patchable[j] # NoId

SortOut ==
  /\ pc = "match" /\ resp = << >> /\ next <= Len(reqs)
  /\ IF Superfluous(next)
     THEN /\ conflicts' = Append(conflicts, patchable[next])
          /\ patchable' = [patchable EXCEPT ![next] = NoId]
     ELSE UNCHANGED <<conflicts, patchable>>
  /\ next' = next + 1
  /\ UNCHANGED <<table, reqs, pc, resp, found, nextId, calm, synced, ops, faults>>

MatchDone ==
  /\ pc = "match" /\ resp = << >> /\ next > Len(reqs)
  /\ pc' = "delete"
  /\ next' = 1
  /\ UNCHANGED <<table, reqs, resp, matching, nextId, calm, synced, ops, faults>>

-----------------------------------------------------------------------------
\* The call of Sync ends, and with it its local variables.
End ==
  /\ pc' = "idle" /\ found' = << >> /\ patchable' = << >> /\ conflicts' = << >>
  /\ next' = 1

\* Sync returns an error: a call failed, or its object is gone.
Abort == End /\ UNCHANGED synced

Delete ==
  /\ pc = "delete" /\ conflicts # << >>
  /\ LET id == Head(conflicts) IN
     \/ /\ Remove(id)
        /\ conflicts' = Tail(conflicts)
        /\ UNCHANGED <<pc, found, patchable, next, synced, faults>>
     \/ /\ id \notin Ids
        /\ Abort
        /\ UNCHANGED <<table, faults>>
     \/ /\ Fault
        /\ Remove(id) \/ UNCHANGED table
        /\ Abort
  /\ UNCHANGED <<reqs, resp, nextId, calm, ops>>

DeletesDone ==
  /\ pc = "delete" /\ conflicts = << >>
  /\ pc' = "write"
  /\ UNCHANGED <<table, reqs, resp, matching, next, nextId, calm, synced, ops, faults>>

\* The write that request next needs, when it is applied.
Patch ==
  /\ found[next] = NoId /\ patchable[next] # NoId
  /\ patchable[next] \in Ids
  /\ table' = With(patchable[next], reqs[next])
  /\ nextId' = nextId

Put ==
  /\ found[next] = NoId /\ patchable[next] = NoId
  /\ nextId < MaxId
  /\ table' = Created(TRUE, reqs[next])
  /\ nextId' = nextId + 1

\* Mutant: a request that is found is not passed over.
Keep_Missing == FALSE

Keep ==
  /\ found[next] # NoId
  /\ UNCHANGED <<table, nextId>>

Write ==
  /\ pc = "write" /\ next <= Len(reqs)
  /\ \/ /\ Keep \/ Patch \/ Put
        /\ next' = next + 1
        /\ UNCHANGED <<pc, matching, synced, faults>>
     \/ /\ found[next] = NoId /\ patchable[next] \notin Ids \cup {NoId}
        /\ Abort
        /\ UNCHANGED <<table, nextId, faults>>
     \/ /\ found[next] = NoId
        /\ Fault
        /\ Patch \/ Put \/ UNCHANGED <<table, nextId>>
        /\ Abort
  /\ UNCHANGED <<reqs, resp, calm, ops>>

Return ==
  /\ pc = "write" /\ next > Len(reqs)
  /\ End
  /\ synced' = IF calm THEN "now" ELSE "no"
  /\ UNCHANGED <<table, reqs, resp, nextId, calm, ops, faults>>

\* The process ends in the middle of Sync.
Crash ==
  /\ pc \in {"delete", "write"}
  /\ Fault
  /\ Abort
  /\ UNCHANGED <<table, reqs, resp, nextId, calm, ops>>

-----------------------------------------------------------------------------
Sync == Get \/ MatchNext \/ SortOut \/ MatchDone \/ Delete \/ DeletesDone \/ Write \/ Return

Next == Sync \/ ChangeRequests \/ Administrate \/ Crash

Spec == Init /\ [][Next]_vars

(***************************************************************************)
(* A reconciliation comes again: at once after an error, after a change of *)
(* its object, and from the informers' periodic resync.                    *)
(***************************************************************************)
FairSpec == Spec /\ WF_vars(Sync)

-----------------------------------------------------------------------------
Own == {n \in 1..Len(table) : table[n].own}

\* Every request has one object, and there is no other object of its own.
InSync ==
  \A rule \in Rule :
    Cardinality({n \in Own : table[n].rule = rule})
      = Cardinality({j \in 1..Len(reqs) : reqs[j] = rule})

\* The objects of others and their order, as pairs of which one is not after the other.
Foreign == LET others == (1..Len(table)) \ Own IN
           UNION {{<<table[m], table[n]>> : m \in others \cap (1..n)} : n \in others}

(***************************************************************************)
(* A Sync that returns without an error, and that nobody interfered with,  *)
(* leaves exactly one object for every request and no other object of its  *)
(* own, whatever earlier attempts that failed half-way had left behind.    *)
(***************************************************************************)
SyncedExactly == synced = "now" => InSync

\* Sync never touches an object that its filter does not accept.
ForeignKept == [][ops' = ops => Foreign' = Foreign]_vars

(***************************************************************************)
(* The keys that only one request has, and the objects with a key.  The    *)
(* identifier functions of the backend are meant to give every request its *)
(* own key ("unique identifier"), but an endpoint that is listed in two    *)
(* EndpointSlices is requested twice: each repeated Sync then deletes one  *)
(* of its rules, taken for patching by the earlier request though that has *)
(* its object, and creates it again.                                       *)
(***************************************************************************)
SingleKeys ==
  {reqs[j].key : j \in {i \in 1..Len(reqs) :
                         \A k \in 1..Len(reqs) : reqs[k].key = reqs[i].key => k = i}}

ObjectsOf(key) == {table[n] : n \in {m \in Own : table[m].rule.key = key}}

(***************************************************************************)
(* A Sync of what is already there changes nothing but the rules of        *)
(* requests that share a key, even when it fails half-way: repeated        *)
(* reconciliations do not interrupt the traffic through the other rules.   *)
(***************************************************************************)
RepeatedSyncIsQuiet ==
  [][synced # "no" /\ ops' = ops
       => \A key \in SingleKeys : ObjectsOf(key)' = ObjectsOf(key)]_vars

\* The behaviours in which the bound on the .ids never holds Sync up.
WithinIds == [](nextId < MaxId)

(***************************************************************************)
(* When the others and the faults stop, Sync comes to return without an    *)
(* error, and again and again: the router ends up in sync.                 *)
(***************************************************************************)
Converges == WithinIds => <>[](synced # "no") /\ []<>(synced = "now")

=============================================================================
