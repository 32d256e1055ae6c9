---------------------------- MODULE IPPoolAddresses ----------------------------
(***************************************************************************)
(* How the addresses of an IPPool are computed and validated: a run of     *)
(* ParseIPPoolAddresses (internal/controller/ip_pool.go) on the entries of *)
(* a pool, with the loops of IPRangeSet.merge, subtract and intersection   *)
(* (internal/core/ip_range_set.go), followed by the overlap check of the   *)
(* admission webhook (validate of ip_pool_webhook.go) against an existing  *)
(* pool.  One action is one iteration of a loop.                           *)
(*                                                                         *)
(* Entries are of the pool's family or rejected, so one list of ranges per *)
(* set is modelled.  The early returns of merge, subtract and intersection *)
(* for empty lists return what their loops would.                          *)
(***************************************************************************)
EXTENDS IPRange

CONSTANTS EntryLists,   \* the values of Spec.Addresses
          RangeLists    \* the address lists of existing pools

(***************************************************************************)
(* A list as merge leaves it: ranges that are not empty, in order, with a  *)
(* gap between any two.                                                    *)
(***************************************************************************)
Canonical(rs) ==
  /\ \A k \in 1..Len(rs) : rs[k].start <= rs[k].end
  /\ \A k, l \in 1..Len(rs) : k < l => rs[k].end + 1 < rs[l].start

ASSUME EntryAssumption == EntryLists \subseteq Seq(Entry)
ASSUME RangeAssumption == \A rs \in RangeLists : rs \in Seq(IPRanges) /\ Canonical(rs)

VARIABLES addresses,    \* Spec.Addresses
          avoidBuggyIPs,
          existing,     \* the addresses of an existing pool
          pc,           \* the loop that runs
          i, j,         \* its indices
          current, out, \* its current range and its result so far
          errors,       \* the positions of rejected entries
          included, excluded,   \* the parsed ranges
          rs,           \* the sorted argument of merge
          base, subs,   \* the merged lists
          pool,         \* what ParseIPPoolAddresses returns
          overlap       \* the intersection with existing

inputs == <<addresses, avoidBuggyIPs, existing>>
loop == <<pc, i, j, current, out>>
parsed == <<errors, included, excluded>>
vars == <<inputs, loop, parsed, rs, base, subs, pool, overlap>>

PC == {"parse", "mergeIncluded", "mergeExcluded", "subtract", "intersect", "done"}

TypeOK ==
  /\ addresses \in Seq(Entry) /\ avoidBuggyIPs \in BOOLEAN /\ existing \in Seq(IPRanges)
  /\ pc \in PC /\ i \in Nat /\ j \in Nat
  /\ current \in IPRanges \cup {NoRange}
  /\ errors \subseteq Nat
  /\ \A list \in {out, included, excluded, rs, base, subs, pool, overlap} : list \in Seq(IPRanges)

Init ==
  /\ addresses \in EntryLists /\ avoidBuggyIPs \in BOOLEAN /\ existing \in RangeLists
  /\ pc = "parse" /\ i = 1 /\ j = 1 /\ current = NoRange /\ out = << >>
  /\ errors = {} /\ included = << >> /\ excluded = << >>
  /\ rs = << >> /\ base = << >> /\ subs = << >> /\ pool = << >> /\ overlap = << >>

-----------------------------------------------------------------------------
(***************************************************************************)
(* The loop of ParseIPPoolAddresses.                                       *)
(***************************************************************************)
Accepts(e) == Parses(e, avoidBuggyIPs) /\ e.family

Parse ==
  /\ pc = "parse" /\ i <= Len(addresses)
  /\ LET e == addresses[i]
         range == ParseIPRange(e, avoidBuggyIPs) IN
     \/ /\ ~Accepts(e)
        /\ errors' = errors \cup {i}
        /\ UNCHANGED <<included, excluded>>
     \/ /\ Accepts(e) /\ e.excluded
        /\ excluded' = Append(excluded, range)
        /\ UNCHANGED <<errors, included>>
     \/ /\ Accepts(e) /\ ~e.excluded
        /\ included' = Append(included, range)
        /\ UNCHANGED <<errors, excluded>>
  /\ i' = i + 1
  /\ UNCHANGED <<inputs, pc, j, current, out, rs, base, subs, pool, overlap>>

-----------------------------------------------------------------------------
(***************************************************************************)
(* merge: slices.SortFunc by start (not stable), then one pass.            *)
(***************************************************************************)
First(list) == IF list = << >> THEN NoRange ELSE list[1]

Sortings(list) ==
  LET n == Len(list) IN
  {[k \in 1..n |-> list[p[k]]] : p \in {f \in [1..n -> 1..n] :
     /\ \A l \in 1..n : \E k \in 1..n : f[k] = l
     /\ \A k, l \in 1..n : k < l => list[f[k]].start <= list[f[l]].start}}

StartMerge(list) ==
  \E s \in Sortings(list) :
    /\ rs' = s /\ current' = First(s)
    /\ i' = 2 /\ j' = 1 /\ out' = << >>

\* Mutant: adjacent ranges stay apart.
Touches_Overlap(next) == next.start <= current.end

Touches(next) == next.start <= current.end \/ next.start = NextAddr(current.end)

Merging == pc \in {"mergeIncluded", "mergeExcluded"} /\ i <= Len(rs)

MergeExtend ==
  /\ Merging /\ Touches(rs[i])
  /\ current' = [current EXCEPT !.end = IF @ < rs[i].end THEN rs[i].end ELSE @]
  /\ i' = i + 1
  /\ UNCHANGED <<inputs, pc, j, out, parsed, rs, base, subs, pool, overlap>>

MergeEmit ==
  /\ Merging /\ ~Touches(rs[i])
  /\ out' = Append(out, current) /\ current' = rs[i]
  /\ i' = i + 1
  /\ UNCHANGED <<inputs, pc, j, parsed, rs, base, subs, pool, overlap>>

\* What merge returns after its loop.
Merged == IF rs = << >> THEN << >> ELSE Append(out, current)

\* NewIPRangeSet(ipRanges...)
MergeIncluded ==
  /\ pc = "parse" /\ i > Len(addresses)
  /\ StartMerge(included)
  /\ pc' = "mergeIncluded"
  /\ UNCHANGED <<inputs, parsed, base, subs, pool, overlap>>

\* ipRangesSet.Subtract(ipRangesExcluded...): first its argument is merged, ...
MergeExcluded ==
  /\ pc = "mergeIncluded" /\ i > Len(rs)
  /\ base' = Merged
  /\ StartMerge(excluded)
  /\ pc' = "mergeExcluded"
  /\ UNCHANGED <<inputs, parsed, subs, pool, overlap>>

\* ... then it is subtracted.
StartSubtract ==
  /\ pc = "mergeExcluded" /\ i > Len(rs)
  /\ subs' = Merged
  /\ pc' = "subtract" /\ i' = 1 /\ j' = 1 /\ current' = First(base) /\ out' = << >>
  /\ UNCHANGED <<inputs, parsed, rs, base, pool, overlap>>

-----------------------------------------------------------------------------
(***************************************************************************)
(* subtract(rs1, rs2) with rs1 = base and rs2 = subs.                      *)
(***************************************************************************)
\* Mutant: the first excluded address is kept.
Kept_Inclusive(sub) ==
  IF current.end < sub.start THEN <<current>>
  ELSE IF current.start < sub.start
       THEN <<[start |-> current.start, end |-> sub.start]>>
       ELSE << >>

\* What an iteration keeps of the current range.
Kept(sub) ==
  IF current.end < sub.start THEN <<current>>
  ELSE IF current.start < sub.start
       THEN <<[start |-> current.start, end |-> PrevAddr(sub.start)]>>
       ELSE << >>

Subtract ==
  /\ pc = "subtract" /\ i <= Len(base) /\ j <= Len(subs)
  /\ LET sub == subs[j] IN
     /\ out' = out \o Kept(sub)
     /\ j' = IF sub.end <= current.end THEN j + 1 ELSE j
     /\ \/ /\ current.end <= sub.end
           /\ i' = i + 1
           /\ current' = IF i + 1 <= Len(base) THEN base[i + 1] ELSE current
        \/ /\ current.end > sub.end
           /\ current' = [current EXCEPT !.start = NextAddr(sub.end)]
           /\ i' = i
  /\ UNCHANGED <<inputs, pc, parsed, rs, base, subs, pool, overlap>>

\* Mutants: the ranges behind the current one are dropped, or it comes twice.
Remaining_Current == IF i <= Len(base) THEN <<current>> ELSE << >>
Remaining_Twice == IF i <= Len(base) THEN <<current>> \o SubSeq(base, i, Len(base)) ELSE << >>

\* The rest of rs1 is appended; the webhook goes on to Intersections.
Remaining == IF i <= Len(base) THEN <<current>> \o SubSeq(base, i + 1, Len(base)) ELSE << >>

FinishSubtract ==
  /\ pc = "subtract" /\ (i > Len(base) \/ j > Len(subs))
  /\ pool' = out \o Remaining
  /\ pc' = "intersect" /\ i' = 1 /\ j' = 1 /\ current' = NoRange /\ out' = << >>
  /\ UNCHANGED <<inputs, parsed, rs, base, subs, overlap>>

-----------------------------------------------------------------------------
(***************************************************************************)
(* intersection(rs1, rs2) with rs1 = pool and rs2 = existing.              *)
(***************************************************************************)
\* Mutant: the end of the first range is taken.
Common_FirstEnd(r1, r2) ==
  [start |-> IF r2.start > r1.start THEN r2.start ELSE r1.start, end |-> r1.end]

Common(r1, r2) ==
  [start |-> IF r2.start > r1.start THEN r2.start ELSE r1.start,
   end   |-> IF r2.end < r1.end THEN r2.end ELSE r1.end]

Intersect ==
  /\ pc = "intersect" /\ i <= Len(pool) /\ j <= Len(existing)
  /\ LET r1 == pool[i]  r2 == existing[j]  c == Common(r1, r2) IN
     \/ /\ r1.end < r2.start
        /\ i' = i + 1
        /\ UNCHANGED <<j, out>>
     \/ /\ r1.end >= r2.start /\ r2.end < r1.start
        /\ j' = j + 1
        /\ UNCHANGED <<i, out>>
     \/ /\ r1.end >= r2.start /\ r2.end >= r1.start
        /\ out' = IF c.start <= c.end THEN Append(out, c) ELSE out
        /\ IF r1.end <= r2.end THEN i' = i + 1 /\ j' = j ELSE j' = j + 1 /\ i' = i
  /\ UNCHANGED <<inputs, pc, current, parsed, rs, base, subs, pool, overlap>>

\* Mutant: the loop waits for both lists.
FinishIntersect_Both ==
  /\ pc = "intersect" /\ i > Len(pool) /\ j > Len(existing)
  /\ overlap' = out
  /\ pc' = "done"
  /\ UNCHANGED <<inputs, i, j, current, out, parsed, rs, base, subs, pool>>

FinishIntersect ==
  /\ pc = "intersect" /\ (i > Len(pool) \/ j > Len(existing))
  /\ overlap' = out
  /\ pc' = "done"
  /\ UNCHANGED <<inputs, i, j, current, out, parsed, rs, base, subs, pool>>

\* The verdict of the webhook.
Admitted == pc = "done" /\ errors = {} /\ overlap = << >>

-----------------------------------------------------------------------------
Next ==
  \/ Parse
  \/ MergeIncluded \/ MergeExcluded \/ MergeExtend \/ MergeEmit
  \/ StartSubtract \/ Subtract \/ FinishSubtract
  \/ Intersect \/ FinishIntersect

Spec == Init /\ [][Next]_vars

-----------------------------------------------------------------------------
(***************************************************************************)
(* merge neither loses nor invents an address and leaves a canonical list, *)
(* whatever the order, overlap and adjacency of its argument.              *)
(***************************************************************************)
MergedExactly ==
  /\ pc \notin {"parse", "mergeIncluded"} =>
       Canonical(base) /\ \A x \in Addr : Covers(base, x) <=> Covers(included, x)
  /\ pc \in {"subtract", "intersect", "done"} =>
       Canonical(subs) /\ \A x \in Addr : Covers(subs, x) <=> Covers(excluded, x)

\* After subtract no excluded range has an address left in the pool, ...
ExcludedRangesAreOut ==
  pc \in {"intersect", "done"} =>
    \A x \in Addr : Covers(pool, x) => ~Covers(excluded, x)

\* ... and every included address that is not excluded is in the pool.
NothingIsLost ==
  pc \in {"intersect", "done"} =>
    \A x \in Addr : Covers(included, x) /\ ~Covers(excluded, x) => Covers(pool, x)

(***************************************************************************)
(* The pool is canonical again: the sums of Count count no address twice,  *)
(* and intersection may rely on the order.                                 *)
(***************************************************************************)
PoolIsCanonical == pc \in {"intersect", "done"} => Canonical(pool)

(***************************************************************************)
(* The webhook admits a pool only when it shares no address with the       *)
(* existing one, and refuses it for an overlap only when it does share.    *)
(***************************************************************************)
OverlapFound ==
  pc = "done" => \A x \in Addr : Covers(overlap, x) <=> Covers(pool, x) /\ Covers(existing, x)

(***************************************************************************)
(* Contains finds exactly the addresses of the pool, the first address of  *)
(* the family included, as long as no range ends with the last address of  *)
(* the family (then it finds none of that range).                          *)
(***************************************************************************)
ContainsIsExact ==
  pc = "done" =>
    \A k \in 1..Len(pool) : pool[k].end # MaxAddr =>
      \A x \in Addr : Contains(pool[k], x) <=> Spans(pool[k], x)

\* "subtract disjoint no change": subtracting a range never adds an address.
NothingIsAdded ==
  pc \in {"intersect", "done"} => \A x \in Addr : Covers(pool, x) => Covers(included, x)

=============================================================================
