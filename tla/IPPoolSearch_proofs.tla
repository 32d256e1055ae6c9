--------------------------- MODULE IPPoolSearch_proofs ---------------------------
(***************************************************************************)
(* The address arithmetic of a pool is exact for every address space,      *)
(* every list of entries, every existing pool and every hash: merging,     *)
(* subtracting and intersecting ranges, and the search that starts at an   *)
(* offset and wraps around.  Each loop has its invariant: what its result  *)
(* so far and the part of its argument that is left cover together.        *)
(***************************************************************************)
EXTENDS IPPoolSearch, TLAPS

\* Ranges that are not empty.
Ranges == {range \in IPRanges : range.start <= range.end}

LEMMA RangeFacts ==
  ASSUME NEW range \in Ranges
  PROVE  /\ range \in IPRanges /\ range.start \in Addr /\ range.end \in Addr
         /\ range.start \in Nat /\ range.end \in Nat /\ range.start <= range.end
         /\ range.end <= MaxAddr /\ MaxAddr \in Nat
         /\ range # NoRange
  BY AddrAssumption DEF Ranges, IPRanges, Addr, NoRange, NoAddr

LEMMA NewRange ==
  ASSUME NEW a \in Addr, NEW b \in Addr, a <= b
  PROVE  /\ [start |-> a, end |-> b] \in Ranges
         /\ \A x \in Addr : Spans([start |-> a, end |-> b], x) <=> a <= x /\ x <= b
  BY DEF Ranges, IPRanges, Spans

-----------------------------------------------------------------------------
(***************************************************************************)
(* Lists of ranges.                                                        *)
(***************************************************************************)
\* All ranges of the list lie before the address, with a gap.
Behind(list, x) == \A k \in 1..Len(list) : list[k].end + 1 < x

LEMMA EmptyList ==
  /\ << >> \in Seq(Ranges) /\ Canonical(<< >>)
  /\ \A x : ~Covers(<< >>, x) /\ Behind(<< >>, x)
  BY DEF Canonical, Covers, Behind

LEMMA AppendFacts ==
  ASSUME NEW list \in Seq(Ranges), NEW range \in Ranges
  PROVE  /\ Append(list, range) \in Seq(Ranges)
         /\ \A x \in Addr : Covers(Append(list, range), x) <=> Covers(list, x) \/ Spans(range, x)
         /\ Canonical(list) /\ Behind(list, range.start) => Canonical(Append(list, range))
         /\ \A x \in Addr : Behind(list, x) /\ range.end + 1 < x => Behind(Append(list, range), x)
<1> DEFINE n == Len(list)
           new == Append(list, range)
<1>1. /\ new \in Seq(Ranges) /\ n \in Nat /\ Len(new) = n + 1 /\ new[n + 1] = range
      /\ \A k \in 1..n : new[k] = list[k]
  OBVIOUS
<1>2. /\ \A k \in 1..(n + 1) : k \in 1..n \/ k = n + 1
      /\ \A k \in 1..n : k \in 1..(n + 1) /\ k < n + 1 /\ ~(n + 1 < k)
      /\ n + 1 \in 1..(n + 1) /\ ~(n + 1 < n + 1)
  BY <1>1
<1>3. \A x \in Addr : Covers(new, x) <=> Covers(list, x) \/ Spans(range, x)
  BY <1>1, <1>2 DEF Covers
<1>4. ASSUME Canonical(list), Behind(list, range.start) PROVE Canonical(new)
  <2>1. \A k \in 1..(n + 1) : new[k].start <= new[k].end
    BY <1>1, <1>2, <1>4, RangeFacts DEF Canonical
  <2>2. \A k, l \in 1..(n + 1) : k < l => new[k].end + 1 < new[l].start
    BY <1>1, <1>2, <1>4 DEF Canonical, Behind
  <2> QED
    BY <1>1, <2>1, <2>2 DEF Canonical
<1>5. \A x \in Addr : Behind(list, x) /\ range.end + 1 < x => Behind(new, x)
  BY <1>1, <1>2 DEF Behind
<1> QED
  BY <1>1, <1>3, <1>4, <1>5

LEMMA ListFacts ==
  ASSUME NEW list \in Seq(Ranges)
  PROVE  /\ Len(list) \in Nat
         /\ \A k \in 1..Len(list) : list[k] \in Ranges
         /\ list = << >> <=> Len(list) = 0
  OBVIOUS

\* The ranges of a canonical list have no address in common.
LEMMA CanonicalDisjoint ==
  ASSUME NEW list \in Seq(Ranges), Canonical(list), NEW k \in 1..Len(list), NEW l \in 1..Len(list),
         NEW x \in Addr, Spans(list[k], x), Spans(list[l], x)
  PROVE  k = l
<1>1. list[k] \in Ranges /\ list[l] \in Ranges /\ k \in Nat /\ l \in Nat /\ x \in Nat
  BY ListFacts DEF Addr
<1>2. k < l \/ l < k \/ k = l
  BY <1>1
<1>3. ~(k < l) /\ ~(l < k)
  <2>1. /\ list[k].start \in Nat /\ list[k].end \in Nat /\ list[l].start \in Nat /\ list[l].end \in Nat
    BY <1>1, RangeFacts
  <2> QED
    BY <1>1, <2>1, SMTT(30) DEF Canonical, Spans
<1> QED
  BY <1>2, <1>3

-----------------------------------------------------------------------------
(***************************************************************************)
(* What ParseIPRange returns.                                              *)
(***************************************************************************)
LEMMA ParsedRange ==
  ASSUME NEW e \in Entry, NEW edges \in BOOLEAN, Parses(e, edges)
  PROVE  ParseIPRange(e, edges) \in Ranges
<1> DEFINE a == ParsedStart(e, edges)
           b == ParsedEnd(e, edges)
<1>1. e.a \in Addr /\ MaxAddr \in Nat /\ e.form \in {"range", "cidr"}
  BY AddrAssumption DEF Entry, Parses
<1>2. FirstNamed(e) \in Addr /\ LastNamed(e) \in Addr
  <2>1. CASE e.form = "range"
    BY <1>1, <2>1 DEF FirstNamed, LastNamed, Parses
  <2>2. CASE e.form = "cidr"
    <3>1. PICK s \in Nat \ {0} : s = PrefixSize[e.b]
      BY <2>2, PrefixAssumption DEF Parses
    <3>2. e.a - (e.a % s) + s - 1 \in Addr
      BY <1>1, <2>2, <3>1, PrefixAssumption DEF Parses
    <3>3. e.a % s \in Nat /\ e.a % s <= e.a
      <4>1. PICK x \in Nat : x = e.a
        BY <1>1 DEF Addr
      <4>2. x % s \in 0..(s - 1) /\ x % s <= x
        BY <3>1
      <4> QED
        BY <4>1, <4>2
    <3>4. e.a - (e.a % s) \in Addr
      BY <1>1, <3>3 DEF Addr
    <3> QED
      BY <2>2, <3>1, <3>2, <3>4 DEF FirstNamed, LastNamed
  <2> QED
    BY <1>1, <2>1, <2>2
<1>3. a \in Addr /\ b \in Addr
  <2>1. a # NoAddr /\ b # NoAddr
    BY DEF Parses
  <2> QED
    BY <1>1, <1>2, <2>1 DEF ParsedStart, ParsedEnd, NextAddr, PrevAddr, Addr, NoAddr
<1>4. a <= b
  BY DEF Parses
<1> HIDE DEF a, b
<1>5. [start |-> a, end |-> b] \in Ranges
  BY <1>3, <1>4, NewRange
<1> QED
  BY <1>5 DEF ParseIPRange, a, b

-----------------------------------------------------------------------------
(***************************************************************************)
(* merge.                                                                  *)
(***************************************************************************)
MergeOf(source, list) ==
  /\ list \in Seq(Ranges) /\ Canonical(list)
  /\ \A x \in Addr : Covers(list, x) <=> Covers(source, x)

\* The ranges of the sorted list before position n are in acc and cur.
MergesTo(source, list, n, cur, acc) ==
  /\ list \in Seq(Ranges) /\ acc \in Seq(Ranges) /\ n \in Nat \ {0}
  /\ \A k, l \in 1..Len(list) : k < l => list[k].start <= list[l].start
  /\ \A x \in Addr : Covers(list, x) <=> Covers(source, x)
  /\ list # << >> =>
       /\ n <= Len(list) + 1 /\ cur \in Ranges
       /\ Canonical(acc) /\ Behind(acc, cur.start)
       /\ \A k \in n..Len(list) : cur.start <= list[k].start
       /\ \A x \in Addr : Covers(acc, x) \/ Spans(cur, x) <=>
                            \E k \in 1..(n - 1) : Spans(list[k], x)

LEMMA SortingFacts ==
  ASSUME NEW list \in Seq(Ranges), NEW s \in Sortings(list)
  PROVE  /\ s \in Seq(Ranges)
         /\ \A k, l \in 1..Len(s) : k < l => s[k].start <= s[l].start
         /\ \A x \in Addr : Covers(s, x) <=> Covers(list, x)
<1> DEFINE n == Len(list)
<1>1. PICK p \in [1..n -> 1..n] :
        /\ s = [k \in 1..n |-> list[p[k]]]
        /\ \A l \in 1..n : \E k \in 1..n : p[k] = l
        /\ \A k, l \in 1..n : k < l => list[p[k]].start <= list[p[l]].start
  BY DEF Sortings
<1>2. n \in Nat /\ \A k \in 1..n : list[k] \in Ranges
  BY ListFacts
<1>3. s \in [1..n -> Ranges]
  BY <1>1, <1>2
<1>4. s \in Seq(Ranges) /\ Len(s) = n
  BY <1>2, <1>3
<1>5. \A k, l \in 1..n : k < l => s[k].start <= s[l].start
  BY <1>1
<1>6. \A x \in Addr : Covers(s, x) <=> Covers(list, x)
  BY <1>1, <1>4 DEF Covers
<1> QED
  BY <1>4, <1>5, <1>6

LEMMA MergeStarts ==
  ASSUME NEW list \in Seq(Ranges), NEW s \in Sortings(list)
  PROVE  MergesTo(list, s, 2, First(s), << >>)
<1>1. /\ s \in Seq(Ranges)
      /\ \A k, l \in 1..Len(s) : k < l => s[k].start <= s[l].start
      /\ \A x \in Addr : Covers(s, x) <=> Covers(list, x)
  BY SortingFacts
<1>2. ASSUME s # << >>
      PROVE  /\ 2 <= Len(s) + 1 /\ First(s) \in Ranges
             /\ \A k \in 2..Len(s) : First(s).start <= s[k].start
             /\ \A x \in Addr : Spans(First(s), x) <=> \E k \in 1..(2 - 1) : Spans(s[k], x)
  <2>1. Len(s) \in Nat \ {0} /\ 1 \in 1..Len(s) /\ s[1] \in Ranges
    BY <1>1, <1>2, ListFacts
  <2>2. First(s) = s[1]
    BY <1>2 DEF First
  <2>3. \A k \in 2..Len(s) : k \in 1..Len(s) /\ 1 < k
    BY <2>1
  <2>4. \A k \in 2..Len(s) : s[1].start <= s[k].start
    BY <1>1, <2>1, <2>3
  <2>5. \A k \in 1..(2 - 1) : k = 1
    OBVIOUS
  <2>6. 1 \in 1..(2 - 1)
    OBVIOUS
  <2> QED
    BY <2>1, <2>2, <2>4, <2>5, <2>6
<1> QED
  BY <1>1, <1>2, EmptyList DEF MergesTo

LEMMA MergeIterates ==
  ASSUME NEW source, NEW list, NEW n, NEW cur, NEW acc, MergesTo(source, list, n, cur, acc),
         n <= Len(list)
  PROVE  LET next == list[n]
             touches == next.start <= cur.end \/ next.start = NextAddr(cur.end) IN
         /\ touches =>
              MergesTo(source, list, n + 1,
                       [cur EXCEPT !.end = IF cur.end < next.end THEN next.end ELSE cur.end], acc)
         /\ ~touches => MergesTo(source, list, n + 1, next, Append(acc, cur))
<1> DEFINE next == list[n]
           touches == next.start <= cur.end \/ next.start = NextAddr(cur.end)
           wide == [cur EXCEPT !.end = IF cur.end < next.end THEN next.end ELSE cur.end]
<1>1. /\ list \in Seq(Ranges) /\ acc \in Seq(Ranges) /\ n \in Nat \ {0} /\ Len(list) \in Nat
      /\ \A k \in 1..Len(list) : list[k] \in Ranges
      /\ \A k, l \in 1..Len(list) : k < l => list[k].start <= list[l].start
      /\ \A x \in Addr : Covers(list, x) <=> Covers(source, x)
  BY ListFacts DEF MergesTo
<1>2. list # << >> /\ n \in 1..Len(list) /\ n + 1 \in Nat \ {0} /\ n + 1 <= Len(list) + 1
  BY <1>1
<1>3. /\ cur \in Ranges /\ Canonical(acc) /\ Behind(acc, cur.start)
      /\ \A k \in n..Len(list) : cur.start <= list[k].start
      /\ \A x \in Addr : Covers(acc, x) \/ Spans(cur, x) <=>
                           \E k \in 1..(n - 1) : Spans(list[k], x)
  BY <1>2 DEF MergesTo
<1>4. /\ next \in Ranges /\ cur.start <= next.start
      /\ \A k \in (n + 1)..Len(list) : k \in n..Len(list) /\ k \in 1..Len(list) /\ n < k
      /\ \A k \in 1..((n + 1) - 1) : k \in 1..(n - 1) \/ k = n
      /\ n \in 1..((n + 1) - 1) /\ \A k \in 1..(n - 1) : k \in 1..((n + 1) - 1)
  BY <1>1, <1>2, <1>3
<1>5. /\ next.start \in Nat /\ next.end \in Nat /\ cur.start \in Nat /\ cur.end \in Nat
      /\ next.start \in Addr /\ next.end \in Addr /\ cur.start \in Addr /\ cur.end \in Addr
      /\ next.start <= next.end /\ cur.start <= cur.end
      /\ next.end <= MaxAddr /\ cur.end <= MaxAddr /\ MaxAddr \in Nat
  BY <1>3, <1>4, RangeFacts
<1>6. \A x \in Addr : (\E k \in 1..((n + 1) - 1) : Spans(list[k], x)) <=>
                        Covers(acc, x) \/ Spans(cur, x) \/ Spans(next, x)
  BY <1>3, <1>4
<1>7. ASSUME touches PROVE MergesTo(source, list, n + 1, wide, acc)
  <2>1. next.start <= cur.end + 1
    BY <1>5, <1>7 DEF NextAddr, NoAddr
  <2>2. PICK b \in Addr : b = IF cur.end < next.end THEN next.end ELSE cur.end
    BY <1>5
  <2>3. cur.start <= b /\ cur.end <= b /\ next.end <= b /\ (b = cur.end \/ b = next.end)
    BY <1>5, <2>2
  <2>4. cur.start = wide.start /\ wide = [start |-> cur.start, end |-> b]
    BY <1>3, <2>2 DEF Ranges, IPRanges
  <2>5. wide \in Ranges /\ \A x \in Addr : Spans(wide, x) <=> cur.start <= x /\ x <= b
    BY <1>5, <2>3, <2>4, NewRange
  <2>6. \A x \in Addr : Spans(wide, x) <=> Spans(cur, x) \/ Spans(next, x)
    <3>1. \A x \in Addr : x \in Int
      BY DEF Addr
    <3>2. b \in Int
      BY DEF Addr
    <3>3. \A x \in Int : (cur.start <= x /\ x <= b) <=>
                           (cur.start <= x /\ x <= cur.end) \/ (next.start <= x /\ x <= next.end)
      BY <1>4, <1>5, <2>1, <2>3, <3>2, SMTT(30)
    <3> QED
      BY <2>5, <3>1, <3>3 DEF Spans
  <2>7. \A k \in (n + 1)..Len(list) : wide.start <= list[k].start
    BY <1>3, <1>4, <2>4
  <2> HIDE DEF wide, next
  <2>8. \A x \in Addr : Covers(acc, x) \/ Spans(wide, x) <=>
                          \E k \in 1..((n + 1) - 1) : Spans(list[k], x)
    BY <1>6, <2>6
  <2>9. Behind(acc, wide.start)
    BY <1>3, <2>4
  <2> QED
    BY <1>1, <1>2, <1>3, <2>5, <2>7, <2>8, <2>9 DEF MergesTo
<1>8. ASSUME ~touches PROVE MergesTo(source, list, n + 1, next, Append(acc, cur))
  <2>1. cur.end + 1 < next.start
    BY <1>5, <1>8 DEF NextAddr, NoAddr
  <2>2. \A k \in 1..Len(acc) : acc[k].end + 1 < next.start
    <3>1. \A k \in 1..Len(acc) : acc[k].end + 1 < cur.start /\ acc[k].end \in Nat
      BY <1>1, <1>3, ListFacts, RangeFacts DEF Behind
    <3>2. \A x \in Nat : x + 1 < cur.start => x + 1 < next.start
      BY <1>5, <2>1
    <3> QED
      BY <3>1, <3>2
  <2>3. Behind(acc, next.start)
    BY <2>2 DEF Behind
  <2>4. /\ Append(acc, cur) \in Seq(Ranges) /\ Canonical(Append(acc, cur))
        /\ Behind(Append(acc, cur), next.start)
        /\ \A x \in Addr : Covers(Append(acc, cur), x) <=> Covers(acc, x) \/ Spans(cur, x)
    BY <1>1, <1>3, <1>5, <2>1, <2>3, AppendFacts
  <2>5. \A k \in (n + 1)..Len(list) : next.start <= list[k].start
    BY <1>1, <1>2, <1>4
  <2> HIDE DEF next
  <2>6. \A x \in Addr : Covers(Append(acc, cur), x) \/ Spans(next, x) <=>
                          \E k \in 1..((n + 1) - 1) : Spans(list[k], x)
    BY <1>6, <2>4
  <2> QED
    BY <1>1, <1>2, <1>4, <2>4, <2>5, <2>6 DEF MergesTo
<1> QED
  BY <1>7, <1>8

LEMMA MergeEnds ==
  ASSUME NEW source, NEW list, NEW n, NEW cur, NEW acc, MergesTo(source, list, n, cur, acc),
         n > Len(list)
  PROVE  MergeOf(source, IF list = << >> THEN << >> ELSE Append(acc, cur))
<1>1. CASE list = << >>
  BY <1>1, EmptyList DEF MergesTo, MergeOf
<1>2. CASE list # << >>
  <2>1. /\ Append(acc, cur) \in Seq(Ranges) /\ Canonical(Append(acc, cur))
        /\ \A x \in Addr : Covers(Append(acc, cur), x) <=> Covers(acc, x) \/ Spans(cur, x)
    BY <1>2, AppendFacts DEF MergesTo
  <2>2. list \in Seq(Ranges) /\ n \in Nat /\ n <= Len(list) + 1
    BY <1>2 DEF MergesTo
  <2>3. n - 1 = Len(list)
    BY <2>2, ListFacts
  <2>4. \A x \in Addr : Covers(acc, x) \/ Spans(cur, x) <=> Covers(list, x)
    BY <1>2, <2>3 DEF MergesTo, Covers
  <2>5. \A x \in Addr : Covers(list, x) <=> Covers(source, x)
    BY DEF MergesTo
  <2> QED
    BY <1>2, <2>1, <2>4, <2>5 DEF MergeOf
<1> QED
  BY <1>1, <1>2

-----------------------------------------------------------------------------
(***************************************************************************)
(* subtract.                                                               *)
(***************************************************************************)
MadeOf(list, p, q) ==
  \A k \in 1..Len(list) : \/ \E l \in 1..Len(p) : list[k] = p[l]
                          \/ \E l \in 1..Len(q) : list[k] = q[l]

LEMMA ConcatFacts ==
  ASSUME NEW p \in Seq(Ranges), NEW q \in Seq(Ranges)
  PROVE  /\ p \o q \in Seq(Ranges)
         /\ \A x \in Addr : Covers(p \o q, x) <=> Covers(p, x) \/ Covers(q, x)
         /\ MadeOf(p \o q, p, q)
         /\ /\ Canonical(p) /\ Canonical(q)
            /\ \A k \in 1..Len(p) : \A l \in 1..Len(q) : p[k].end + 1 < q[l].start
            => Canonical(p \o q)
<1> DEFINE a == Len(p)
           b == Len(q)
           all == p \o q
<1>1. /\ all \in Seq(Ranges) /\ Len(all) = a + b /\ a \in Nat /\ b \in Nat
      /\ \A k \in 1..(a + b) : all[k] = IF k <= a THEN p[k] ELSE q[k - a]
  OBVIOUS
<1>2. /\ \A k \in 1..a : k \in 1..(a + b) /\ all[k] = p[k]
      /\ \A k \in 1..b : k + a \in 1..(a + b) /\ all[k + a] = q[k]
      /\ \A k \in 1..(a + b) : \/ k \in 1..a /\ all[k] = p[k]
                               \/ k - a \in 1..b /\ all[k] = q[k - a]
  <2>1. \A k \in 1..b : k + a \in 1..(a + b) /\ ~(k + a <= a) /\ (k + a) - a = k
    BY <1>1
  <2>2. \A k \in 1..(a + b) : k <= a \/ k - a \in 1..b
    BY <1>1
  <2>3. \A k \in 1..(a + b) : k <= a => k \in 1..a
    BY <1>1
  <2>4. \A k \in 1..a : k \in 1..(a + b) /\ k <= a
    BY <1>1
  <2> QED
    BY <1>1, <2>1, <2>2, <2>3, <2>4
<1> HIDE DEF all, a, b
<1>3. \A x \in Addr : Covers(all, x) <=> Covers(p, x) \/ Covers(q, x)
  BY <1>1, <1>2 DEF Covers, a, b
<1>4. ASSUME Canonical(p), Canonical(q),
             \A k \in 1..a : \A l \in 1..b : p[k].end + 1 < q[l].start
      PROVE  Canonical(all)
  <2>1. \A k \in 1..(a + b) : all[k].start <= all[k].end
    BY <1>2, <1>4 DEF Canonical, a, b
  <2>2. ASSUME NEW k \in 1..(a + b), NEW l \in 1..(a + b), k < l
        PROVE  all[k].end + 1 < all[l].start
    <3>1. CASE k \in 1..a /\ l \in 1..a
      BY <1>2, <1>4, <2>2, <3>1 DEF Canonical, a
    <3>2. CASE k \in 1..a /\ l - a \in 1..b /\ all[l] = q[l - a]
      BY <1>2, <1>4, <3>2
    <3>3. CASE /\ k - a \in 1..b /\ all[k] = q[k - a]
               /\ l - a \in 1..b /\ all[l] = q[l - a]
      <4>1. k - a < l - a
        BY <1>1, <2>2
      <4>2. \A m, o \in 1..b : m < o => q[m].end + 1 < q[o].start
        BY <1>4 DEF Canonical, b
      <4> QED
        BY <3>3, <4>1, <4>2
    <3>4. CASE k - a \in 1..b /\ l \in 1..a
      BY <1>1, <2>2, <3>4
    <3> QED
      BY <1>2, <3>1, <3>2, <3>3, <3>4
  <2> QED
    BY <1>1, <2>1, <2>2 DEF Canonical
<1>5. \A k \in 1..Len(all) : (\E l \in 1..a : all[k] = p[l]) \/ (\E l \in 1..b : all[k] = q[l])
  BY <1>1, <1>2
<1>6. MadeOf(all, p, q)
  BY <1>5 DEF MadeOf, a, b
<1> QED
  BY <1>1, <1>3, <1>4, <1>6 DEF all, a, b

LEMMA ConcatSmall ==
  ASSUME NEW list \in Seq(Ranges), NEW range \in Ranges
  PROVE  /\ list \o <<range>> = Append(list, range)
         /\ list \o << >> = list
  OBVIOUS

LEMMA BehindMore ==
  ASSUME NEW list \in Seq(Ranges), NEW x \in Int, NEW y \in Int, Behind(list, x), x <= y
  PROVE  Behind(list, y)
<1>1. \A k \in 1..Len(list) : list[k].end \in Nat /\ list[k].end + 1 < x
  BY ListFacts, RangeFacts DEF Behind
<1>2. \A e \in Nat : e + 1 < x => e + 1 < y
  OBVIOUS
<1> QED
  BY <1>1, <1>2 DEF Behind

KeptOf(cur, sub) ==
  IF cur.end < sub.start THEN <<cur>>
  ELSE IF cur.start < sub.start
       THEN <<[start |-> cur.start, end |-> PrevAddr(sub.start)]>>
       ELSE << >>

\* What is kept of the current range lies before the range that is subtracted.
LEMMA KeptFacts ==
  ASSUME NEW acc \in Seq(Ranges), Canonical(acc), NEW cur \in Ranges, NEW sub \in Ranges,
         Behind(acc, cur.start), Behind(acc, sub.start + 1)
  PROVE  LET new == acc \o KeptOf(cur, sub) IN
         /\ new \in Seq(Ranges) /\ Canonical(new)
         /\ \A x \in Addr : Covers(new, x) <=> Covers(acc, x) \/ (Spans(cur, x) /\ x < sub.start)
         /\ Behind(new, sub.start + 1)
         /\ \A y \in Addr : cur.end + 1 < y => Behind(new, y)
<1>1. /\ cur.start \in Nat /\ cur.end \in Nat /\ cur.start <= cur.end
      /\ sub.start \in Nat /\ sub.end \in Nat /\ sub.start <= sub.end
      /\ cur.start \in Addr /\ cur.end \in Addr /\ sub.start \in Addr
      /\ sub.start <= MaxAddr /\ MaxAddr \in Nat
  BY RangeFacts
<1>2. \A x \in Addr : x \in Nat
  BY DEF Addr
<1>3. ASSUME NEW range \in Ranges, range.start = cur.start, range.end < sub.start, range.end <= cur.end,
             \A x \in Addr : Spans(range, x) <=> Spans(cur, x) /\ x < sub.start
      PROVE  LET new == Append(acc, range) IN
             /\ new \in Seq(Ranges) /\ Canonical(new)
             /\ \A x \in Addr : Covers(new, x) <=> Covers(acc, x) \/ (Spans(cur, x) /\ x < sub.start)
             /\ Behind(new, sub.start + 1)
             /\ \A y \in Addr : cur.end + 1 < y => Behind(new, y)
  <2>1. range.end \in Nat
    BY RangeFacts
  <2> DEFINE new == Append(acc, range)
  <2>2. /\ new \in Seq(Ranges) /\ Canonical(new)
        /\ \A x \in Addr : Covers(new, x) <=> Covers(acc, x) \/ Spans(range, x)
    BY <1>3, AppendFacts
  <2>3. ASSUME NEW y \in Nat, Behind(acc, y), range.end + 1 < y PROVE Behind(new, y)
    <3>1. /\ Len(acc) \in Nat /\ Len(new) = Len(acc) + 1 /\ new[Len(acc) + 1] = range
          /\ \A k \in 1..Len(acc) : new[k] = acc[k]
      OBVIOUS
    <3>2. \A k \in 1..(Len(acc) + 1) : k \in 1..Len(acc) \/ k = Len(acc) + 1
      BY <3>1
    <3> HIDE DEF new
    <3> QED
      BY <2>3, <3>1, <3>2 DEF Behind
  <2>4. Behind(new, sub.start + 1)
    <3>1. range.end + 1 < sub.start + 1 /\ sub.start + 1 \in Nat
      BY <1>1, <1>3, <2>1
    <3> QED
      BY <2>3, <3>1
  <2>5. ASSUME NEW y \in Addr, cur.end + 1 < y PROVE Behind(new, y)
    <3>1. y \in Nat /\ cur.start <= y /\ range.end + 1 < y
      BY <1>1, <1>2, <1>3, <2>1, <2>5
    <3>2. Behind(acc, y)
      BY <1>1, <3>1, BehindMore
    <3> QED
      BY <2>3, <3>1, <3>2
  <2> HIDE DEF new
  <2>6. \A x \in Addr : Covers(new, x) <=> Covers(acc, x) \/ (Spans(cur, x) /\ x < sub.start)
    BY <1>3, <2>2
  <2> QED
    BY <2>2, <2>4, <2>5, <2>6 DEF new
<1>4. CASE cur.end < sub.start
  <2>1. acc \o KeptOf(cur, sub) = Append(acc, cur)
    BY <1>4, ConcatSmall DEF KeptOf
  <2>2. \A x \in Addr : Spans(cur, x) <=> Spans(cur, x) /\ x < sub.start
    <3>1. \A x \in Nat : x <= cur.end => x < sub.start
      BY <1>1, <1>4
    <3> QED
      BY <1>2, <3>1 DEF Spans
  <2>3. cur.end <= cur.end
    BY <1>1
  <2> QED
    BY <1>3, <1>4, <2>1, <2>2, <2>3
<1>5. CASE ~(cur.end < sub.start) /\ cur.start < sub.start
  <2>1. PICK b \in Addr : b = PrevAddr(sub.start)
    BY <1>1, <1>5 DEF PrevAddr, Addr
  <2>2. b = sub.start - 1
    BY <2>1 DEF PrevAddr
  <2>3. b \in Nat /\ cur.start <= b /\ b < sub.start /\ b <= cur.end
    BY <1>1, <1>5, <2>2
  <2>4. PICK range : range = [start |-> cur.start, end |-> b]
    OBVIOUS
  <2>5. /\ range \in Ranges /\ range.start = cur.start /\ range.end = b
        /\ \A x \in Addr : Spans(range, x) <=> cur.start <= x /\ x <= b
    BY <1>1, <2>3, <2>4, NewRange
  <2>6. acc \o KeptOf(cur, sub) = Append(acc, range)
    BY <1>5, <2>1, <2>4, <2>5, ConcatSmall DEF KeptOf
  <2>7. \A x \in Addr : Spans(range, x) <=> Spans(cur, x) /\ x < sub.start
    <3>1. \A x \in Nat : (cur.start <= x /\ x <= b) <=> (cur.start <= x /\ x <= cur.end /\ x < sub.start)
      BY <1>1, <1>5, <2>2
    <3> QED
      BY <1>2, <2>5, <3>1 DEF Spans
  <2> QED
    BY <1>3, <2>3, <2>5, <2>6, <2>7
<1>6. CASE ~(cur.end < sub.start) /\ ~(cur.start < sub.start)
  <2>1. acc \o KeptOf(cur, sub) = acc
    BY <1>6, ConcatSmall DEF KeptOf
  <2>2. \A x \in Addr : ~(Spans(cur, x) /\ x < sub.start)
    <3>1. \A x \in Nat : ~(cur.start <= x /\ x < sub.start)
      BY <1>1, <1>6
    <3> QED
      BY <1>2, <3>1 DEF Spans
  <2>3. ASSUME NEW y \in Addr, cur.end + 1 < y PROVE Behind(acc, y)
    <3>1. y \in Nat /\ cur.start <= y
      BY <1>1, <1>2, <2>3
    <3> QED
      BY <1>1, <3>1, BehindMore
  <2> QED
    BY <2>1, <2>2, <2>3
<1> QED
  BY <1>4, <1>5, <1>6

Difference(from, without, list) ==
  /\ list \in Seq(Ranges) /\ Canonical(list)
  /\ \A x \in Addr : Covers(list, x) => ~Covers(without, x)
  /\ \A x \in Addr : Covers(from, x) /\ ~Covers(without, x) => Covers(list, x)

\* The current range and those after position n.
Left(from, n, cur, x) ==
  n <= Len(from) /\ (Spans(cur, x) \/ \E k \in (n + 1)..Len(from) : Spans(from[k], x))

(***************************************************************************)
(* acc has nothing that is subtracted, and nothing else is missing from it *)
(* than what is left; the subtracted ranges before position m are done.    *)
(* (The current range may have grown beyond the one it came from.)         *)
(***************************************************************************)
SubtractsTo(from, without, n, m, cur, acc) ==
  /\ acc \in Seq(Ranges) /\ Canonical(acc)
  /\ n \in 1..(Len(from) + 1) /\ m \in 1..(Len(without) + 1)
  /\ \A x \in Addr : Covers(acc, x) => ~Covers(without, x)
  /\ \A x \in Addr : Covers(from, x) /\ ~Covers(without, x) => Covers(acc, x) \/ Left(from, n, cur, x)
  /\ m <= Len(without) => Behind(acc, without[m].start + 1)
  /\ n <= Len(from) =>
       /\ cur \in Ranges /\ cur.end = from[n].end /\ Behind(acc, cur.start)
       /\ \A l \in 1..(m - 1) : without[l].end < cur.start

LEMMA SubtractStarts ==
  ASSUME NEW from \in Seq(Ranges), NEW without \in Seq(Ranges)
  PROVE  SubtractsTo(from, without, 1, 1, First(from), << >>)
<1>1. Len(from) \in Nat /\ Len(without) \in Nat
  BY ListFacts
<1>2. 1 \in 1..(Len(from) + 1) /\ 1 \in 1..(Len(without) + 1) /\ 1..(1 - 1) = {}
  BY <1>1
<1>3. ASSUME 1 <= Len(from) PROVE First(from) \in Ranges /\ First(from) = from[1]
  <2>1. from # << >> /\ 1 \in 1..Len(from)
    BY <1>1, <1>3
  <2> QED
    BY <2>1, ListFacts DEF First
<1>4. ASSUME NEW x \in Addr, Covers(from, x) PROVE Left(from, 1, First(from), x)
  <2>1. PICK k \in 1..Len(from) : Spans(from[k], x)
    BY <1>4 DEF Covers
  <2>2. 1 <= Len(from) /\ (k = 1 \/ k \in (1 + 1)..Len(from))
    BY <1>1, <2>1
  <2> QED
    BY <1>3, <2>1, <2>2 DEF Left
<1> QED
  BY <1>2, <1>3, <1>4, EmptyList DEF SubtractsTo

LEMMA SubtractIterates ==
  ASSUME NEW from \in Seq(Ranges), Canonical(from), NEW without \in Seq(Ranges), Canonical(without),
         NEW n, NEW m, NEW cur, NEW acc, SubtractsTo(from, without, n, m, cur, acc),
         n <= Len(from), m <= Len(without)
  PROVE  LET sub == without[m]
             new == acc \o KeptOf(cur, sub)
             after == IF sub.end <= cur.end THEN m + 1 ELSE m IN
         /\ cur.end <= sub.end =>
              SubtractsTo(from, without, n + 1, after,
                          IF n + 1 <= Len(from) THEN from[n + 1] ELSE cur, new)
         /\ cur.end > sub.end =>
              SubtractsTo(from, without, n, after, [cur EXCEPT !.start = NextAddr(sub.end)], new)
<1> DEFINE sub == without[m]
           new == acc \o KeptOf(cur, sub)
           after == IF sub.end <= cur.end THEN m + 1 ELSE m
<1>1. /\ Len(from) \in Nat /\ Len(without) \in Nat
      /\ \A k \in 1..Len(from) : from[k] \in Ranges
      /\ \A k \in 1..Len(without) : without[k] \in Ranges
  BY ListFacts
<1>2. /\ n \in 1..Len(from) /\ m \in 1..Len(without) /\ n \in Nat /\ m \in Nat
  BY <1>1 DEF SubtractsTo
<1>3. /\ acc \in Seq(Ranges) /\ Canonical(acc)
      /\ cur \in Ranges /\ cur.end = from[n].end /\ Behind(acc, cur.start) /\ Behind(acc, sub.start + 1)
      /\ \A l \in 1..(m - 1) : without[l].end < cur.start
      /\ \A x \in Addr : Covers(acc, x) => ~Covers(without, x)
      /\ \A x \in Addr : Covers(from, x) /\ ~Covers(without, x) => Covers(acc, x) \/ Left(from, n, cur, x)
  BY DEF SubtractsTo
<1>4. sub \in Ranges
  BY <1>1, <1>2
<1>5. /\ cur.start \in Nat /\ cur.end \in Nat /\ cur.start <= cur.end
      /\ sub.start \in Nat /\ sub.end \in Nat /\ sub.start <= sub.end
      /\ cur.end \in Addr /\ cur.end <= MaxAddr /\ MaxAddr \in Nat
  BY <1>3, <1>4, RangeFacts
<1>6. \A x \in Addr : x \in Nat
  BY DEF Addr
<1>7. /\ new \in Seq(Ranges) /\ Canonical(new)
      /\ \A x \in Addr : Covers(new, x) <=> Covers(acc, x) \/ (Spans(cur, x) /\ x < sub.start)
      /\ Behind(new, sub.start + 1)
      /\ \A y \in Addr : cur.end + 1 < y => Behind(new, y)
  BY <1>3, <1>4, KeptFacts
<1> HIDE DEF new
<1>8. \A k \in 1..Len(without) : without[k].start \in Nat /\ without[k].end \in Nat
  BY <1>1, RangeFacts
<1>9. \A l \in 1..Len(without) : m < l => sub.end + 1 < without[l].start
  BY <1>2 DEF Canonical
<1>10. ASSUME NEW x \in Addr, Spans(cur, x), x < sub.start PROVE ~Covers(without, x)
  <2>1. ASSUME NEW l \in 1..Len(without), Spans(without[l], x) PROVE FALSE
    <3>1. l \in Nat /\ x \in Nat /\ without[l].start <= x /\ x <= without[l].end /\ cur.start <= x
      BY <1>6, <1>10, <2>1 DEF Spans
    <3>2. CASE l < m
      <4>1. l \in 1..(m - 1)
        BY <1>2, <3>1, <3>2
      <4>2. without[l].end < cur.start
        BY <1>3, <4>1
      <4> QED
        BY <1>5, <1>8, <3>1, <4>2
    <3>3. CASE l = m
      BY <1>5, <1>10, <3>1, <3>3
    <3>4. CASE m < l
      BY <1>5, <1>8, <1>9, <1>10, <3>1, <3>4, SMTT(30)
    <3> QED
      BY <1>2, <3>1, <3>2, <3>3, <3>4
  <2> QED
    BY <2>1 DEF Covers
<1>11. \A x \in Addr : Covers(new, x) => ~Covers(without, x)
  BY <1>3, <1>7, <1>10
<1>12. \A x \in Addr : ~Covers(without, x) => x < sub.start \/ sub.end < x
  <2>1. \A x \in Addr : Spans(sub, x) => Covers(without, x)
    BY <1>2 DEF Covers
  <2>2. \A x \in Nat : x < sub.start \/ sub.end < x \/ (sub.start <= x /\ x <= sub.end)
    BY <1>5
  <2> QED
    BY <1>6, <2>1, <2>2 DEF Spans
<1>13. after \in 1..(Len(without) + 1) /\ (after <= Len(without) => Behind(new, without[after].start + 1))
  <2>1. CASE after = m
    BY <1>1, <1>2, <1>7, <2>1
  <2>2. CASE after = m + 1
    <3>1. after \in 1..(Len(without) + 1)
      BY <1>1, <1>2, <2>2
    <3>2. ASSUME after <= Len(without) PROVE Behind(new, without[after].start + 1)
      <4>1. after \in 1..Len(without) /\ m < after
        BY <1>1, <1>2, <2>2, <3>2
      <4>2. sub.end + 1 < without[after].start /\ without[after].start \in Nat
        BY <1>8, <1>9, <4>1
      <4>3. sub.start + 1 <= without[after].start + 1
        BY <1>5, <4>2, SMTT(30)
      <4> QED
        BY <1>5, <1>7, <4>2, <4>3, BehindMore
    <3> QED
      BY <3>1, <3>2
  <2> QED
    BY <2>1, <2>2
<1>14. ASSUME cur.end <= sub.end
       PROVE  SubtractsTo(from, without, n + 1, after, IF n + 1 <= Len(from) THEN from[n + 1] ELSE cur, new)
  <2>1. PICK c : c = IF n + 1 <= Len(from) THEN from[n + 1] ELSE cur
    OBVIOUS
  <2>2. n + 1 \in 1..(Len(from) + 1)
    BY <1>1, <1>2
  <2>3. ASSUME n + 1 <= Len(from)
        PROVE  /\ c \in Ranges /\ c = from[n + 1] /\ Behind(new, c.start)
               /\ \A l \in 1..(after - 1) : without[l].end < c.start
    <3>1. n + 1 \in 1..Len(from) /\ n < n + 1
      BY <1>1, <1>2, <2>3
    <3>2. c \in Ranges /\ c = from[n + 1] /\ cur.end + 1 < c.start
      BY <1>1, <1>2, <1>3, <2>1, <2>3, <3>1 DEF Canonical
    <3>3. c.start \in Addr /\ c.start \in Nat
      BY <3>2, RangeFacts
    <3>4. ASSUME NEW l \in 1..(after - 1) PROVE without[l].end < c.start
      <4>1. l \in 1..Len(without) /\ (l \in 1..(m - 1) \/ (l = m /\ sub.end <= cur.end))
        BY <1>1, <1>2, <1>13
      <4>2. without[l].end \in Nat /\ (without[l].end < cur.start \/ without[l].end <= cur.end)
        BY <1>3, <1>8, <4>1
      <4> QED
        BY <1>5, <3>2, <3>3, <4>2, SMTT(30)
    <3> QED
      BY <1>7, <3>2, <3>3, <3>4
  <2>4. ASSUME NEW x \in Addr, Covers(from, x), ~Covers(without, x)
        PROVE  Covers(new, x) \/ Left(from, n + 1, c, x)
    <3>1. Covers(acc, x) \/ Spans(cur, x) \/ \E k \in (n + 1)..Len(from) : Spans(from[k], x)
      BY <1>3, <2>4 DEF Left
    <3>2. CASE Spans(cur, x)
      <4>1. x <= cur.end /\ x \in Nat
        BY <1>6, <3>2 DEF Spans
      <4>2. x < sub.start
        BY <1>5, <1>12, <1>14, <2>4, <4>1
      <4> QED
        BY <1>7, <3>2, <4>2
    <3>3. CASE \E k \in (n + 1)..Len(from) : Spans(from[k], x)
      <4>1. PICK k \in (n + 1)..Len(from) : Spans(from[k], x)
        BY <3>3
      <4>2. n + 1 <= Len(from) /\ (k = n + 1 \/ k \in ((n + 1) + 1)..Len(from))
        BY <1>1, <1>2, <4>1
      <4> QED
        BY <2>3, <4>1, <4>2 DEF Left
    <3> QED
      BY <1>7, <3>1, <3>2, <3>3
  <2> HIDE DEF after, sub
  <2>5. SubtractsTo(from, without, n + 1, after, c, new)
    BY <1>7, <1>11, <1>13, <2>2, <2>3, <2>4 DEF SubtractsTo
  <2> QED
    BY <2>1, <2>5
<1>15. ASSUME cur.end > sub.end
       PROVE  SubtractsTo(from, without, n, after, [cur EXCEPT !.start = NextAddr(sub.end)], new)
  <2>1. PICK c : c = [cur EXCEPT !.start = NextAddr(sub.end)]
    OBVIOUS
  <2>2. PICK a : a = NextAddr(sub.end)
    OBVIOUS
  <2>3. a = sub.end + 1 /\ a \in Addr /\ a <= cur.end /\ a \in Nat
    BY <1>5, <1>15, <2>2 DEF NextAddr, Addr
  <2>4. c = [start |-> a, end |-> cur.end]
    BY <1>3, <2>1, <2>2 DEF Ranges, IPRanges
  <2>5. c \in Ranges /\ c.start = a /\ c.end = cur.end /\ \A x \in Addr : Spans(c, x) <=> a <= x /\ x <= cur.end
    BY <1>5, <2>3, <2>4, NewRange
  <2>6. after = m + 1
    BY <1>5, <1>15
  <2>7. Behind(new, c.start)
    <3>1. sub.start + 1 \in Int /\ a \in Int /\ sub.start + 1 <= a
      BY <1>5, <2>3
    <3> QED
      BY <1>7, <2>5, <3>1, BehindMore
  <2>8. ASSUME NEW l \in 1..(after - 1) PROVE without[l].end < c.start
    <3>1. l \in 1..Len(without) /\ (l = m \/ l < m)
      BY <1>1, <1>2, <2>6
    <3>2. CASE l = m
      BY <1>5, <2>3, <2>5, <3>2
    <3>3. CASE l < m
      <4>1. without[l].end + 1 < without[m].start
        BY <1>2, <3>1, <3>3 DEF Canonical
      <4> QED
        BY <1>5, <1>8, <2>3, <2>5, <3>1, <4>1, SMTT(30)
    <3> QED
      BY <3>1, <3>2, <3>3
  <2>9. ASSUME NEW x \in Addr, Covers(from, x), ~Covers(without, x)
        PROVE  Covers(new, x) \/ Left(from, n, c, x)
    <3>1. Covers(acc, x) \/ Spans(cur, x) \/ \E k \in (n + 1)..Len(from) : Spans(from[k], x)
      BY <1>3, <2>9 DEF Left
    <3>2. ASSUME Spans(cur, x), ~(x < sub.start) PROVE Spans(c, x)
      <4>1. x <= cur.end /\ x \in Nat /\ sub.end < x
        BY <1>6, <1>12, <2>9, <3>2 DEF Spans
      <4> QED
        BY <1>5, <2>3, <2>5, <4>1
    <3> QED
      BY <1>7, <3>1, <3>2 DEF Left
  <2>10. c.end = from[n].end /\ n \in 1..(Len(from) + 1)
    BY <1>1, <1>2, <1>3, <2>5
  <2> HIDE DEF after, sub
  <2>11. SubtractsTo(from, without, n, after, c, new)
    BY <1>7, <1>11, <1>13, <2>5, <2>7, <2>8, <2>9, <2>10 DEF SubtractsTo
  <2> QED
    BY <2>1, <2>11
<1> QED
  BY <1>14, <1>15 DEF new

LEMMA SubSeqFacts ==
  ASSUME NEW list \in Seq(Ranges), Canonical(list), NEW n \in 1..Len(list)
  PROVE  LET rest == SubSeq(list, n + 1, Len(list)) IN
         /\ rest \in Seq(Ranges) /\ Canonical(rest)
         /\ \A x \in Addr : Covers(rest, x) <=> \E k \in (n + 1)..Len(list) : Spans(list[k], x)
         /\ \A k \in 1..Len(rest) : list[n].end + 1 < rest[k].start
<1> DEFINE b == Len(list)
           rest == SubSeq(list, n + 1, b)
<1>1. n \in Nat /\ b \in Nat /\ n <= b
  BY ListFacts
<1>2. rest \in Seq(Ranges) /\ Len(rest) = b - n /\ \A k \in 1..(b - n) : rest[k] = list[n + k]
  BY <1>1
<1>3. /\ \A k \in 1..(b - n) : n + k \in 1..b /\ n + k \in (n + 1)..b /\ n < n + k
      /\ \A k \in (n + 1)..b : k - n \in 1..(b - n) /\ n + (k - n) = k
      /\ \A k, l \in 1..(b - n) : k < l => n + k < n + l
  BY <1>1
<1> HIDE DEF rest, b
<1>4. Canonical(rest)
  <2>1. /\ \A k \in 1..b : list[k].start <= list[k].end
        /\ \A k, l \in 1..b : k < l => list[k].end + 1 < list[l].start
    BY DEF Canonical, b
  <2>2. \A k \in 1..(b - n) : rest[k].start <= rest[k].end
    BY <1>2, <1>3, <2>1
  <2>3. \A k, l \in 1..(b - n) : k < l => rest[k].end + 1 < rest[l].start
    BY <1>2, <1>3, <2>1
  <2> QED
    BY <1>2, <2>2, <2>3 DEF Canonical
<1>5. \A x \in Addr : Covers(rest, x) <=> \E k \in (n + 1)..b : Spans(list[k], x)
  <2>1. ASSUME NEW x \in Addr, NEW k \in (n + 1)..b, Spans(list[k], x) PROVE Covers(rest, x)
    <3>1. k - n \in 1..(b - n) /\ rest[k - n] = list[k]
      BY <1>2, <1>3
    <3> QED
      BY <1>2, <2>1, <3>1 DEF Covers
  <2>2. ASSUME NEW x \in Addr, Covers(rest, x) PROVE \E k \in (n + 1)..b : Spans(list[k], x)
    BY <1>2, <1>3, <2>2 DEF Covers
  <2> QED
    BY <2>1, <2>2
<1>6. \A k \in 1..Len(rest) : list[n].end + 1 < rest[k].start
  BY <1>2, <1>3 DEF Canonical, b
<1> QED
  BY <1>2, <1>4, <1>5, <1>6 DEF rest, b

LEMMA SubtractEnds ==
  ASSUME NEW from \in Seq(Ranges), Canonical(from), NEW without \in Seq(Ranges), Canonical(without),
         NEW n, NEW m, NEW cur, NEW acc, SubtractsTo(from, without, n, m, cur, acc),
         n > Len(from) \/ m > Len(without)
  PROVE  Difference(from, without,
           acc \o (IF n <= Len(from) THEN <<cur>> \o SubSeq(from, n + 1, Len(from)) ELSE << >>))
<1>1. /\ Len(from) \in Nat /\ Len(without) \in Nat
      /\ n \in 1..(Len(from) + 1) /\ m \in 1..(Len(without) + 1) /\ n \in Nat /\ m \in Nat
      /\ acc \in Seq(Ranges) /\ Canonical(acc)
      /\ \A x \in Addr : Covers(acc, x) => ~Covers(without, x)
      /\ \A x \in Addr : Covers(from, x) /\ ~Covers(without, x) => Covers(acc, x) \/ Left(from, n, cur, x)
  BY ListFacts DEF SubtractsTo
<1>2. CASE ~(n <= Len(from))
  <2>1. acc \o << >> = acc
    BY <1>1
  <2>2. \A x : ~Left(from, n, cur, x)
    BY <1>2 DEF Left
  <2>3. Difference(from, without, acc)
    BY <1>1, <2>2 DEF Difference
  <2> QED
    BY <1>2, <2>1, <2>3
<1>3. CASE n <= Len(from)
  <2>1. n \in 1..Len(from) /\ m - 1 = Len(without)
    BY <1>1, <1>3
  <2>2. /\ cur \in Ranges /\ cur.end = from[n].end /\ Behind(acc, cur.start)
        /\ \A l \in 1..Len(without) : without[l].end < cur.start
    BY <1>3, <2>1 DEF SubtractsTo
  <2>3. cur.start \in Nat /\ cur.end \in Nat /\ cur.start <= cur.end
    BY <2>2, RangeFacts
  <2>4. PICK rest : rest = SubSeq(from, n + 1, Len(from))
    OBVIOUS
  <2>5. /\ rest \in Seq(Ranges) /\ Canonical(rest)
        /\ \A x \in Addr : Covers(rest, x) <=> \E k \in (n + 1)..Len(from) : Spans(from[k], x)
        /\ \A k \in 1..Len(rest) : cur.end + 1 < rest[k].start
    BY <2>1, <2>2, <2>4, SubSeqFacts
  <2>6. PICK one : one = <<cur>>
    OBVIOUS
  <2>7. /\ one \in Seq(Ranges) /\ Len(one) = 1 /\ one[1] = cur /\ Canonical(one)
        /\ \A x \in Addr : Covers(one, x) <=> Spans(cur, x)
    <3>1. one \in Seq(Ranges) /\ Len(one) = 1 /\ one[1] = cur
      BY <2>2, <2>6
    <3>2. /\ \A k \in 1..1 : k = 1
          /\ 1 \in 1..1 /\ ~(1 < 1)
      OBVIOUS
    <3> QED
      BY <2>3, <3>1, <3>2 DEF Canonical, Covers
  <2>8. PICK tail : tail = one \o rest
    OBVIOUS
  <2>9. /\ tail \in Seq(Ranges) /\ Canonical(tail)
        /\ \A x \in Addr : Covers(tail, x) <=> Spans(cur, x) \/ \E k \in (n + 1)..Len(from) : Spans(from[k], x)
        /\ \A k \in 1..Len(tail) : (\E l \in 1..Len(one) : tail[k] = one[l]) \/ \E l \in 1..Len(rest) : tail[k] = rest[l]
    <3>1. \A k \in 1..Len(one) : \A l \in 1..Len(rest) : one[k].end + 1 < rest[l].start
      BY <2>5, <2>7
    <3>2. tail \in Seq(Ranges) /\ \A x \in Addr : Covers(tail, x) <=> Covers(one, x) \/ Covers(rest, x)
      BY <2>5, <2>7, <2>8, ConcatFacts
    <3>3. Canonical(tail)
      BY <2>5, <2>7, <2>8, <3>1, ConcatFacts
    <3>4. ASSUME NEW k \in 1..Len(tail)
          PROVE  (\E l \in 1..Len(one) : tail[k] = one[l]) \/ \E l \in 1..Len(rest) : tail[k] = rest[l]
      <4>1. MadeOf(tail, one, rest)
        BY <2>5, <2>7, <2>8, ConcatFacts
      <4> QED
        BY <4>1 DEF MadeOf
    <3> QED
      BY <2>5, <2>7, <3>2, <3>3, <3>4
  <2>10. \A k \in 1..Len(tail) : tail[k].start \in Nat /\ cur.start <= tail[k].start
    <3>1. \A k \in 1..Len(tail) : tail[k].start \in Nat
      BY <2>9, ListFacts, RangeFacts
    <3>2. \A k \in 1..Len(tail) : tail[k] = cur \/ cur.end + 1 < tail[k].start
      BY <2>5, <2>7, <2>9
    <3> QED
      BY <2>3, <3>1, <3>2
  <2>11. \A k \in 1..Len(acc) : \A l \in 1..Len(tail) : acc[k].end + 1 < tail[l].start
    <3>1. \A k \in 1..Len(acc) : acc[k].end \in Nat /\ acc[k].end + 1 < cur.start
      BY <1>1, <2>2, ListFacts, RangeFacts DEF Behind
    <3>2. \A e, y \in Nat : e + 1 < cur.start /\ cur.start <= y => e + 1 < y
      BY <2>3
    <3> QED
      BY <2>10, <3>1, <3>2
  <2>12. PICK all : all = acc \o tail
    OBVIOUS
  <2>13. /\ all \in Seq(Ranges) /\ Canonical(all)
         /\ \A x \in Addr : Covers(all, x) <=> Covers(acc, x) \/ Covers(tail, x)
    BY <1>1, <2>9, <2>11, <2>12, ConcatFacts
  <2>14. ASSUME NEW x \in Addr, Covers(tail, x) PROVE ~Covers(without, x)
    <3>1. PICK k \in 1..Len(tail) : Spans(tail[k], x)
      BY <2>14 DEF Covers
    <3>2. x \in Nat /\ cur.start <= x
      BY <2>3, <2>10, <3>1 DEF Spans, Addr
    <3>3. \A l \in 1..Len(without) : without[l].end \in Nat
      BY ListFacts, RangeFacts
    <3>4. \A l \in 1..Len(without) : ~(x <= without[l].end)
      BY <2>2, <2>3, <3>2, <3>3
    <3> QED
      BY <3>4 DEF Covers, Spans
  <2>15. Difference(from, without, all)
    BY <1>1, <2>9, <2>13, <2>14 DEF Difference, Left
  <2> QED
    BY <1>3, <2>4, <2>6, <2>8, <2>12, <2>15
<1> QED
  BY <1>2, <1>3

-----------------------------------------------------------------------------
(***************************************************************************)
(* intersection.                                                           *)
(***************************************************************************)
IntersectsTo(p, q, n, m, acc) ==
  /\ acc \in Seq(Ranges) /\ n \in Nat /\ m \in Nat /\ 1 <= n /\ 1 <= m
  /\ \A x \in Addr : Covers(acc, x) => Covers(p, x) /\ Covers(q, x)
  /\ \A x \in Addr : Covers(p, x) /\ Covers(q, x) =>
       \/ Covers(acc, x)
       \/ /\ \E k \in n..Len(p) : Spans(p[k], x)
          /\ \E l \in m..Len(q) : Spans(q[l], x)

LEMMA IntersectStarts ==
  ASSUME NEW p, NEW q
  PROVE  IntersectsTo(p, q, 1, 1, << >>)
  BY EmptyList DEF IntersectsTo, Covers

LEMMA IntersectIterates ==
  ASSUME NEW p \in Seq(Ranges), Canonical(p), NEW q \in Seq(Ranges), Canonical(q),
         NEW n, NEW m, NEW acc, IntersectsTo(p, q, n, m, acc), n <= Len(p), m <= Len(q)
  PROVE  LET c == Common(p[n], q[m]) IN
         /\ p[n].end < q[m].start => IntersectsTo(p, q, n + 1, m, acc)
         /\ q[m].end < p[n].start => IntersectsTo(p, q, n, m + 1, acc)
         /\ p[n].end >= q[m].start /\ q[m].end >= p[n].start =>
              /\ c.start <= c.end
              /\ p[n].end <= q[m].end => IntersectsTo(p, q, n + 1, m, Append(acc, c))
              /\ ~(p[n].end <= q[m].end) => IntersectsTo(p, q, n, m + 1, Append(acc, c))
<1> DEFINE r1 == p[n]
           r2 == q[m]
           c == Common(r1, r2)
<1>1. /\ acc \in Seq(Ranges) /\ n \in Nat /\ m \in Nat /\ 1 <= n /\ 1 <= m
      /\ \A x \in Addr : Covers(acc, x) => Covers(p, x) /\ Covers(q, x)
  BY DEF IntersectsTo
<1>2. /\ Len(p) \in Nat /\ Len(q) \in Nat /\ n \in 1..Len(p) /\ m \in 1..Len(q)
      /\ n + 1 \in Nat /\ m + 1 \in Nat /\ 1 <= n + 1 /\ 1 <= m + 1
      /\ r1 \in Ranges /\ r2 \in Ranges
  BY <1>1, ListFacts
<1>3. /\ r1.start \in Nat /\ r1.end \in Nat /\ r1.start <= r1.end
      /\ r2.start \in Nat /\ r2.end \in Nat /\ r2.start <= r2.end
      /\ r1.start \in Addr /\ r1.end \in Addr /\ r2.start \in Addr /\ r2.end \in Addr
  BY <1>2, RangeFacts
<1>4. \A x \in Addr : x \in Nat
  BY DEF Addr
<1>5. ASSUME NEW x \in Addr, Covers(p, x), Covers(q, x), ~Covers(acc, x)
      PROVE  /\ Spans(r1, x) \/ ((\E k \in (n + 1)..Len(p) : Spans(p[k], x)) /\ r1.end < x)
             /\ Spans(r2, x) \/ ((\E l \in (m + 1)..Len(q) : Spans(q[l], x)) /\ r2.end < x)
  <2>1. PICK k \in n..Len(p) : Spans(p[k], x)
    BY <1>5 DEF IntersectsTo
  <2>2. PICK l \in m..Len(q) : Spans(q[l], x)
    BY <1>5 DEF IntersectsTo
  <2>3. k \in 1..Len(p) /\ l \in 1..Len(q) /\ x \in Nat
    BY <1>1, <1>2, <1>4
  <2>4. (k = n \/ (k \in (n + 1)..Len(p) /\ n < k)) /\ (l = m \/ (l \in (m + 1)..Len(q) /\ m < l))
    BY <1>1, <1>2
  <2>5. n < k => r1.end + 1 < p[k].start
    BY <1>2, <2>3 DEF Canonical
  <2>6. m < l => r2.end + 1 < q[l].start
    BY <1>2, <2>3 DEF Canonical
  <2>7. p[k].start \in Nat /\ q[l].start \in Nat /\ p[k].start <= x /\ q[l].start <= x
    BY <2>1, <2>2, <2>3, ListFacts, RangeFacts DEF Spans
  <2>8. (n < k => r1.end < x) /\ (m < l => r2.end < x)
    BY <1>3, <2>3, <2>5, <2>6, <2>7, SMTT(30)
  <2> QED
    BY <2>1, <2>2, <2>4, <2>8
<1>6. \A k \in (n + 1)..Len(p) : k \in n..Len(p)
  BY <1>1, <1>2
<1>7. \A l \in (m + 1)..Len(q) : l \in m..Len(q)
  BY <1>1, <1>2
<1>8. n \in n..Len(p) /\ m \in m..Len(q)
  BY <1>1, <1>2
\* What remains of the two lists.
<1>9. ASSUME NEW new \in Seq(Ranges),
             \A x \in Addr : Covers(acc, x) => Covers(new, x),
             \A x \in Addr : Covers(new, x) => Covers(p, x) /\ Covers(q, x)
      PROVE  /\ (\A x \in Addr : Spans(r1, x) => Covers(new, x) \/ ~(Spans(r2, x) \/ r2.end < x))
                  => IntersectsTo(p, q, n + 1, m, new)
             /\ (\A x \in Addr : Spans(r2, x) => Covers(new, x) \/ ~(Spans(r1, x) \/ r1.end < x))
                  => IntersectsTo(p, q, n, m + 1, new)
  <2>1. ASSUME \A x \in Addr : Spans(r1, x) => Covers(new, x) \/ ~(Spans(r2, x) \/ r2.end < x)
        PROVE  IntersectsTo(p, q, n + 1, m, new)
    <3>1. ASSUME NEW x \in Addr, Covers(p, x), Covers(q, x), ~Covers(new, x)
          PROVE  /\ \E k \in (n + 1)..Len(p) : Spans(p[k], x)
                 /\ \E l \in m..Len(q) : Spans(q[l], x)
      BY <1>5, <1>7, <1>8, <1>9, <2>1, <3>1
    <3> QED
      BY <1>1, <1>2, <1>9, <3>1 DEF IntersectsTo
  <2>2. ASSUME \A x \in Addr : Spans(r2, x) => Covers(new, x) \/ ~(Spans(r1, x) \/ r1.end < x)
        PROVE  IntersectsTo(p, q, n, m + 1, new)
    <3>1. ASSUME NEW x \in Addr, Covers(p, x), Covers(q, x), ~Covers(new, x)
          PROVE  /\ \E k \in n..Len(p) : Spans(p[k], x)
                 /\ \E l \in (m + 1)..Len(q) : Spans(q[l], x)
      BY <1>5, <1>6, <1>8, <1>9, <2>2, <3>1
    <3> QED
      BY <1>1, <1>2, <1>9, <3>1 DEF IntersectsTo
  <2> QED
    BY <2>1, <2>2
<1>10. ASSUME r1.end < r2.start PROVE IntersectsTo(p, q, n + 1, m, acc)
  <2>1. \A x \in Nat : x <= r1.end => ~(r2.start <= x) /\ ~(r2.end < x)
    BY <1>3, <1>10
  <2>2. \A x \in Addr : Spans(r1, x) => ~(Spans(r2, x) \/ r2.end < x)
    BY <1>4, <2>1 DEF Spans
  <2> QED
    BY <1>1, <1>9, <2>2
<1>11. ASSUME r2.end < r1.start PROVE IntersectsTo(p, q, n, m + 1, acc)
  <2>1. \A x \in Nat : x <= r2.end => ~(r1.start <= x) /\ ~(r1.end < x)
    BY <1>3, <1>11
  <2>2. \A x \in Addr : Spans(r2, x) => ~(Spans(r1, x) \/ r1.end < x)
    BY <1>4, <2>1 DEF Spans
  <2> QED
    BY <1>1, <1>9, <2>2
<1>12. ASSUME r1.end >= r2.start, r2.end >= r1.start
       PROVE  /\ c.start <= c.end
              /\ r1.end <= r2.end => IntersectsTo(p, q, n + 1, m, Append(acc, c))
              /\ ~(r1.end <= r2.end) => IntersectsTo(p, q, n, m + 1, Append(acc, c))
  <2>1. PICK a \in Addr : a = IF r2.start > r1.start THEN r2.start ELSE r1.start
    BY <1>3
  <2>2. PICK b \in Addr : b = IF r2.end < r1.end THEN r2.end ELSE r1.end
    BY <1>3
  <2>3. a \in Nat /\ b \in Nat /\ a <= b
    BY <1>3, <1>4, <1>12, <2>1, <2>2
  <2>4. c = [start |-> a, end |-> b]
    BY <2>1, <2>2 DEF Common
  <2>5. c \in Ranges /\ c.start <= c.end /\ \A x \in Addr : Spans(c, x) <=> a <= x /\ x <= b
    BY <2>3, <2>4, NewRange
  <2>6. \A x \in Addr : Spans(c, x) <=> Spans(r1, x) /\ Spans(r2, x)
    <3>1. \A x \in Nat : (a <= x /\ x <= b) <=> (r1.start <= x /\ x <= r1.end /\ r2.start <= x /\ x <= r2.end)
      BY <1>3, <2>1, <2>2, <2>3, SMTT(30)
    <3> QED
      BY <1>4, <2>5, <3>1 DEF Spans
  <2>7. PICK new : new = Append(acc, c)
    OBVIOUS
  <2>8. new \in Seq(Ranges) /\ \A x \in Addr : Covers(new, x) <=> Covers(acc, x) \/ Spans(c, x)
    BY <1>1, <2>5, <2>7, AppendFacts
  <2>9. \A x \in Addr : Spans(c, x) => Covers(p, x) /\ Covers(q, x)
    BY <1>2, <2>6 DEF Covers
  <2>10. r1.end <= r2.end => \A x \in Addr : Spans(r1, x) => ~(r2.end < x)
    <3>1. r1.end <= r2.end => \A x \in Nat : x <= r1.end => ~(r2.end < x)
      BY <1>3
    <3> QED
      BY <1>4, <3>1 DEF Spans
  <2>11. ~(r1.end <= r2.end) => \A x \in Addr : Spans(r2, x) => ~(r1.end < x)
    <3>1. ~(r1.end <= r2.end) => \A x \in Nat : x <= r2.end => ~(r1.end < x)
      BY <1>3
    <3> QED
      BY <1>4, <3>1 DEF Spans
  <2> HIDE DEF c, r1, r2
  <2>12. /\ r1.end <= r2.end => IntersectsTo(p, q, n + 1, m, new)
         /\ ~(r1.end <= r2.end) => IntersectsTo(p, q, n, m + 1, new)
    BY <1>1, <1>9, <2>6, <2>8, <2>9, <2>10, <2>11
  <2> QED
    BY <2>5, <2>7, <2>12
<1> QED
  BY <1>10, <1>11, <1>12

LEMMA IntersectEnds ==
  ASSUME NEW p \in Seq(Ranges), NEW q \in Seq(Ranges),
         NEW n, NEW m, NEW acc, IntersectsTo(p, q, n, m, acc), n > Len(p) \/ m > Len(q)
  PROVE  \A x \in Addr : Covers(acc, x) <=> Covers(p, x) /\ Covers(q, x)
<1>1. Len(p) \in Nat /\ Len(q) \in Nat /\ n \in Nat /\ m \in Nat
  BY ListFacts DEF IntersectsTo
<1>2. n..Len(p) = {} \/ m..Len(q) = {}
  BY <1>1
<1> QED
  BY <1>2 DEF IntersectsTo

-----------------------------------------------------------------------------
(***************************************************************************)
(* The inductive invariant of ParseIPPoolAddresses and the overlap check:  *)
(* every loop does what the lemmas above say, from the result of the one   *)
(* before it.                                                              *)
(***************************************************************************)
InputInv ==
  /\ addresses \in Seq(Entry) /\ avoidBuggyIPs \in BOOLEAN
  /\ existing \in Seq(Ranges) /\ Canonical(existing)
  /\ pc \in PC /\ i \in Nat \ {0}
  /\ included \in Seq(Ranges) /\ excluded \in Seq(Ranges)

LoopInv ==
  /\ pc = "mergeIncluded" => MergesTo(included, rs, i, current, out)
  /\ pc = "mergeExcluded" => MergesTo(excluded, rs, i, current, out)
  /\ pc = "subtract" => SubtractsTo(base, subs, i, j, current, out)
  /\ pc = "intersect" => IntersectsTo(pool, existing, i, j, out)

ResultInv ==
  /\ pc \notin {"parse", "mergeIncluded"} => MergeOf(included, base)
  /\ pc \in {"subtract", "intersect", "done"} => MergeOf(excluded, subs)
  /\ pc \in {"intersect", "done"} => Difference(base, subs, pool)
  /\ pc = "done" => \A x \in Addr : Covers(overlap, x) <=> Covers(pool, x) /\ Covers(existing, x)

PoolInv == InputInv /\ LoopInv /\ ResultInv

LEMMA CanonicalRanges ==
  ASSUME NEW list \in Seq(IPRanges), Canonical(list)
  PROVE  list \in Seq(Ranges)
<1>1. Len(list) \in Nat /\ \A k \in 1..Len(list) : list[k] \in IPRanges /\ list[k].start <= list[k].end
  BY DEF Canonical
<1>2. \A k \in 1..Len(list) : list[k] \in Ranges
  BY <1>1 DEF Ranges
<1>3. list \in [1..Len(list) -> Ranges]
  BY <1>2
<1> QED
  BY <1>1, <1>3

LEMMA PoolInit == Init => PoolInv
<1> SUFFICES ASSUME Init PROVE PoolInv
  OBVIOUS
<1>1. existing \in Seq(IPRanges) /\ Canonical(existing)
  BY RangeAssumption DEF Init
<1>2. InputInv
  BY <1>1, CanonicalRanges, EntryAssumption, EmptyList DEF InputInv, Init, PC
<1> QED
  BY <1>2 DEF PoolInv, LoopInv, ResultInv, Init

LEMMA ParseKeeps == ASSUME PoolInv, Parse PROVE PoolInv'
<1>1. /\ pc = "parse" /\ i <= Len(addresses) /\ i' = i + 1
      /\ UNCHANGED <<addresses, avoidBuggyIPs, existing, pc, j, current, out, rs, base, subs, pool, overlap>>
  BY DEF Parse, inputs
<1>2. InputInv
  BY DEF PoolInv
<1>3. PICK e \in Entry : e = addresses[i]
  <2>1. i \in 1..Len(addresses)
    BY <1>1, <1>2 DEF InputInv
  <2> QED
    BY <1>2, <2>1 DEF InputInv
<1>4. Accepts(e) => ParseIPRange(e, avoidBuggyIPs) \in Ranges
  BY <1>2, <1>3, ParsedRange DEF Accepts, InputInv
<1>5. included' \in Seq(Ranges) /\ excluded' \in Seq(Ranges)
  <2>1. /\ included' = included \/ (Accepts(e) /\ included' = Append(included, ParseIPRange(e, avoidBuggyIPs)))
        /\ excluded' = excluded \/ (Accepts(e) /\ excluded' = Append(excluded, ParseIPRange(e, avoidBuggyIPs)))
    BY <1>3 DEF Parse
  <2> QED
    BY <1>2, <1>4, <2>1, AppendFacts DEF InputInv
<1>6. InputInv'
  BY <1>1, <1>2, <1>5 DEF InputInv
<1> QED
  BY <1>1, <1>6 DEF PoolInv, LoopInv, ResultInv

\* The loops are about to merge a list.
LEMMA StartMerges ==
  ASSUME NEW list \in Seq(Ranges), StartMerge(list)
  PROVE  MergesTo(list, rs', i', current', out') /\ i' = 2
<1>1. PICK s \in Sortings(list) : rs' = s /\ current' = First(s) /\ i' = 2 /\ out' = << >>
  BY DEF StartMerge
<1>2. MergesTo(list, s, 2, First(s), << >>)
  BY MergeStarts
<1> QED
  BY <1>1, <1>2

LEMMA MergeKeeps == ASSUME PoolInv, MergeExtend \/ MergeEmit PROVE PoolInv'
<1>1. /\ pc \in {"mergeIncluded", "mergeExcluded"} /\ i <= Len(rs) /\ i' = i + 1
      /\ UNCHANGED <<addresses, avoidBuggyIPs, existing, pc, j, included, excluded, rs, base, subs, pool, overlap>>
  BY DEF MergeExtend, MergeEmit, Merging, inputs, parsed
<1>2. PICK source : /\ pc = "mergeIncluded" => source = included
                    /\ pc = "mergeExcluded" => source = excluded
  BY <1>1
<1>3. MergesTo(source, rs, i, current, out)
  BY <1>1, <1>2 DEF PoolInv, LoopInv
<1>4. MergesTo(source, rs, i + 1, current', out')
  <2>1. PICK next : next = rs[i]
    OBVIOUS
  <2>2. PICK wide : wide = [current EXCEPT !.end = IF current.end < next.end THEN next.end ELSE current.end]
    OBVIOUS
  <2>3. CASE MergeExtend
    <3>1. next.start <= current.end \/ next.start = NextAddr(current.end)
      BY <2>1, <2>3 DEF MergeExtend, Touches
    <3>2. current' = wide /\ out' = out
      BY <2>1, <2>2, <2>3 DEF MergeExtend
    <3>3. MergesTo(source, rs, i + 1, wide, out)
      BY <1>1, <1>3, <2>1, <2>2, <3>1, MergeIterates
    <3> QED
      BY <3>2, <3>3
  <2>4. CASE MergeEmit
    <3>1. ~(next.start <= current.end \/ next.start = NextAddr(current.end))
      BY <2>1, <2>4 DEF MergeEmit, Touches
    <3>2. current' = next /\ out' = Append(out, current)
      BY <2>1, <2>4 DEF MergeEmit
    <3>3. MergesTo(source, rs, i + 1, next, Append(out, current))
      BY <1>1, <1>3, <2>1, <3>1, MergeIterates
    <3> QED
      BY <3>2, <3>3
  <2> QED
    BY <2>3, <2>4
<1>5. InputInv'
  BY <1>1 DEF InputInv, PoolInv
<1>6. LoopInv'
  BY <1>1, <1>2, <1>4 DEF LoopInv
<1>7. ResultInv'
  BY <1>1 DEF ResultInv, PoolInv
<1> QED
  BY <1>5, <1>6, <1>7 DEF PoolInv

LEMMA MergeIncludedKeeps == ASSUME PoolInv, MergeIncluded PROVE PoolInv'
<1>1. /\ StartMerge(included) /\ pc' = "mergeIncluded"
      /\ UNCHANGED <<addresses, avoidBuggyIPs, existing, included, excluded>>
  BY DEF MergeIncluded, inputs, parsed
<1>2. included \in Seq(Ranges)
  BY DEF PoolInv, InputInv
<1>3. MergesTo(included, rs', i', current', out') /\ i' = 2
  BY <1>1, <1>2, StartMerges
<1>4. InputInv'
  BY <1>1, <1>3 DEF InputInv, PoolInv, PC
<1> QED
  BY <1>1, <1>3, <1>4 DEF PoolInv, LoopInv, ResultInv

LEMMA MergedFacts ==
  ASSUME NEW source, MergesTo(source, rs, i, current, out), i > Len(rs)
  PROVE  MergeOf(source, Merged)
  BY MergeEnds DEF Merged

LEMMA MergeExcludedKeeps == ASSUME PoolInv, MergeExcluded PROVE PoolInv'
<1>1. /\ pc = "mergeIncluded" /\ i > Len(rs) /\ base' = Merged
      /\ StartMerge(excluded) /\ pc' = "mergeExcluded"
      /\ UNCHANGED <<addresses, avoidBuggyIPs, existing, included, excluded>>
  BY DEF MergeExcluded, inputs, parsed
<1>2. excluded \in Seq(Ranges)
  BY DEF PoolInv, InputInv
<1>3. MergesTo(excluded, rs', i', current', out') /\ i' = 2
  BY <1>1, <1>2, StartMerges
<1>4. MergeOf(included, base')
  BY <1>1, MergedFacts DEF PoolInv, LoopInv
<1>5. InputInv'
  BY <1>1, <1>3 DEF InputInv, PoolInv, PC
<1> QED
  BY <1>1, <1>3, <1>4, <1>5 DEF PoolInv, LoopInv, ResultInv

LEMMA StartSubtractKeeps == ASSUME PoolInv, StartSubtract PROVE PoolInv'
<1>1. /\ pc = "mergeExcluded" /\ i > Len(rs) /\ subs' = Merged
      /\ pc' = "subtract" /\ i' = 1 /\ j' = 1 /\ current' = First(base) /\ out' = << >>
      /\ UNCHANGED <<addresses, avoidBuggyIPs, existing, included, excluded, base>>
  BY DEF StartSubtract, inputs, parsed
<1>2. MergeOf(included, base) /\ MergeOf(excluded, subs')
  BY <1>1, MergedFacts DEF PoolInv, LoopInv, ResultInv
<1>3. SubtractsTo(base, subs', 1, 1, First(base), << >>)
  BY <1>2, SubtractStarts DEF MergeOf
<1>4. InputInv'
  BY <1>1 DEF InputInv, PoolInv, PC
<1> QED
  BY <1>1, <1>2, <1>3, <1>4 DEF PoolInv, LoopInv, ResultInv

LEMMA SubtractKeeps == ASSUME PoolInv, Subtract PROVE PoolInv'
<1>1. /\ pc = "subtract" /\ i <= Len(base) /\ j <= Len(subs)
      /\ UNCHANGED <<addresses, avoidBuggyIPs, existing, pc, included, excluded, rs, base, subs, pool, overlap>>
  BY DEF Subtract, inputs, parsed
<1>2. /\ base \in Seq(Ranges) /\ Canonical(base) /\ subs \in Seq(Ranges) /\ Canonical(subs)
      /\ SubtractsTo(base, subs, i, j, current, out)
  BY <1>1 DEF PoolInv, LoopInv, ResultInv, MergeOf
<1>3. PICK sub : sub = subs[j]
  OBVIOUS
<1>4. PICK new : new = out \o KeptOf(current, sub)
  OBVIOUS
<1>5. PICK after : after = IF sub.end <= current.end THEN j + 1 ELSE j
  OBVIOUS
<1>6. out' = new /\ j' = after
  BY <1>3, <1>4, <1>5 DEF Subtract, Kept, KeptOf
<1>7. SubtractsTo(base, subs, i', j', current', out')
  <2>1. CASE current.end <= sub.end /\ i' = i + 1
    <3>1. current' = IF i + 1 <= Len(base) THEN base[i + 1] ELSE current
      BY <1>1, <1>2, <1>3, <2>1 DEF Subtract, SubtractsTo
    <3>2. SubtractsTo(base, subs, i + 1, after, IF i + 1 <= Len(base) THEN base[i + 1] ELSE current, new)
      BY <1>1, <1>2, <1>3, <1>4, <1>5, <2>1, SubtractIterates
    <3> QED
      BY <1>6, <2>1, <3>1, <3>2
  <2>2. CASE current.end > sub.end /\ i' = i /\ current' = [current EXCEPT !.start = NextAddr(sub.end)]
    <3>1. SubtractsTo(base, subs, i, after, [current EXCEPT !.start = NextAddr(sub.end)], new)
      BY <1>1, <1>2, <1>3, <1>4, <1>5, <2>2, SubtractIterates
    <3> QED
      BY <1>6, <2>2, <3>1
  <2> QED
    BY <1>3, <2>1, <2>2 DEF Subtract
<1>8. i' \in Nat \ {0}
  <2>1. i' \in 1..(Len(base) + 1) /\ Len(base) \in Nat
    BY <1>2, <1>7, ListFacts DEF SubtractsTo
  <2> QED
    BY <2>1
<1>9. InputInv'
  BY <1>1, <1>8 DEF InputInv, PoolInv
<1> QED
  BY <1>1, <1>7, <1>9 DEF PoolInv, LoopInv, ResultInv

LEMMA FinishSubtractKeeps == ASSUME PoolInv, FinishSubtract PROVE PoolInv'
<1>1. /\ pc = "subtract" /\ (i > Len(base) \/ j > Len(subs)) /\ pool' = out \o Remaining
      /\ pc' = "intersect" /\ i' = 1 /\ j' = 1 /\ out' = << >>
      /\ UNCHANGED <<addresses, avoidBuggyIPs, existing, included, excluded, base, subs>>
  BY DEF FinishSubtract, inputs, parsed
<1>2. /\ MergeOf(included, base) /\ MergeOf(excluded, subs)
      /\ SubtractsTo(base, subs, i, j, current, out)
  BY <1>1 DEF PoolInv, LoopInv, ResultInv
<1>3. Difference(base, subs, pool')
  BY <1>1, <1>2, SubtractEnds DEF MergeOf, Remaining
<1>4. IntersectsTo(pool', existing, 1, 1, << >>)
  BY IntersectStarts
<1>5. InputInv'
  BY <1>1 DEF InputInv, PoolInv, PC
<1> QED
  BY <1>1, <1>2, <1>3, <1>4, <1>5 DEF PoolInv, LoopInv, ResultInv

LEMMA IntersectKeeps == ASSUME PoolInv, Intersect PROVE PoolInv'
<1>1. /\ pc = "intersect" /\ i <= Len(pool) /\ j <= Len(existing)
      /\ UNCHANGED <<addresses, avoidBuggyIPs, existing, pc, included, excluded, rs, base, subs, pool, overlap>>
  BY DEF Intersect, inputs, parsed
<1>2. /\ pool \in Seq(Ranges) /\ Canonical(pool) /\ existing \in Seq(Ranges) /\ Canonical(existing)
      /\ IntersectsTo(pool, existing, i, j, out)
  BY <1>1 DEF PoolInv, InputInv, LoopInv, ResultInv, Difference
<1>3. PICK r1 : r1 = pool[i]
  OBVIOUS
<1>4. PICK r2 : r2 = existing[j]
  OBVIOUS
<1>5. PICK c : c = Common(r1, r2)
  OBVIOUS
<1>6. IntersectsTo(pool, existing, i', j', out')
  <2>1. CASE r1.end < r2.start /\ i' = i + 1 /\ j' = j /\ out' = out
    BY <1>1, <1>2, <1>3, <1>4, <2>1, IntersectIterates
  <2>2. CASE r2.end < r1.start /\ i' = i /\ j' = j + 1 /\ out' = out
    BY <1>1, <1>2, <1>3, <1>4, <2>2, IntersectIterates
  <2>3. CASE /\ r1.end >= r2.start /\ r2.end >= r1.start
             /\ out' = IF c.start <= c.end THEN Append(out, c) ELSE out
             /\ IF r1.end <= r2.end THEN i' = i + 1 /\ j' = j ELSE j' = j + 1 /\ i' = i
    <3>1. /\ c.start <= c.end
          /\ r1.end <= r2.end => IntersectsTo(pool, existing, i + 1, j, Append(out, c))
          /\ ~(r1.end <= r2.end) => IntersectsTo(pool, existing, i, j + 1, Append(out, c))
      BY <1>1, <1>2, <1>3, <1>4, <1>5, <2>3, IntersectIterates
    <3> QED
      BY <2>3, <3>1
  <2> QED
    BY <1>3, <1>4, <1>5, <2>1, <2>2, <2>3 DEF Intersect
<1>7. i' \in Nat \ {0}
  BY <1>6 DEF IntersectsTo
<1>8. InputInv'
  BY <1>1, <1>7 DEF InputInv, PoolInv
<1> QED
  BY <1>1, <1>6, <1>8 DEF PoolInv, LoopInv, ResultInv

LEMMA FinishIntersectKeeps == ASSUME PoolInv, FinishIntersect PROVE PoolInv'
<1>1. /\ pc = "intersect" /\ (i > Len(pool) \/ j > Len(existing)) /\ overlap' = out /\ pc' = "done"
      /\ UNCHANGED <<addresses, avoidBuggyIPs, existing, i, included, excluded, base, subs, pool>>
  BY DEF FinishIntersect, inputs, parsed
<1>2. /\ MergeOf(included, base) /\ MergeOf(excluded, subs) /\ Difference(base, subs, pool)
      /\ IntersectsTo(pool, existing, i, j, out) /\ existing \in Seq(Ranges)
  BY <1>1 DEF PoolInv, InputInv, LoopInv, ResultInv
<1>3. \A x \in Addr : Covers(out, x) <=> Covers(pool, x) /\ Covers(existing, x)
  BY <1>1, <1>2, IntersectEnds DEF Difference
<1>4. InputInv'
  BY <1>1 DEF InputInv, PoolInv, PC
<1> QED
  BY <1>1, <1>2, <1>3, <1>4 DEF PoolInv, LoopInv, ResultInv

LEMMA PoolStep == PoolInv /\ [Next]_vars => PoolInv'
<1> SUFFICES ASSUME PoolInv, [Next]_vars PROVE PoolInv'
  OBVIOUS
<1>1. CASE UNCHANGED vars
  BY <1>1 DEF vars, inputs, loop, parsed, PoolInv, InputInv, LoopInv, ResultInv
<1> QED
  BY <1>1, ParseKeeps, MergeKeeps, MergeIncludedKeeps, MergeExcludedKeeps, StartSubtractKeeps,
     SubtractKeeps, FinishSubtractKeeps, IntersectKeeps, FinishIntersectKeeps DEF Next

-----------------------------------------------------------------------------
(***************************************************************************)
(* The iteration over a range.  The k-th address, from offset d.           *)
(***************************************************************************)
Turn(b, s, d, k) == IF d + k - 1 < s THEN b + d + k - 1 ELSE b + d + k - 1 - s

\* Every address of the range has its turn, once.
EachOnce(b, s, d) ==
  /\ \A k \in 1..s : b <= Turn(b, s, d, k) /\ Turn(b, s, d, k) < b + s
  /\ \A k, l \in 1..s : Turn(b, s, d, k) = Turn(b, s, d, l) => l = k
  /\ \A x \in Nat : b <= x /\ x < b + s => \E k \in 1..s : Turn(b, s, d, k) = x

LEMMA Rotation ==
  ASSUME NEW b \in Nat, NEW s \in Nat, NEW d \in Nat, d < s
  PROVE  EachOnce(b, s, d)
<1>1. \A k \in 1..s : b <= Turn(b, s, d, k) /\ Turn(b, s, d, k) < b + s
  BY DEF Turn
<1>2. \A k, l \in 1..s : Turn(b, s, d, k) = Turn(b, s, d, l) => l = k
  BY DEF Turn
<1>3. ASSUME NEW x \in Nat, b <= x, x < b + s PROVE \E k \in 1..s : Turn(b, s, d, k) = x
  <2>1. CASE x >= b + d
    <3>1. x - b - d + 1 \in 1..s /\ Turn(b, s, d, x - b - d + 1) = x
      BY <1>3, <2>1 DEF Turn
    <3> QED
      BY <3>1
  <2>2. CASE x < b + d
    <3>1. x - b - d + 1 + s \in 1..s /\ Turn(b, s, d, x - b - d + 1 + s) = x
      BY <1>3, <2>2 DEF Turn
    <3> QED
      BY <3>1
  <2> QED
    BY <2>1, <2>2
<1> QED
  BY <1>1, <1>2, <1>3 DEF EachOnce

\* The addresses of the list, in the order of the iteration from an address.
Rotated(range, from, list) ==
  /\ range \in Ranges /\ from \in range.start..range.end
  /\ list \in Seq(Addr) /\ Len(list) <= Count(range)
  /\ \A k \in 1..Len(list) : list[k] = Turn(range.start, Count(range), from - range.start, k)

Complete(range, list) == Len(list) = Count(range)

\* The loop has come to address y after n others: before the end z, or behind it.
At(b, z, f, y, e, n) ==
  \/ e = z /\ f <= y /\ y <= z /\ n = y - f
  \/ f # b /\ e = f - 1 /\ b <= y /\ y < f /\ n = (z - f + 1) + (y - b)

Iterates(range, from, a, e, list) ==
  /\ Rotated(range, from, list)
  /\ a \in Addr /\ e \in Nat
  /\ At(range.start, range.end, from, a, e, Len(list))

LEMMA IterStarts ==
  ASSUME NEW range \in Ranges, NEW hash \in Nat,
         NEW from, from = range.start + Offset(range, hash)
  PROVE  Iterates(range, from, from, range.end, << >>)
<1>1. range.start \in Nat /\ range.end \in Nat /\ range.start <= range.end /\ range.end <= MaxAddr /\ MaxAddr \in Nat
  BY RangeFacts
<1>2. PICK s \in Nat \ {0} : s = Count(range) /\ s = range.end - range.start + 1
  BY <1>1 DEF Count
<1>3. hash % s \in 0..(s - 1)
  OBVIOUS
<1>4. Offset(range, hash) \in 0..(s - 1)
  BY <1>2, <1>3 DEF Offset
<1>5. from \in range.start..range.end /\ from \in Addr /\ from - from = 0
  BY <1>1, <1>2, <1>4 DEF Addr
<1>6. << >> \in Seq(Addr) /\ Len(<< >>) = 0 /\ 0 <= Count(range)
  BY <1>2
<1>7. Rotated(range, from, << >>)
  BY <1>5, <1>6 DEF Rotated
<1>8. At(range.start, range.end, from, from, range.end, 0)
  BY <1>1, <1>5 DEF At
<1> QED
  BY <1>1, <1>5, <1>6, <1>7, <1>8 DEF Iterates

\* The numbers of a loop, and what a turn of it does to them.
LEMMA IterNumbers ==
  ASSUME NEW range, NEW from, NEW a, NEW e, NEW list, Iterates(range, from, a, e, list)
  PROVE  /\ range.start \in Nat /\ range.end \in Nat /\ from \in Nat /\ a \in Nat /\ e \in Nat
         /\ Len(list) \in Nat /\ MaxAddr \in Nat /\ range.end <= MaxAddr
         /\ range.start <= from /\ from <= range.end
<1>1. range \in Ranges /\ from \in range.start..range.end /\ a \in Addr /\ list \in Seq(Addr) /\ e \in Nat
  BY DEF Iterates, Rotated
<1>2. /\ range.start \in Nat /\ range.end \in Nat /\ range.end <= MaxAddr /\ MaxAddr \in Nat
  BY <1>1, RangeFacts
<1> QED
  BY <1>1, <1>2 DEF Addr

\* What a turn of the loop does at a position.
TurnOf(b, z, f, y, e, n, last) ==
  /\ n + 1 <= z - b + 1 /\ y = Turn(b, z - b + 1, f - b, n + 1)
  /\ y # e => y < last /\ At(b, z, f, y + 1, e, n + 1)
  /\ y = e /\ (f = b \/ e # z) => n + 1 = z - b + 1
  /\ y = e /\ f # b /\ e = z => At(b, z, f, b, f - 1, n + 1) /\ f - 1 \in Nat

LEMMA TurnNumbers ==
  ASSUME NEW b \in Nat, NEW z \in Nat, NEW f \in Nat, NEW y \in Nat, NEW e \in Nat, NEW n \in Nat,
         NEW last \in Nat, b <= f, f <= z, z <= last, At(b, z, f, y, e, n)
  PROVE  TurnOf(b, z, f, y, e, n, last)
<1>1. CASE e = z /\ f <= y /\ y <= z /\ n = y - f
  BY <1>1 DEF At, Turn, TurnOf
<1>2. CASE f # b /\ e = f - 1 /\ b <= y /\ y < f /\ n = (z - f + 1) + (y - b)
  BY <1>2 DEF At, Turn, TurnOf
<1> QED
  BY <1>1, <1>2 DEF At

\* The consumer takes an address.
LEMMA IterTakes ==
  ASSUME NEW range, NEW from, NEW a, NEW e, NEW list, Iterates(range, from, a, e, list)
  PROVE  Rotated(range, from, Append(list, a)) /\ Len(Append(list, a)) = Len(list) + 1
<1>1. a \in Addr /\ list \in Seq(Addr) /\ Rotated(range, from, list)
  BY DEF Iterates, Rotated
<1>2. PICK new : new = Append(list, a)
  OBVIOUS
<1>3. PICK n \in Nat : n = Len(list)
  BY <1>1
<1>4. /\ new \in Seq(Addr) /\ Len(new) = n + 1 /\ new[n + 1] = a
      /\ \A k \in 1..n : new[k] = list[k]
  BY <1>1, <1>2, <1>3
<1>5. TurnOf(range.start, range.end, from, a, e, n, MaxAddr)
  BY <1>3, IterNumbers, TurnNumbers DEF Iterates
<1>6. a = Turn(range.start, Count(range), from - range.start, n + 1) /\ n + 1 <= Count(range)
  BY <1>5 DEF TurnOf, Count
<1>7. \A k \in 1..(n + 1) : k \in 1..n \/ k = n + 1
  OBVIOUS
<1>8. \A k \in 1..Len(new) : new[k] = Turn(range.start, Count(range), from - range.start, k)
  BY <1>1, <1>3, <1>4, <1>6, <1>7 DEF Rotated
<1>9. Rotated(range, from, new)
  BY <1>1, <1>4, <1>6, <1>8 DEF Rotated
<1> QED
  BY <1>2, <1>3, <1>4, <1>9

\* A turn of the loop: the next address, the end, or around it.
LEMMA IterAdvances ==
  ASSUME NEW range, NEW from, NEW a, NEW e, NEW list, Iterates(range, from, a, e, list)
  PROVE  /\ a # e => Iterates(range, from, NextAddr(a), e, Append(list, a))
         /\ a = e /\ (from = range.start \/ e # range.end) => Complete(range, Append(list, a))
         /\ a = e /\ from # range.start /\ e = range.end =>
              Iterates(range, from, range.start, PrevAddr(from), Append(list, a))
<1>1. PICK new : new = Append(list, a)
  OBVIOUS
<1>2. Rotated(range, from, new) /\ Len(new) = Len(list) + 1
  BY <1>1, IterTakes
<1>3. /\ range.start \in Nat /\ range.end \in Nat /\ from \in Nat /\ a \in Nat /\ e \in Nat
      /\ Len(list) \in Nat /\ MaxAddr \in Nat /\ range.end <= MaxAddr
      /\ range.start <= from /\ from <= range.end
  BY IterNumbers
<1>4. /\ a # e => a < MaxAddr /\ At(range.start, range.end, from, a + 1, e, Len(new))
      /\ a = e /\ (from = range.start \/ e # range.end) => Len(new) = range.end - range.start + 1
      /\ a = e /\ from # range.start /\ e = range.end =>
           At(range.start, range.end, from, range.start, from - 1, Len(new)) /\ from - 1 \in Nat
  <2>1. TurnOf(range.start, range.end, from, a, e, Len(list), MaxAddr)
    BY <1>3, TurnNumbers DEF Iterates
  <2> QED
    BY <1>2, <2>1 DEF TurnOf
<1>5. a < MaxAddr => NextAddr(a) = a + 1 /\ a + 1 \in Addr
  BY <1>3 DEF NextAddr, Addr
<1>6. range.start \in Addr
  BY <1>2, RangeFacts DEF Rotated
<1>7. a # e => Iterates(range, from, NextAddr(a), e, new)
  BY <1>2, <1>3, <1>4, <1>5 DEF Iterates
<1>8. a = e /\ from # range.start /\ e = range.end => Iterates(range, from, range.start, PrevAddr(from), new)
  BY <1>2, <1>3, <1>4, <1>6 DEF Iterates, PrevAddr
<1>9. a = e /\ (from = range.start \/ e # range.end) => Complete(range, new)
  BY <1>4 DEF Complete, Count
<1> QED
  BY <1>1, <1>7, <1>8, <1>9

(***************************************************************************)
(* A finished iteration has offered every address of the range once.       *)
(***************************************************************************)
OffersAll(range, list) ==
  /\ list \in Seq(Addr)
  /\ \A k \in 1..Len(list) : Spans(range, list[k])
  /\ \A x \in Addr : Spans(range, x) =>
       \E k \in 1..Len(list) : list[k] = x /\ \A l \in 1..Len(list) : list[l] = x => l = k

LEMMA IterEnds ==
  ASSUME NEW range, NEW from, NEW list, Rotated(range, from, list), Complete(range, list)
  PROVE  OffersAll(range, list)
<1>1. range \in Ranges /\ from \in range.start..range.end /\ list \in Seq(Addr)
  BY DEF Rotated
<1>2. /\ range.start \in Nat /\ range.end \in Nat /\ range.start <= range.end /\ from \in Nat
      /\ range.start <= from /\ from <= range.end
  BY <1>1, RangeFacts
<1>3. PICK s \in Nat \ {0} : s = Count(range) /\ s = range.end - range.start + 1
  BY <1>2 DEF Count
<1>4. PICK d \in Nat : d = from - range.start /\ d < s
  BY <1>2, <1>3
<1>5. PICK b \in Nat : b = range.start
  BY <1>2
<1>6. \A k \in 1..s : list[k] = Turn(b, s, d, k)
  BY <1>3, <1>4, <1>5 DEF Rotated, Complete
<1>7. /\ \A k \in 1..s : b <= list[k] /\ list[k] < b + s
      /\ \A k, l \in 1..s : list[k] = list[l] => l = k
      /\ \A x \in Nat : b <= x /\ x < b + s => \E k \in 1..s : list[k] = x
  <2>1. s \in Nat /\ d < s
    BY <1>4
  <2>2. /\ \A k \in 1..s : b <= Turn(b, s, d, k) /\ Turn(b, s, d, k) < b + s
        /\ \A k, l \in 1..s : Turn(b, s, d, k) = Turn(b, s, d, l) => l = k
        /\ \A x \in Nat : b <= x /\ x < b + s => \E k \in 1..s : Turn(b, s, d, k) = x
    <3>1. EachOnce(b, s, d)
      BY <2>1, Rotation
    <3> QED
      BY <3>1 DEF EachOnce
  <2>3. \A k \in 1..s : b <= list[k] /\ list[k] < b + s
    BY <1>6, <2>2
  <2>4. \A k, l \in 1..s : list[k] = list[l] => l = k
    BY <1>6, <2>2
  <2>5. \A x \in Nat : b <= x /\ x < b + s => \E k \in 1..s : list[k] = x
    BY <1>6, <2>2
  <2> QED
    BY <2>3, <2>4, <2>5
<1>8. \A x \in Nat : Spans(range, x) <=> b <= x /\ x < b + s
  BY <1>2, <1>3, <1>5 DEF Spans
<1>9. Len(list) = s
  BY <1>3 DEF Complete
<1>10. \A k \in 1..s : list[k] \in Addr
  BY <1>1, <1>9
<1>11. \A x \in Addr : x \in Nat
  BY DEF Addr
<1>12. \A k \in 1..s : Spans(range, list[k])
  BY <1>7, <1>8, <1>10, <1>11
<1>13. ASSUME NEW x \in Addr, Spans(range, x)
       PROVE  \E k \in 1..s : list[k] = x /\ \A l \in 1..s : list[l] = x => l = k
  <2>1. PICK k \in 1..s : list[k] = x
    BY <1>7, <1>8, <1>11, <1>13
  <2> QED
    BY <1>7, <2>1
<1> QED
  BY <1>1, <1>9, <1>12, <1>13 DEF OffersAll

-----------------------------------------------------------------------------
(***************************************************************************)
(* The search: the finished iterations have offered their ranges, the      *)
(* current one is where its position says.                                 *)
(***************************************************************************)
IterInv(range, from, a, e, list, mode) ==
  /\ Rotated(range, from, list) /\ mode \in {"running", "break", "consumer"}
  /\ mode = "running" => Iterates(range, from, a, e, list)
  /\ mode = "break" => Complete(range, list)

OfferedOf(list, lists) ==
  /\ lists \in Seq(Seq(Addr)) /\ Len(lists) <= Len(list)
  /\ \A k \in 1..Len(lists) : OffersAll(list[k], lists[k])

SearchInv ==
  /\ startHash \in Nat
  /\ ~Searching => offered = << >> /\ r = NoRange
  /\ Searching => OfferedOf(pool, offered)
  /\ r = NoRange => yielded = << >> /\ stopped = "break"
  /\ r # NoRange => /\ IterInv(r, start, addr, end, yielded, stopped)
                    /\ NextRange <= Len(pool) /\ r = pool[NextRange]

LEMMA NoneOffered ==
  ASSUME NEW list \in Seq(Ranges)
  PROVE  OfferedOf(list, << >>)
  BY ListFacts DEF OfferedOf

LEMMA OneMoreOffered ==
  ASSUME NEW list \in Seq(Ranges), NEW lists, OfferedOf(list, lists), Len(lists) + 1 <= Len(list),
         NEW one, OffersAll(list[Len(lists) + 1], one)
  PROVE  OfferedOf(list, Append(lists, one))
<1>1. PICK n \in Nat : n = Len(lists)
  BY DEF OfferedOf
<1>2. PICK new : new = Append(lists, one)
  OBVIOUS
<1>3. /\ new \in Seq(Seq(Addr)) /\ Len(new) = n + 1 /\ new[n + 1] = one
      /\ \A k \in 1..n : new[k] = lists[k]
  BY <1>1, <1>2 DEF OfferedOf, OffersAll
<1>4. \A k \in 1..(n + 1) : k \in 1..n \/ k = n + 1
  OBVIOUS
<1>5. \A k \in 1..(n + 1) : OffersAll(list[k], new[k])
  BY <1>1, <1>3, <1>4 DEF OfferedOf
<1> QED
  BY <1>1, <1>2, <1>3, <1>5 DEF OfferedOf

LEMMA PoolFacts ==
  ASSUME PoolInv, pc \in {"intersect", "done"}
  PROVE  pool \in Seq(Ranges) /\ Canonical(pool) /\ Len(pool) \in Nat
<1>1. Difference(base, subs, pool)
  BY DEF PoolInv, ResultInv
<1> QED
  BY <1>1, ListFacts DEF Difference

LEMMA SearchInitInv == SearchInit => PoolInv /\ SearchInv
<1> SUFFICES ASSUME SearchInit PROVE PoolInv /\ SearchInv
  OBVIOUS
<1>1. PoolInv
  BY PoolInit DEF SearchInit
<1>2. pc = "parse" /\ startHash = 0 /\ offered = << >> /\ r = NoRange /\ yielded = << >> /\ stopped = "break"
  BY DEF SearchInit, Init, NoIter
<1> QED
  BY <1>1, <1>2 DEF SearchInv, Searching

LEMMA ParsePoolKeeps == ASSUME PoolInv, SearchInv, ParsePool PROVE PoolInv' /\ SearchInv'
<1>1. Next /\ UNCHANGED <<r, start, addr, end, yielded, stopped, startHash, offered>>
  BY DEF ParsePool, iter
<1>2. PoolInv'
  BY <1>1, PoolStep
<1>3. pc # "done"
  BY <1>1 DEF Next, Parse, MergeIncluded, MergeExcluded, MergeExtend, MergeEmit, Merging,
     StartSubtract, Subtract, FinishSubtract, Intersect, FinishIntersect
<1>4. startHash \in Nat /\ offered = << >> /\ r = NoRange /\ yielded = << >> /\ stopped = "break"
  BY <1>3 DEF SearchInv, Searching
<1>5. Searching' => pool' \in Seq(Ranges)
  <2>1. pc' = "done" => Difference(base', subs', pool')
    BY <1>2 DEF PoolInv, ResultInv
  <2> QED
    BY <2>1 DEF Searching, Difference
<1>6. Searching' => OfferedOf(pool', offered')
  BY <1>1, <1>4, <1>5, NoneOffered
<1> QED
  BY <1>1, <1>2, <1>4, <1>6 DEF SearchInv

LEMMA PoolStays == ASSUME PoolInv, UNCHANGED vars PROVE PoolInv' /\ UNCHANGED <<pc, existing, pool>>
  BY DEF vars, inputs, loop, parsed, PoolInv, InputInv, LoopInv, ResultInv

LEMMA SearchRangeKeeps == ASSUME PoolInv, SearchInv, SearchRange PROVE PoolInv' /\ SearchInv'
<1>1. /\ Searching /\ NextRange <= Len(pool) /\ r = NoRange
      /\ startHash' \in IF offered = << >> THEN Hashes ELSE {startHash}
      /\ Iter(pool[NextRange], startHash') /\ UNCHANGED <<vars, offered>>
  BY DEF SearchRange
<1>2. PoolInv' /\ UNCHANGED <<pc, existing, pool>>
  BY <1>1, PoolStays
<1>3. pool \in Seq(Ranges) /\ OfferedOf(pool, offered) /\ startHash \in Nat
  BY <1>1, PoolFacts DEF Searching, SearchInv
<1>4. NextRange \in 1..Len(pool) /\ NextRange' = NextRange
  BY <1>1, <1>3 DEF NextRange, OfferedOf
<1>5. PICK range \in Ranges : range = pool[NextRange]
  BY <1>3, <1>4, ListFacts
<1>6. startHash' \in Nat
  BY <1>1, <1>3, HashesAssumption
<1>7. PICK hash \in Nat : hash = startHash'
  BY <1>6
<1>8. PICK from : from = range.start + Offset(range, hash)
  OBVIOUS
<1>9. /\ r' = range /\ start' = from /\ addr' = from /\ end' = range.end
      /\ yielded' = << >> /\ stopped' = "running"
  BY <1>1, <1>5, <1>7, <1>8 DEF Iter
<1>10. Iterates(range, from, from, range.end, << >>)
  BY <1>8, IterStarts
<1>11. IterInv(range, from, from, range.end, << >>, "running")
  BY <1>10 DEF IterInv, Iterates
<1>12. r' # NoRange
  BY <1>9, RangeFacts
<1>13. Searching' /\ OfferedOf(pool', offered') /\ NextRange' <= Len(pool') /\ r' = pool'[NextRange']
  BY <1>1, <1>2, <1>3, <1>4, <1>5, <1>9 DEF Searching
<1>14. IterInv(r', start', addr', end', yielded', stopped')
  BY <1>9, <1>11
<1> QED
  BY <1>2, <1>6, <1>12, <1>13, <1>14 DEF SearchInv

LEMMA RangeDoneKeeps == ASSUME PoolInv, SearchInv, RangeDone PROVE PoolInv' /\ SearchInv'
<1>1. /\ Searching /\ stopped = "break" /\ r # NoRange /\ offered' = Append(offered, yielded)
      /\ r' = NoRange /\ yielded' = << >> /\ UNCHANGED <<vars, stopped, startHash>>
  BY DEF RangeDone
<1>2. PoolInv' /\ UNCHANGED <<pc, existing, pool>>
  BY <1>1, PoolStays
<1>3. pool \in Seq(Ranges) /\ OfferedOf(pool, offered) /\ startHash \in Nat
  BY <1>1, PoolFacts DEF Searching, SearchInv
<1>4. /\ IterInv(r, start, addr, end, yielded, stopped)
      /\ Len(offered) + 1 <= Len(pool) /\ r = pool[Len(offered) + 1]
  BY <1>1 DEF SearchInv, NextRange
<1>5. Rotated(r, start, yielded) /\ Complete(r, yielded)
  BY <1>1, <1>4 DEF IterInv
<1>6. OffersAll(pool[Len(offered) + 1], yielded)
  BY <1>4, <1>5, IterEnds
<1>7. OfferedOf(pool, Append(offered, yielded))
  BY <1>3, <1>4, <1>6, OneMoreOffered
<1>8. Searching' /\ OfferedOf(pool', offered')
  BY <1>1, <1>2, <1>7 DEF Searching
<1> QED
  BY <1>1, <1>2, <1>3, <1>8 DEF SearchInv

LEMMA TryNextKeeps == ASSUME PoolInv, SearchInv, TryNext PROVE PoolInv' /\ SearchInv'
<1>1. /\ Searching /\ (Advance \/ Stop) /\ UNCHANGED <<vars, startHash, offered>>
      /\ stopped = "running" /\ yielded' = Append(yielded, addr) /\ UNCHANGED <<r, start>>
  BY DEF TryNext, Advance, Stop
<1>2. PoolInv' /\ UNCHANGED <<pc, existing, pool>>
  BY <1>1, PoolStays
<1>3. r # NoRange
  BY <1>1 DEF SearchInv
<1>4. /\ Iterates(r, start, addr, end, yielded)
      /\ NextRange <= Len(pool) /\ r = pool[NextRange] /\ OfferedOf(pool, offered) /\ startHash \in Nat
  BY <1>1, <1>3 DEF SearchInv, IterInv
<1>5. Rotated(r, start, yielded')
  BY <1>1, <1>4, IterTakes
<1>6. IterInv(r, start, addr', end', yielded', stopped')
  <2>1. CASE Stop
    BY <1>5, <2>1 DEF Stop, IterInv
  <2>2. CASE Advance
    <3>1. CASE addr # end /\ addr' = NextAddr(addr) /\ UNCHANGED <<end, stopped>>
      BY <1>1, <1>4, <1>5, <3>1, IterAdvances DEF IterInv
    <3>2. CASE addr = end /\ (start = r.start \/ end # r.end) /\ stopped' = "break" /\ UNCHANGED <<addr, end>>
      <4>1. Complete(r, Append(yielded, addr))
        BY <1>4, <3>2, IterAdvances
      <4> QED
        BY <1>1, <1>5, <3>2, <4>1 DEF IterInv
    <3>3. CASE addr = end /\ start # r.start /\ end = r.end /\ addr' = WrapAddr /\ end' = PrevAddr(start)
               /\ UNCHANGED stopped
      <4>1. Iterates(r, start, r.start, PrevAddr(start), Append(yielded, addr))
        BY <1>4, <3>3, IterAdvances
      <4>2. addr' = r.start
        BY <3>3 DEF WrapAddr
      <4> QED
        BY <1>1, <1>5, <3>3, <4>1, <4>2 DEF IterInv
    <3> QED
      BY <2>2, <3>1, <3>2, <3>3 DEF Advance
  <2> QED
    BY <1>1, <2>1, <2>2
<1>7. Searching' /\ NextRange' = NextRange
  BY <1>1, <1>2 DEF Searching, NextRange
<1> QED
  BY <1>1, <1>2, <1>3, <1>4, <1>6, <1>7 DEF SearchInv

LEMMA SearchStep == PoolInv /\ SearchInv /\ [ParsePool \/ Search]_searchVars => PoolInv' /\ SearchInv'
<1> SUFFICES ASSUME PoolInv, SearchInv, [ParsePool \/ Search]_searchVars PROVE PoolInv' /\ SearchInv'
  OBVIOUS
<1>1. CASE UNCHANGED searchVars
  <2>1. UNCHANGED vars /\ UNCHANGED <<r, start, addr, end, yielded, stopped, startHash, offered>>
    BY <1>1 DEF searchVars, iter
  <2>2. PoolInv' /\ UNCHANGED <<pc, existing, pool>>
    BY <2>1, PoolStays
  <2>3. Searching' = Searching /\ NextRange' = NextRange
    BY <2>1, <2>2 DEF Searching, NextRange
  <2> QED
    BY <2>1, <2>2, <2>3 DEF SearchInv
<1> QED
  BY <1>1, ParsePoolKeeps, SearchRangeKeeps, RangeDoneKeeps, TryNextKeeps DEF Search

-----------------------------------------------------------------------------
(***************************************************************************)
(* The loops of ParseIPPoolAddresses, intersection and IPRange.Iter, and   *)
(* the search through the ranges of a pool, keep their invariants.         *)
(***************************************************************************)
THEOREM PoolInvariant == SearchSpec => [](PoolInv /\ SearchInv)
<1>1. SearchSpec => SearchInit /\ [][ParsePool \/ Search]_searchVars
  BY PTL DEF SearchSpec
<1> QED
  BY <1>1, SearchInitInv, SearchStep, PTL

(***************************************************************************)
(* merge and NewIPRangeSet: for every list of parsed ranges, whatever      *)
(* order the unstable sort leaves, the merged list is canonical and has    *)
(* the same addresses.                                                     *)
(***************************************************************************)
THEOREM MergeExact == SearchSpec => []MergedExactly
<1>1. PoolInv => MergedExactly
  <2>1. ASSUME NEW source, NEW list, MergeOf(source, list)
        PROVE  Canonical(list) /\ \A x \in Addr : Covers(list, x) <=> Covers(source, x)
    BY <2>1 DEF MergeOf
  <2> QED
    BY <2>1 DEF PoolInv, ResultInv, MergedExactly
<1> QED
  BY <1>1, PoolInvariant, PTL

(***************************************************************************)
(* subtract: no address of an excluded range is left in the pool.          *)
(***************************************************************************)
THEOREM ExcludedOut == SearchSpec => []ExcludedRangesAreOut
<1>1. PoolInv => ExcludedRangesAreOut
  BY DEF PoolInv, ResultInv, ExcludedRangesAreOut, MergeOf, Difference
<1> QED
  BY <1>1, PoolInvariant, PTL

(***************************************************************************)
(* subtract: no address that is included and not excluded is lost.         *)
(***************************************************************************)
THEOREM NoAddressLost == SearchSpec => []NothingIsLost
<1>1. PoolInv => NothingIsLost
  BY DEF PoolInv, ResultInv, NothingIsLost, MergeOf, Difference
<1> QED
  BY <1>1, PoolInvariant, PTL

(***************************************************************************)
(* subtract leaves a canonical list: Count counts no address twice, and    *)
(* intersection may rely on the order.                                     *)
(***************************************************************************)
THEOREM PoolCanonical == SearchSpec => []PoolIsCanonical
<1>1. PoolInv => PoolIsCanonical
  BY PoolFacts DEF PoolIsCanonical
<1> QED
  BY <1>1, PoolInvariant, PTL

(***************************************************************************)
(* intersection: the webhook's overlap check finds the addresses that two  *)
(* pools have in common, and no others.                                    *)
(***************************************************************************)
THEOREM OverlapExact == SearchSpec => []OverlapFound
<1>1. PoolInv => OverlapFound
  BY DEF PoolInv, ResultInv, OverlapFound
<1> QED
  BY <1>1, PoolInvariant, PTL

(***************************************************************************)
(* IPRange.Contains agrees with the range it is asked about, unless that   *)
(* ends with the last address of the family.                               *)
(***************************************************************************)
THEOREM ContainsExact == SearchSpec => []ContainsIsExact
<1>1. PoolInv => ContainsIsExact
  <2> SUFFICES ASSUME PoolInv, pc = "done", NEW k \in 1..Len(pool), pool[k].end # MaxAddr, NEW x \in Addr
               PROVE  Contains(pool[k], x) <=> Spans(pool[k], x)
    BY DEF ContainsIsExact
  <2>1. pool[k] \in Ranges
    BY PoolFacts, ListFacts
  <2>2. pool[k].start \in Nat /\ pool[k].end \in Nat /\ x \in Nat
    BY <2>1, RangeFacts DEF Addr
  <2> QED
    BY <2>2 DEF Contains, Spans, NextAddr, PrevAddr
<1> QED
  BY <1>1, PoolInvariant, PTL

(***************************************************************************)
(* IPRange.Iter: from any offset the addresses come in the order of the    *)
(* range, around its end, and never more than the range has.               *)
(***************************************************************************)
THEOREM IterInOrder == SearchSpec => []InOrder
<1>1. SearchInv => InOrder
  <2> SUFFICES ASSUME SearchInv PROVE InOrder
    OBVIOUS
  <2>1. CASE r = NoRange
    <3>1. Len(yielded) = 0 /\ Count(r) = 1
      BY <2>1 DEF SearchInv, NoRange, NoAddr, Count
    <3> QED
      BY <3>1 DEF InOrder
  <2>2. CASE r # NoRange
    <3>1. Rotated(r, start, yielded)
      BY <2>2 DEF SearchInv, IterInv
    <3>2. /\ r.start \in Nat /\ r.end \in Nat /\ r.start <= r.end /\ start \in r.start..r.end
          /\ Len(yielded) \in Nat /\ Len(yielded) <= Count(r)
      BY <3>1, RangeFacts DEF Rotated
    <3>3. PICK s \in Nat \ {0} : s = Count(r) /\ s = r.end - r.start + 1
      BY <3>2 DEF Count
    <3>4. PICK d \in 0..(s - 1) : d = start - r.start
      BY <3>2, <3>3
    <3>5. ASSUME NEW k \in 1..Len(yielded)
          PROVE  yielded[k] = r.start + ((d + k - 1) % s)
      <4>1. k \in 1..s
        BY <3>2, <3>3
      <4>2. PICK y \in Nat : y = d + k - 1 /\ y < s + s
        BY <4>1
      <4>3. yielded[k] = Turn(r.start, s, d, k)
        BY <3>1, <3>3, <3>4 DEF Rotated
      <4>4. CASE y < s
        <5>1. y % s = y
          BY <4>4
        <5> QED
          BY <3>2, <4>2, <4>3, <4>4, <5>1, SMTT(30) DEF Turn
      <4>5. CASE ~(y < s)
        <5>1. PICK w \in 0..(s - 1) : y = s + w
          BY <4>2, <4>5
        <5>2. (s + w) % s = w
          OBVIOUS
        <5>3. yielded[k] = r.start + w
          BY <3>2, <4>2, <4>3, <4>5, <5>1, SMTT(30) DEF Turn
        <5> QED
          BY <4>2, <5>1, <5>2, <5>3
      <4> QED
        BY <4>4, <4>5
    <3> QED
      BY <3>2, <3>3, <3>4, <3>5 DEF InOrder
  <2> QED
    BY <2>1, <2>2
<1> QED
  BY <1>1, PoolInvariant, PTL

(***************************************************************************)
(* Reconcile's search: when it finds nothing free, every address of the    *)
(* pool has been tried, and none of them twice.                            *)
(***************************************************************************)
THEOREM EveryAddressOffered == SearchSpec => []OffersEveryAddress
<1>1. PoolInv /\ SearchInv => OffersEveryAddress
  <2> SUFFICES ASSUME PoolInv, SearchInv, Exhausted, NEW x \in Addr, Covers(pool, x)
               PROVE  \E k \in 1..Len(offered) : \E l \in 1..Len(offered[k]) :
                        /\ offered[k][l] = x
                        /\ \A m \in 1..Len(offered) : \A n \in 1..Len(offered[m]) :
                             offered[m][n] = x => m = k /\ n = l
    BY DEF OffersEveryAddress
  <2>1. pool \in Seq(Ranges) /\ Canonical(pool) /\ Len(pool) \in Nat /\ OfferedOf(pool, offered)
    BY PoolFacts DEF Exhausted, Searching, SearchInv
  <2>2. Len(offered) = Len(pool)
    BY <2>1 DEF Exhausted, NextRange, OfferedOf
  <2>3. \A m \in 1..Len(pool) : OffersAll(pool[m], offered[m])
    BY <2>1, <2>2 DEF OfferedOf
  <2>4. PICK k \in 1..Len(pool) : Spans(pool[k], x)
    BY DEF Covers
  <2>5. PICK l \in 1..Len(offered[k]) :
          offered[k][l] = x /\ \A n \in 1..Len(offered[k]) : offered[k][n] = x => n = l
    BY <2>3, <2>4 DEF OffersAll
  <2>6. ASSUME NEW m \in 1..Len(pool), NEW n \in 1..Len(offered[m]), offered[m][n] = x
        PROVE  m = k
    <3>1. Spans(pool[m], x)
      BY <2>3, <2>6 DEF OffersAll
    <3> QED
      BY <2>1, <2>4, <3>1, CanonicalDisjoint
  <2> QED
    BY <2>2, <2>4, <2>5, <2>6
<1> QED
  BY <1>1, PoolInvariant, PTL

=============================================================================
