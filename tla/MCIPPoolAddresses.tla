--------------------------- MODULE MCIPPoolAddresses ---------------------------
(***************************************************************************)
(* Small instances of IPPoolSearch.                                        *)
(***************************************************************************)
EXTENDS IPPoolSearch, TLC

Seqs == INSTANCE SequencesExt

\* CIDRs of two and of one addresses, and of four where the address space has room.
Sizes == [b \in {32, 31} \cup (IF MaxAddr % 4 = 3 THEN {30} ELSE {}) |-> 2 ^ (32 - b)]

RangeEntries ==
  [form : {"range"}, a : Addr, b : Addr, excluded : BOOLEAN, family : {TRUE}]
Forward == {e \in RangeEntries : e.a <= e.b}

CIDREntries == [form : {"cidr"}, a : Addr, b : DOMAIN Sizes, excluded : BOOLEAN, family : {TRUE}]

\* A reversed range, an entry of the other family and a malformed one.
Rejected ==
  {[form |-> "range", a |-> 1, b |-> 0, excluded |-> FALSE, family |-> TRUE],
   [form |-> "range", a |-> 0, b |-> 1, excluded |-> FALSE, family |-> FALSE],
   [form |-> "malformed", a |-> 0, b |-> 0, excluded |-> TRUE, family |-> TRUE]}

(***************************************************************************)
(* All lists of at most two entries, and all lists of three ranges in      *)
(* which an earlier entry sorts before a later one: merge sorts its        *)
(* argument and keeps inclusions and exclusions apart, so their order      *)
(* makes no difference.                                                    *)
(***************************************************************************)
Before(d, e) == IF d.excluded = e.excluded THEN d.a < e.a \/ (d.a = e.a /\ d.b <= e.b)
                ELSE e.excluded
ThreeRanges == {list \in [1..3 -> Forward] : Before(list[1], list[2]) /\ Before(list[2], list[3])}
AllInputs == Seqs!BoundedSeq(Forward \cup CIDREntries \cup Rejected, 2) \cup ThreeRanges

\* All lists of two ranges.
RangeInputs == [1..2 -> Forward]

\* All canonical lists of at most two ranges.
CanonicalLists == {list \in Seqs!BoundedSeq({range \in IPRanges : range.start <= range.end}, 2) : Canonical(list)}
NoPool == {<< >>}

\* No offset, and every offset of every range.
AllHashes == 0..(MaxAddr + 1)
NoHash == {0}
=============================================================================
