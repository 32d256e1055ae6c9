-------------------------------- MODULE IPRange --------------------------------
(***************************************************************************)
(* Ranges of addresses: internal/core/ip_range.go.  The addresses of one   *)
(* family are 0..MaxAddr; NoAddr is the zero netip.Addr, which is what     *)
(* Next and Prev return past the ends and which is Less than every valid   *)
(* address.                                                                *)
(***************************************************************************)
EXTENDS Integers, Sequences

CONSTANTS MaxAddr,     \* the all-ones address of the family
          PrefixSize   \* the number of addresses of a CIDR, by prefix length

Addr == 0..MaxAddr
NoAddr == -1

ASSUME AddrAssumption == MaxAddr \in Nat
ASSUME PrefixAssumption ==
  \A b \in DOMAIN PrefixSize :
    /\ PrefixSize[b] \in Nat \ {0}
    /\ \A x \in Addr : x - (x % PrefixSize[b]) + PrefixSize[b] - 1 \in Addr

NextAddr(x) == IF x = MaxAddr THEN NoAddr ELSE x + 1

\* Mutant: off by one.
PrevAddr_Same(x) == x

PrevAddr(x) == x - 1

IPRanges == [start : Addr, end : Addr]
NoRange == [start |-> NoAddr, end |-> NoAddr]   \* the zero IPRange

\* Mutant: the first address is left out.
Contains_Exclusive(r, x) == r.start < x /\ x < NextAddr(r.end)

\* IPRange.Contains, with the code's strict comparisons.
Contains(r, x) == PrevAddr(r.start) < x /\ x < NextAddr(r.end)

Count(r) == r.end - r.start + 1

\* What a range and a list of ranges stand for.
Spans(r, x) == r.start <= x /\ x <= r.end
Covers(rs, x) == \E k \in 1..Len(rs) : Spans(rs[k], x)

-----------------------------------------------------------------------------
(***************************************************************************)
(* One entry of IPPool.Spec.Addresses.  A "range" entry a-b (a = b for a   *)
(* single address), a "cidr" entry a/b, or text that is neither.  family   *)
(* says whether it is of the pool's family.                                *)
(***************************************************************************)
Form == {"range", "cidr", "malformed"}
Entry == [form : Form, a : Addr, b : Nat, excluded : BOOLEAN, family : BOOLEAN]

\* The addresses the text of a well-formed entry names.
FirstNamed(e) == IF e.form = "cidr" THEN e.a - (e.a % PrefixSize[e.b]) ELSE e.a
LastNamed(e) == IF e.form = "cidr" THEN FirstNamed(e) + PrefixSize[e.b] - 1 ELSE e.b

\* ParseIPRange: excludeEdges drops the first and the last address of a CIDR.
Trimmed(e, excludeEdges) == e.form = "cidr" /\ excludeEdges

ParsedStart(e, excludeEdges) ==
  IF Trimmed(e, excludeEdges) THEN NextAddr(FirstNamed(e)) ELSE FirstNamed(e)
ParsedEnd(e, excludeEdges) ==
  IF Trimmed(e, excludeEdges) THEN PrevAddr(LastNamed(e)) ELSE LastNamed(e)

ParseIPRange(e, excludeEdges) ==
  [start |-> ParsedStart(e, excludeEdges), end |-> ParsedEnd(e, excludeEdges)]

\* The error returns of ParseIPRange and NewIPRange.
Parses(e, excludeEdges) ==
  /\ e.form \in {"range", "cidr"}
  /\ e.form = "cidr" => e.b \in DOMAIN PrefixSize
  /\ e.form = "range" => e.b \in Addr
  /\ ParsedStart(e, excludeEdges) # NoAddr /\ ParsedEnd(e, excludeEdges) # NoAddr
  /\ ParsedStart(e, excludeEdges) <= ParsedEnd(e, excludeEdges)

=============================================================================
