------------------------------ MODULE IPRangeIter ------------------------------
(***************************************************************************)
(* IPRange.Iter (internal/core/ip_range.go): the order in which the        *)
(* allocation controller tries the addresses of a range, from an offset    *)
(* derived from the hash of the allocation's name, around the end, back to *)
(* the offset.  One action is one turn of the generator's loop; the        *)
(* consumer may stop it at any address.                                    *)
(***************************************************************************)
EXTENDS IPRange

VARIABLES r,        \* the range
          start,    \* the address at the offset
          addr, end,    \* the loop's variables
          yielded,  \* the addresses handed to the consumer
          stopped   \* "running", or how the loop ended: "break" by itself, "consumer"

iter == <<r, start, addr, end, yielded, stopped>>

IterTypeOK ==
  /\ r \in IPRanges \cup {NoRange}
  /\ {start, addr, end} \subseteq Addr \cup {NoAddr}
  /\ yielded \in Seq(Addr)
  /\ stopped \in {"running", "break", "consumer"}

\* The address at the offset; a zero hash means no offset.
Offset(range, hash) == IF hash = 0 THEN 0 ELSE hash % Count(range)

NoIter == r = NoRange /\ start = NoAddr /\ addr = NoAddr /\ end = NoAddr /\ yielded = << >> /\ stopped = "break"

\* A call of Iter for a range that is not empty.
Iter(range, hash) ==
  /\ r' = range
  /\ start' = range.start + Offset(range, hash)
  /\ addr' = start' /\ end' = range.end
  /\ yielded' = << >> /\ stopped' = "running"

\* Mutant: the iteration starts over where it began.
WrapAddr_Start == start

\* Where the iteration goes on behind the end of the range.
WrapAddr == r.start

\* The consumer takes the address and goes on: the next one, or around the end.
Advance ==
  /\ stopped = "running"
  /\ yielded' = Append(yielded, addr)
  /\ \/ /\ addr # end
        /\ addr' = NextAddr(addr)
        /\ UNCHANGED <<end, stopped>>
     \/ /\ addr = end /\ (start = r.start \/ end # r.end)
        /\ stopped' = "break"
        /\ UNCHANGED <<addr, end>>
     \/ /\ addr = end /\ start # r.start /\ end = r.end
        /\ addr' = WrapAddr /\ end' = PrevAddr(start)
        /\ UNCHANGED stopped
  /\ UNCHANGED <<r, start>>

\* The consumer takes the address and stops the iteration.
Stop ==
  /\ stopped = "running"
  /\ yielded' = Append(yielded, addr)
  /\ stopped' = "consumer"
  /\ UNCHANGED <<r, start, addr, end>>

-----------------------------------------------------------------------------
(***************************************************************************)
(* The k-th address is the one k - 1 places after the offset, modulo the   *)
(* size of the range: the order IPAllocationController takes candidates in *)
(* (its Rank); no address comes twice, so the iteration ends.              *)
(***************************************************************************)
InOrder ==
  /\ Len(yielded) <= Count(r)
  /\ \A k \in 1..Len(yielded) :
       yielded[k] = r.start + ((start - r.start + k - 1) % Count(r))

=============================================================================
