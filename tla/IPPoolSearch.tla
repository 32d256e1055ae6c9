----------------------------- MODULE IPPoolSearch ------------------------------
(***************************************************************************)
(* The dynamic allocation's search through a pool (Reconcile of            *)
(* internal/controller/ip_allocation_reconciler.go): the addresses are     *)
(* computed as in IPPoolAddresses, then IPRange.Iter runs over every range *)
(* with the hash of the allocation's name, until an address is free.       *)
(* Which addresses are free is up to the consumer: it may stop anywhere.   *)
(*                                                                         *)
(* The webhook and the allocation controller make the same call of         *)
(* ParseIPPoolAddresses.  The search follows it in the behaviours without  *)
(* an existing pool, where the webhook has nothing left to do.             *)
(***************************************************************************)
EXTENDS IPPoolAddresses, IPRangeIter

CONSTANT Hashes   \* values of startHash

ASSUME HashesAssumption == Hashes \subseteq Nat

VARIABLES startHash,  \* 0 before the search, then chosen once
          offered    \* the addresses of the ranges that are done, range by range

searchVars == <<vars, iter, startHash, offered>>

SearchTypeOK ==
  /\ TypeOK /\ IterTypeOK
  /\ startHash \in Nat
  /\ offered \in Seq(Seq(Addr))

SearchInit == Init /\ NoIter /\ startHash = 0 /\ offered = << >>

ParsePool == Next /\ UNCHANGED <<iter, startHash, offered>>

Searching == pc = "done" /\ existing = << >>

\* The loop over RangesForFamily.
NextRange == Len(offered) + 1

SearchRange ==
  /\ Searching /\ stopped = "break" /\ NextRange <= Len(pool)
  /\ r = NoRange
  /\ startHash' \in IF offered = << >> THEN Hashes ELSE {startHash}
  /\ Iter(pool[NextRange], startHash')
  /\ UNCHANGED <<vars, offered>>

\* The range is used up; the next turn of the loop takes another one.
RangeDone ==
  /\ Searching /\ stopped = "break" /\ r # NoRange
  /\ offered' = Append(offered, yielded)
  /\ r' = NoRange /\ start' = NoAddr /\ addr' = NoAddr /\ end' = NoAddr /\ yielded' = << >>
  /\ UNCHANGED <<vars, stopped, startHash>>

TryNext == Searching /\ (Advance \/ Stop) /\ UNCHANGED <<vars, startHash, offered>>

Search == SearchRange \/ TryNext \/ RangeDone

SearchSpec ==
  /\ SearchInit /\ [][ParsePool \/ Search]_searchVars
  /\ WF_searchVars(ParsePool \/ Search)   \* a call runs to its end

Exhausted == Searching /\ stopped = "break" /\ r = NoRange /\ NextRange > Len(pool)

-----------------------------------------------------------------------------
(***************************************************************************)
(* A search that found nothing free has tried every usable address of the  *)
(* pool exactly once: NoFreeAddress is reported only when it is true.      *)
(***************************************************************************)
OffersEveryAddress ==
  Exhausted =>
    \A x \in Addr : Covers(pool, x) =>
      \E k \in 1..Len(offered) :
        \E l \in 1..Len(offered[k]) :
          /\ offered[k][l] = x
          /\ \A m \in 1..Len(offered) : \A n \in 1..Len(offered[m]) :
               offered[m][n] = x => m = k /\ n = l

(***************************************************************************)
(* Every loop ends: the parsing, the overlap check, and the search, with   *)
(* an address or with none left.                                           *)
(***************************************************************************)
Finishes == <>(pc = "done" /\ (existing = << >> => Exhausted \/ stopped = "consumer"))

=============================================================================
