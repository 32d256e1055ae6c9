----------------------------- MODULE MCClientSync ------------------------------
(***************************************************************************)
(* Small instances of ClientSync: the destination NAT rules of a service   *)
(* port (ensureLBServicePortDNATRules), one rule for each endpoint.        *)
(***************************************************************************)
EXTENDS ClientSync

CONSTANTS e1, e2   \* endpoints

\* Every rule but the last has an nth parameter; the last is the fallback.
Fallback == <<0, 0>>
Bodies == {<<2, 1>>, <<3, 1>>, <<3, 2>>, Fallback}

DNATRules(eps) == [n \in 1..Len(eps) |->
  [key |-> eps[n], body |-> IF n < Len(eps) THEN <<Len(eps), n>> ELSE Fallback]]

\* Endpoints come and go; one is listed twice for a while.
ScaledLists == {DNATRules(eps) : eps \in {<< >>, <<e1>>, <<e1, e2>>, <<e2>>, <<e1, e1, e2>>}}

\* The same endpoints, listed in another order.
ReorderedLists == {DNATRules(eps) : eps \in {<<e1, e2>>, <<e2, e1>>}}

(***************************************************************************)
(* "The last rule doesn't need an nth parameter and will be the            *)
(* fallback/default": the rule without nth is the last one of its chain.   *)
(***************************************************************************)
FallbackIsLast ==
  synced = "now" => \A m, n \in Own : table[m].rule.body = Fallback => n <= m
=============================================================================
