-------------------------- MODULE MCServiceController --------------------------
(***************************************************************************)
(* A small instance of ServiceController.  Services share nothing but the  *)
(* worker and the addresses, so one of them is looked at: another one      *)
(* would only delay its reconciliations and take addresses from it, and it *)
(* is free to wait and to be granted or denied an address anyway.          *)
(***************************************************************************)
EXTENDS ServiceController, TLC

CONSTANTS s1, p, t1, t2

Services == {s1}
Addresses == {1, 2}
Pools == {p}
Families == 1 :> "ipv4" @@ 2 :> "ipv6"
OnePool == [a \in Addresses |-> p]
Contents == {t1, t2}

C(lb, snat, auto, useLB, pools, ips, snatIPs) ==
  [lb |-> lb, snat |-> snat, auto |-> auto, useLB |-> useLB, pools |-> pools, ips |-> ips,
   snatIPs |-> snatIPs, families |-> {"ipv4"}]

Unmanaged == C(FALSE, FALSE, TRUE, FALSE, {}, {}, {})
Auto == C(TRUE, TRUE, TRUE, TRUE, {}, {}, {})            \* any address, for SNAT, too
Pooled == C(TRUE, TRUE, FALSE, FALSE, {p}, {}, {2})       \* the pool, and an address for SNAT

SomeConfigs == {Unmanaged, Auto, Pooled}
=============================================================================
