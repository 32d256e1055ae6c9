--------------------------- MODULE MCRouterOSBackend ---------------------------
(***************************************************************************)
(* A small instance of RouterOSBackend: two services compete for two IPv4  *)
(* addresses and one IPv6 address.                                         *)
(***************************************************************************)
EXTENDS RouterOSBackend, TLC

CONSTANTS s1, s2, x4, z4, y6, e4, g4, e6, http, dns

Services == {s1, s2}
Addresses == {x4, z4, y6}
Endpoints == {e4, g4, e6}
PortSet == {http, dns}
Families == (x4 :> "ipv4") @@ (z4 :> "ipv4") @@ (y6 :> "ipv6") @@
            (e4 :> "ipv4") @@ (g4 :> "ipv4") @@ (e6 :> "ipv6")

Sl(ips, ports) == [ips |-> ips, ports |-> ports]
M(lb, snat, slices) == [lb |-> lb, snat |-> snat, slices |-> slices]

\* One port; other endpoints; two ports; both families; IPv4 only behind both;
\* another address and no endpoint ready; SNAT only.
ModelSet ==
  {M({x4}, {}, {Sl({e4}, {http})}),
   M({x4}, {x4}, {Sl({g4}, {http, dns})}),
   M({x4, y6}, {}, {Sl({e4}, {http}), Sl({e6}, {http})}),
   M({y6}, {}, {Sl({e4}, {http}), Sl({e6}, {dns})}),
   M({z4}, {}, {}),
   M({}, {x4}, {Sl({e4, g4}, {http})})}
=============================================================================
