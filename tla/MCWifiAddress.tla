---------------------------- MODULE MCWifiAddress ----------------------------
(* WifiAddress with networks of several prefix lengths, one of them in the half
   octet whose addresses Android cannot encode. *)
EXTENDS WifiAddress

MCLeases == {[ip |-> 170, prefix |-> 4], [ip |-> 170, prefix |-> 6],
             [ip |-> 77, prefix |-> 5], [ip |-> 3, prefix |-> 4]}
MCDhcpPrefixes == {0, 3, 5}
=============================================================================
