----------------------------- MODULE MCIcmpPing -----------------------------
(* PingHelper with an echo reply and a copy of it, and a second child that is in
   ip2mac; one event of the environment, before a write or after it. *)
EXTENDS PingHelper

CONSTANTS me, other
=============================================================================
