---------------------------- MODULE MCWifiStatus ----------------------------
(* WifiStatus with enough streams for one that outlives another's cancel and one
   that begins after it, and a change in either direction. *)
EXTENDS WifiStatus

MCStreams == 3
MCChanges == 1
=============================================================================
