---------------------------- MODULE MCAndroidScan ----------------------------
(* Values for model-checking AndroidScan.  The neighbour table may also hold an
   entry that the dump leaves out, of another device and for an address outside
   the scanned subnet. *)
EXTENDS AndroidScan

CONSTANTS wlan, eth, stray

MCAddresses  == HostIndex \cup {stray}
MCNoArp      == {<<stray, eth>>}
MCNeighbours == {<<i, wlan>> : i \in HostIndex} \cup MCNoArp
=============================================================================
