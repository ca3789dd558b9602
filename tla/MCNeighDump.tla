----------------------------- MODULE MCNeighDump -----------------------------
(* NeighDump on a table of two entries, one of them in the state NUD_NOARP.  The
   pipe of one dumper holds the lines of both, that of the other not even the line
   of the other entry. *)
EXTENDS NeighDump, TLC

CONSTANTS d1, d2, host, multicast

MCDumpers == {d1, d2}
MCTable   == {host, multicast}
MCNoArp   == {multicast}
MCPipeLines == d1 :> 2 @@ d2 :> 0
=============================================================================
