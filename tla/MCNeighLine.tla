----------------------------- MODULE MCNeighLine -----------------------------
(* NeighLine with two dumps of every table that has an entry of any kind before
   or behind an ordinary one.  Of two addresses one is not worth a visit. *)
EXTENDS NeighLine

MCGlobal    == {"host", "other"}
MCAddresses == MCGlobal \cup {"linklocal"}
MCMacs      == {"02:11", "02:22"}

Ordinary ==
    [family |-> "INET", dst |-> "other", ifindex |-> 1, nud |-> "REACHABLE",
     mac |-> "02:22", router |-> FALSE, proxy |-> FALSE]

Extraordinary ==
    {e \in Entries : e.dst # "other" /\ e.mac # Ordinary.mac}

MCTables ==
    {<<e, Ordinary>> : e \in Extraordinary} \cup {<<Ordinary, e>> : e \in Extraordinary}
=============================================================================
