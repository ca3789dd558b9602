---------------------------- MODULE MCNameReply ----------------------------
(* NameReply with two hosts of one subnet whose identifiers tell them apart, an
   IPv6 host that is taken for either of them, and one port too few.  The
   identifier of t2 shares an octet with that of NetBIOS. *)
EXTENDS NameReply, TLC

CONSTANTS t1, t2, t3, p1, p2

MCAddress ==
    (t1 :> <<32, 1, 200, 184>>)
    @@ (t2 :> <<32, 1, 200, 16>>)
    @@ (t3 :> <<32, 1, 201, 185, 0, 0, 0, 0, 0, 0, 0, 0, 0, 0, 0, 9>>)
=============================================================================
