----------------------------- MODULE MCIosName -----------------------------
(* IosName with three hosts of one last octet, so of one port, of which two are
   confusable and the third is with neither of them. *)
EXTENDS IosName, TLC

CONSTANTS t1, t2, t3

MCAddress ==
    (t1 :> <<192, 168, 1, 1>>) @@ (t2 :> <<192, 168, 2, 1>>) @@ (t3 :> <<192, 168, 3, 1>>)
=============================================================================
