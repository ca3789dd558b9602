------------------------------ MODULE MCIosScan ------------------------------
(* IosScan as TLC checks it; the cfg files give every constant. *)
EXTENDS IosScan
=============================================================================
