----------------------------- MODULE MCDelivery -----------------------------
(* A START and a STOP of one client.                                       *)
EXTENDS Delivery

MCOps == <<"START", "STOP">>

=============================================================================
