----------------------------- MODULE MCWSGateway -----------------------------
(* Instances of WSGateway for TLC. *)
EXTENDS WSGateway
===============================================================================
