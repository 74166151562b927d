------------------------------- MODULE MCCanHal -------------------------------
(* CanHal with either backend linked. *)
EXTENDS CanHal

MCBackends == {"virtual", "socketcan"}
===============================================================================
