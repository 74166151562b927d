------------------------------ MODULE MCOsalTasks -----------------------------
(* OsalTasks on either operating system. *)
EXTENDS OsalTasks

MCSystems == {"posix", "freertos"}
===============================================================================
