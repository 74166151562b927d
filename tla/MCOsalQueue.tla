------------------------------ MODULE MCOsalQueue ------------------------------
(* OsalQueue with model values for threads and items. *)
EXTENDS OsalQueue

CONSTANTS s1, s2, r1, r2, a, b

MCSenders == {s1, s2}

MCReceivers == {r1, r2}

MCItems == {a, b}
===============================================================================
