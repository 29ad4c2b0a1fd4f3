------------------------------ MODULE SesionMC ------------------------------
(* Two requests on one connection and one on the other. *)
EXTENDS SesionProp
CONSTANTS x1, x2
LargoMC == [h \in Conexiones |-> IF h = x1 THEN 2 ELSE 1]
=============================================================================
