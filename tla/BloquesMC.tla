------------------------------ MODULE BloquesMC ------------------------------
(* Instances of Bloques for TLC. *)
EXTENDS BloquesProp

Simetria == Permutations(Hilos) \cup Permutations(Archivos)
DosBasuras == {2, 5}

\* A writer whose file is gone is followed up to its end; otherwise, once
\* something has happened that Exclusividad makes allowance for, nothing else
\* need happen.
SinMasIncidentes ==
  /\ Cardinality(incidentes) <= 2
  /\ \/ incidentes \cap Confunden = {} \/ incidentes = {"lleno"}
     \/ /\ incidentes = {"cruce"} /\ reinicios = 0
        /\ \E h \in Hilos : pc[h] \in Escribiendo /\ ~Existe(archivo[h])
=============================================================================
