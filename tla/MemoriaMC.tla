------------------------------ MODULE MemoriaMC ------------------------------
(* Instances of Memoria for TLC. *)
EXTENDS MemoriaProp

SimetriaClaves == Permutations(Claves)
Simetria == SimetriaClaves \cup Permutations(Tablas)

\* Two pages are enough for what the passing of time changes, and two records
\* for what a journal read in a freed page.
PocasSiHayTiempo == reloj > 1 => Cardinality(paginas) <= 2
PocoAjeno == \A h \in Hilos : j[h].ajeno => Len(j[h].lista) <= 2
=============================================================================
