--------------------------- MODULE PlanificadorMC ---------------------------
(* An instance of Planificador for TLC. *)
EXTENDS PlanificadorProp
CONSTANTS s1, s2, t1, t2, m1, m2

Tabla(t) == [tipo |-> "TABLA", t |-> t]
Todas == [tipo |-> "DESCRIBE_TODAS", t |-> Nulo]
Una(t) == [tipo |-> "DESCRIBE", t |-> t]

UnoYOtro == (s1 :> <<Todas, Tabla(t1)>>) @@ (s2 :> <<Una(t2), Tabla(t2), Tabla(t2)>>)
UnaDeCada == (t1 :> {"SC", "SHC"}) @@ (t2 :> {"EC"})
ListaDeTablas == <<t1, t2, t1>>
AltasMC == {<<m1, "SC">>, <<m2, "EC">>}

\* SC gets its memory before EC does; and what is lost when two operations
\* meet on queue_listo is followed up only where nothing else has changed.
PocoTrasCruce ==
  /\ criterio_EC # <<>> => criterio_SC # <<>>
  /\ cruces # {} => /\ criterio_SC = <<>> /\ tabla_gossiping = {Principal}
                    /\ mutexTablaGossiping = Nadie
=============================================================================
