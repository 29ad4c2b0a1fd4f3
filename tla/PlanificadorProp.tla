-------------------------- MODULE PlanificadorProp --------------------------
(***************************************************************************)
(* What the kernel must keep of the scripts it is given.                   *)
(***************************************************************************)
EXTENDS Planificador

PasosEjecutor ==
  {"libre", "tomar", "buscar", "buscando", "enviar", "llenar", "enlazar"}

LocalesEjecutor ==
  [pc : PasosEjecutor, s : Guiones \cup {Nulo}, quantum : 0..Quantum,
   p : Pedidos \cup {Nulo}, ultimo : Guiones \cup {Nulo}, vista : BOOLEAN,
   sabida : BOOLEAN, refresco : {"no", "llenando", "limpia"}, faltan : 0..Len(EnFS)]

\* The variables have the types of the source.
TypeOK ==
  /\ guion \in [Guiones -> {Nulo} \cup Seq(Pedidos)]
  /\ fin \in [Guiones -> {"no", "terminado", "destruido"}]
  /\ queue_nuevo \in Seq(Guiones) /\ mutexNuevo \in BOOLEAN /\ semaforoNuevo \in Nat
  /\ queue_listo \in Seq(Guiones) /\ cuenta \in Int
  /\ semaforoListo \in Nat /\ semaforoExecLibre \in Nat
  /\ nuevos \in [pc : {"esperar", "crear", "enlazar"}, s : Guiones \cup {Nulo},
                 ultimo : Guiones \cup {Nulo}]
  /\ listos \in {"esperarListo", "esperarExec", "lanzar"}
  /\ ej \in [Ejecutores -> LocalesEjecutor]
  /\ metadata_tablas \in Seq(Tablas) /\ conocidas \subseteq Tablas
  /\ mutexMetadata \in Ejecutores \cup {Nadie}
  /\ criterio_SC \in Seq(Memorias) /\ criterio_EC \in Seq(Memorias)
  /\ ultimaMemoriaCriterioEC \in Nat
  /\ tabla_gossiping \in ((SUBSET Memorias) \ {{}}) \cup {Nulo}
  /\ mutexTablaGossiping \in {"consola", "gossip", Nadie}

Ocupados == {e \in Ejecutores : ej[e].pc # "libre"}
Corre(s) == \E e \in Ocupados : ej[e].s = s

\* semaforoExecLibre counts the executors that are not there, on every way out
\* of ejecutar: none is lost, and no more than MULTIPROCESAMIENTO ever run.
EjecutoresJustos ==
  semaforoExecLibre + Cardinality(Ocupados) + (IF listos = "lanzar" THEN 1 ELSE 0)
    = Cardinality(Ejecutores)

\* Until two operations on queue_listo meet, semaforoListo counts what there is
\* in it: atenderListos never pops an empty list, and its count is right.
ColaJusta ==
  cruces = {} =>
    /\ Len(queue_listo) = semaforoListo + (IF listos = "esperarListo" THEN 0 ELSE 1)
    /\ cuenta = Len(queue_listo)
    /\ caida \notin {"sacarDeVacia", "cuentaDeMas"}

\* The places where a script may be, with how many times it is there.
Veces(s) ==
  Cardinality({i \in DOMAIN queue_nuevo : queue_nuevo[i] = s})
  + Cardinality({i \in DOMAIN queue_listo : queue_listo[i] = s})
  + (IF nuevos.s = s THEN 1 ELSE 0)
  + Cardinality({e \in Ejecutores : ej[e].s = s})

\* Until two operations on queue_listo meet, a script that was queued and has
\* neither ended nor been given up is in one place.
NingunGuionSePierde ==
  cruces = {} =>
    \A s \in Guiones : Veces(s) = IF guion[s] # Nulo /\ fin[s] = "no" THEN 1 ELSE 0

Apariciones(lista, t) == Cardinality({i \in DOMAIN lista : lista[i] = t})

\* buscarTabla must find what recibirMetadata brought: all the tables that were
\* brought are there unless they are being brought again, and none is there more
\* often than the file system sends it, whoever asks for one table meanwhile.
MetadataEntera ==
  /\ \A t \in Tablas : Apariciones(metadata_tablas, t) <= Apariciones(EnFS, t)
  /\ mutexMetadata = Nadie => conocidas = ToSet(metadata_tablas)

\* A script is given up only for a table that no DESCRIBE had brought when it
\* was looked for, or while one was emptying and filling the list; for want of a
\* memory of the criterion in the gossip table; or by the memory that SHC never sets.
AbandonoJustificado ==
  [][\A e \in Ejecutores :
       fin' # fin /\ ej[e].pc # "libre" /\ ej'[e].pc = "libre" /\ fin'[ej[e].s] = "destruido" =>
         LET t == ej[e].p.t IN
         \/ ~ej[e].sabida
         \/ ej[e].pc = "buscando" /\ ej[e].refresco # "no"
         \/ Encuentra(e) /\
              \/ "SHC" \in Consistencia[t]
              \/ /\ "SC" \in Consistencia[t]
                 /\ criterio_SC = <<>> \/ criterio_SC[1] \notin tabla_gossiping
              \/ "EC" \in Consistencia[t] /\ ~(ToSet(criterio_EC) \subseteq tabla_gossiping)]_vars

\* Every script that is queued ends or is given up, while memories answer,
\* unless two operations met on queue_listo, the process dies, or an executor
\* looks for ever for a second memory of EC.
TodoGuionTermina ==
  \A s \in Guiones :
    guion[s] # Nulo ~>
      \/ fin[s] # "no" \/ cruces # {} \/ caida # "no"
      \/ Len(criterio_EC) = 1 /\ ultimaMemoriaCriterioEC = 1

-----------------------------------------------------------------------------
(* The planner implements Turnos: a script runs while an executor has it,  *)
(* and what has been lost on queue_listo waits.                            *)

Fase(s) ==
  IF guion[s] = Nulo THEN "afuera"
  ELSE IF fin[s] # "no" THEN "fin"
  ELSE IF Corre(s) THEN "corre" ELSE "espera"

\* A request counts as taken when it leaves the script.
Usados(s) ==
  IF ~Corre(s) THEN 0
  ELSE LET e == CHOOSE x \in Ocupados : ej[x].s = s IN
       Quantum - ej[e].quantum + (IF ej[e].p = Nulo THEN 0 ELSE 1)

T == INSTANCE Turnos WITH
       Lugares <- Cardinality(Ejecutores),
       fase <- [s \in Guiones |-> Fase(s)],
       restan <- guion,
       usados <- [s \in Guiones |-> Usados(s)]

\* Scripts take turns of a quantum, at most MULTIPROCESAMIENTO at once, each
\* request once and in order, whatever meets on queue_listo.
TomanTurnos == T!Spec
=============================================================================
