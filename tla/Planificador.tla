---------------------------- MODULE Planificador ----------------------------
(***************************************************************************)
(* The kernel process: the console, the planner and the executors.         *)
(*                                                                         *)
(* The console queues scripts in queue_nuevo; atenderNuevos turns each     *)
(* into a queue of requests and puts it in queue_listo; atenderListos      *)
(* starts an executor for the first one when semaforoExecLibre lets it;    *)
(* an executor runs up to a quantum of requests and puts the script back.  *)
(* queue_nuevo is always under mutexNuevo.  mutexListo is taken by         *)
(* atenderNuevos alone, so it excludes nobody: queue_listo is pushed to    *)
(* by atenderNuevos and by the executors, and popped by atenderListos,     *)
(* with nothing between them.  A push looks for the last node and then     *)
(* links the new one to it; a pop is one step here, because a push that    *)
(* falls inside it loses what it loses when it falls around it.            *)
(*                                                                         *)
(* What a memory answers (module Sesion) changes nothing of this, but for  *)
(* DESCRIBE.  What the gossip thread receives (module Gossip) is any table.*)
(***************************************************************************)
EXTENDS Integers, SequencesExt, FiniteSets

CONSTANTS
  Guiones,       \* the scripts the console can queue
  Programa,      \* script -> its requests
  Ejecutores,    \* MULTIPROCESAMIENTO of them
  Quantum,
  Tablas,
  EnFS,          \* listaDeTablas of the file system, which DESCRIBE brings one by
                 \* one: a table that two CREATEs made at once is there twice
  Consistencia,  \* table -> those it may be created with: "SC", "SHC", "EC"
  Memorias,
  Principal,     \* the memory of IP_MEMORIA and PUERTO_MEMORIA
  Altas,         \* the ADDs of the console: memories and criteria
  MaxCriterio,   \* bound: entries of criterio_EC
  Nulo, Nadie

\* SELECT, INSERT and DROP name a table and go to a memory of its criterion;
\* the others go to the first memory of the gossip table.
Pedidos == [tipo : {"TABLA", "CREATE", "DESCRIBE"}, t : Tablas]
             \cup {[tipo |-> "DESCRIBE_TODAS", t |-> Nulo]}

ASSUME ProgramaValido == Programa \in [Guiones -> Seq(Pedidos)]
ASSUME EjecutoresFinitos == IsFiniteSet(Ejecutores) /\ Ejecutores # {}
ASSUME QuantumValido == Quantum \in Nat \ {0}
ASSUME MemoriasValidas ==
  /\ IsFiniteSet(Memorias) /\ Principal \in Memorias
  /\ Altas \subseteq Memorias \X {"SC", "EC"}
ASSUME TablasValidas ==
  EnFS \in Seq(Tablas) /\ Consistencia \in [Tablas -> SUBSET {"SC", "SHC", "EC"}]
ASSUME NulosValidos ==
  /\ Nulo \notin Guiones /\ Nulo \notin Tablas /\ Nulo \notin Seq(Pedidos) \cup Pedidos
  /\ Nadie \notin Ejecutores /\ Ejecutores \cap {"nuevos", "listos"} = {}

VARIABLES
  guion,         \* script -> the requests left in its queue; Nulo: not queued yet
  fin,           \* script -> "no", "terminado", "destruido"
  queue_nuevo, mutexNuevo, semaforoNuevo,
  queue_listo,   \* the nodes that can be reached from the head
  cuenta,        \* its elements_count
  semaforoListo, semaforoExecLibre,
  nuevos,        \* atenderNuevos: pc, the script, and the last node it found
  listos,        \* atenderListos: pc
  ej,            \* executor -> pc and locals; sabida, for the properties: the
                 \* table looked for had been brought when it began to look
  metadata_tablas, mutexMetadata,
  criterio_SC, criterio_EC, ultimaMemoriaCriterioEC,
  tabla_gossiping, mutexTablaGossiping,
  caida,         \* "no", or what killed the process
  cruces,        \* read by the properties only: the unprotected pairs that met,
  conocidas      \* and the tables that some DESCRIBE brought

colaNuevos == <<queue_nuevo, mutexNuevo, semaforoNuevo>>
colaListos == <<queue_listo, cuenta, semaforoListo>>
tablas == <<metadata_tablas, mutexMetadata, conocidas>>
criterios == <<criterio_SC, criterio_EC, ultimaMemoriaCriterioEC>>
gossip == <<tabla_gossiping, mutexTablaGossiping>>
vars == <<guion, fin, colaNuevos, colaListos, semaforoExecLibre, nuevos, listos,
          ej, tablas, criterios, gossip, caida, cruces>>

Vivo == caida = "no" /\ caida' = caida

-----------------------------------------------------------------------------
Libre == [pc |-> "libre", s |-> Nulo, quantum |-> 0, p |-> Nulo, ultimo |-> Nulo,
          vista |-> FALSE, refresco |-> "no", sabida |-> FALSE, faltan |-> 0]

Init ==
  /\ guion = [s \in Guiones |-> Nulo] /\ fin = [s \in Guiones |-> "no"]
  /\ queue_nuevo = <<>> /\ mutexNuevo = FALSE /\ semaforoNuevo = 0
  /\ queue_listo = <<>> /\ cuenta = 0 /\ semaforoListo = 0
  /\ semaforoExecLibre = Cardinality(Ejecutores)
  /\ nuevos = [pc |-> "esperar", s |-> Nulo, ultimo |-> Nulo]
  /\ listos = "esperarListo"
  /\ ej = [e \in Ejecutores |-> Libre]
  /\ metadata_tablas = <<>> /\ mutexMetadata = Nadie /\ conocidas = {}
  /\ criterio_SC = <<>> /\ criterio_EC = <<>> /\ ultimaMemoriaCriterioEC = 0
  /\ tabla_gossiping = {Principal} /\ mutexTablaGossiping = Nadie
  /\ caida = "no" /\ cruces = {}

-----------------------------------------------------------------------------
(* The console.                                                            *)

\* procesarRequest: a request, or a RUN, is queued under mutexNuevo.
Ingresar(s) ==
  /\ Vivo
  /\ guion[s] = Nulo /\ ~mutexNuevo /\ mutexTablaGossiping # "consola"
  /\ guion' = [guion EXCEPT ![s] = Programa[s]]
  /\ queue_nuevo' = Append(queue_nuevo, s)
  /\ semaforoNuevo' = semaforoNuevo + 1
  /\ UNCHANGED <<fin, mutexNuevo, colaListos, semaforoExecLibre, nuevos, listos, ej,
                 tablas, criterios, gossip, cruces>>

\* agregarMemoria: one memory at most for SC, any number of entries for EC.
Add(m, criterio) ==
  /\ Vivo
  /\ mutexTablaGossiping # "consola"
  /\ \/ /\ criterio = "SC" /\ criterio_SC = <<>>
        /\ criterio_SC' = <<m>> /\ UNCHANGED criterio_EC
     \/ /\ criterio = "EC" /\ Len(criterio_EC) < MaxCriterio
        /\ criterio_EC' = Append(criterio_EC, m) /\ UNCHANGED criterio_SC
  /\ UNCHANGED <<guion, fin, colaNuevos, colaListos, semaforoExecLibre, nuevos, listos,
                 ej, tablas, ultimaMemoriaCriterioEC, gossip, cruces>>

Tomar(quien) ==
  /\ Vivo
  /\ mutexTablaGossiping = Nadie /\ mutexTablaGossiping' = quien
  /\ UNCHANGED <<guion, fin, colaNuevos, colaListos, semaforoExecLibre, nuevos, listos,
                 ej, tablas, criterios, tabla_gossiping, cruces>>

\* Faulty variant: the mutex is kept.
SoltarNunca(quien) ==
  /\ Vivo
  /\ mutexTablaGossiping = quien /\ UNCHANGED mutexTablaGossiping
  /\ UNCHANGED <<guion, fin, colaNuevos, colaListos, semaforoExecLibre, nuevos, listos,
                 ej, tablas, criterios, cruces>>

Soltar(quien) ==
  /\ Vivo
  /\ mutexTablaGossiping = quien /\ mutexTablaGossiping' = Nadie
  /\ UNCHANGED <<guion, fin, colaNuevos, colaListos, semaforoExecLibre, nuevos, listos,
                 ej, tablas, criterios, cruces>>

\* enviarJournal holds mutexTablaGossiping until every memory has answered.
JournalEnviar ==
  /\ tabla_gossiping # Nulo
  /\ Tomar("consola")

JournalRecibir == Soltar("consola") /\ UNCHANGED tabla_gossiping

-----------------------------------------------------------------------------
(* procesoGossiping.                                                       *)

GossipTomar == tabla_gossiping # Nulo /\ Tomar("gossip")

\* recibirTablaGossiping: a table, which has the memory that sends it, or NULL
\* when the connection broke.
GossipRecibir ==
  /\ Soltar("gossip")
  /\ tabla_gossiping' \in ((SUBSET Memorias) \ {{}}) \cup {Nulo}

\* The first memory cannot be reached: the one of the configuration goes.
GossipQuitar ==
  /\ Vivo
  /\ mutexTablaGossiping = Nadie /\ tabla_gossiping # Nulo
  /\ Cardinality(tabla_gossiping) > 1
  /\ tabla_gossiping' = tabla_gossiping \ {Principal}
  /\ UNCHANGED <<guion, fin, colaNuevos, colaListos, semaforoExecLibre, nuevos, listos,
                 ej, tablas, criterios, mutexTablaGossiping, cruces>>

\* list_get, or list_size, of NULL.
MorirSinTabla ==
  /\ caida = "no" /\ caida' = "sinTablaGossiping"
  /\ tabla_gossiping = Nulo
  /\ UNCHANGED <<guion, fin, colaNuevos, colaListos, semaforoExecLibre, nuevos, listos,
                 ej, tablas, criterios, gossip, cruces>>

-----------------------------------------------------------------------------
(* queue_listo.                                                            *)

\* Those that are between looking for the last node and linking theirs.
Enlazando ==
  {e \in Ejecutores : ej[e].pc = "enlazar"} \cup
  (IF nuevos.pc = "enlazar" THEN {"nuevos"} ELSE {})

\* An operation that starts while a push is half way meets it.
Cruzar(quien) == cruces' = cruces \cup {{x, quien} : x \in Enlazando \ {quien}}

\* list_add, first half: the last node, by its index; Nulo in an empty list.
HayUltimo == cuenta \in 0..Len(queue_listo)
UltimoNodo == IF cuenta = 0 THEN Nulo ELSE queue_listo[cuenta]

\* The nodes up to that one.
Hasta(nodo) ==
  SubSeq(queue_listo, 1, CHOOSE i \in DOMAIN queue_listo : queue_listo[i] = nodo)

\* list_add, second half: what was linked after that node meanwhile is lost,
\* and the script itself is if the node was popped.
ColaTrasEnlazar(ultimo, s) ==
  IF ultimo = Nulo THEN <<s>>
  ELSE IF Contains(queue_listo, ultimo)
       THEN Append(Hasta(ultimo), s)
       ELSE queue_listo

\* elements_count is changed with no lock: of two that meet one may be lost.
CuentaTrasEnlazar(quien) ==
  IF quien \in UNION cruces THEN {cuenta, cuenta + 1, cuenta + 2} ELSE {cuenta + 1}

\* Faulty variant: a script with nothing left goes back too.
VuelveSiempre(e) == ej[e].pc = "tomar" /\ ej[e].quantum = 0

Vuelve(e) == ej[e].pc = "tomar" /\ ej[e].quantum = 0 /\ guion[ej[e].s] # <<>>

\* queue_push(queue_listo, s), its two halves.
BuscarUltimo(quien) ==
  /\ HayUltimo
  /\ Cruzar(quien)

\* Faulty variant: elements_count is not added to.
EnlazarSinContar(quien, ultimo, s) ==
  /\ queue_listo' = ColaTrasEnlazar(ultimo, s)
  /\ semaforoListo' = semaforoListo + 1
  /\ UNCHANGED cuenta

Enlazar(quien, ultimo, s) ==
  /\ queue_listo' = ColaTrasEnlazar(ultimo, s)
  /\ cuenta' \in CuentaTrasEnlazar(quien)
  /\ semaforoListo' = semaforoListo + 1

\* The list says that it has more nodes than it has, and list_add goes past
\* the end.
MorirAlEncolar ==
  /\ caida = "no" /\ caida' = "cuentaDeMas"
  /\ ~HayUltimo
  /\ nuevos.pc = "crear" \/ \E e \in Ejecutores : Vuelve(e)
  /\ UNCHANGED <<guion, fin, colaNuevos, colaListos, semaforoExecLibre, nuevos, listos,
                 ej, tablas, criterios, gossip, cruces>>

-----------------------------------------------------------------------------
(* atenderNuevos and atenderListos.                                        *)

\* sem_wait of semaforoNuevo and mutexNuevo, queue_pop.
SacarNuevo ==
  /\ Vivo
  /\ nuevos.pc = "esperar" /\ semaforoNuevo > 0 /\ ~mutexNuevo
  /\ semaforoNuevo' = semaforoNuevo - 1 /\ mutexNuevo' = TRUE
  /\ queue_nuevo' = Tail(queue_nuevo)
  /\ nuevos' = [pc |-> "crear", s |-> Head(queue_nuevo), ultimo |-> Nulo]
  /\ UNCHANGED <<guion, fin, colaListos, semaforoExecLibre, listos, ej, tablas,
                 criterios, gossip, cruces>>

\* crearEstructura: the queue of requests is made and pushed.
CrearEstructura ==
  /\ Vivo
  /\ nuevos.pc = "crear"
  /\ BuscarUltimo("nuevos")
  /\ nuevos' = [nuevos EXCEPT !.pc = "enlazar", !.ultimo = UltimoNodo]
  /\ UNCHANGED <<guion, fin, colaNuevos, colaListos, semaforoExecLibre, listos, ej,
                 tablas, criterios, gossip>>

EncolarNuevo ==
  /\ Vivo
  /\ nuevos.pc = "enlazar"
  /\ Enlazar("nuevos", nuevos.ultimo, nuevos.s)
  /\ nuevos' = [pc |-> "esperar", s |-> Nulo, ultimo |-> Nulo]
  /\ mutexNuevo' = FALSE
  /\ UNCHANGED <<guion, fin, queue_nuevo, semaforoNuevo, semaforoExecLibre, listos, ej,
                 tablas, criterios, gossip, cruces>>

EsperarListo ==
  /\ Vivo
  /\ listos = "esperarListo" /\ semaforoListo > 0
  /\ semaforoListo' = semaforoListo - 1
  /\ listos' = "esperarExec"
  /\ UNCHANGED <<guion, fin, colaNuevos, queue_listo, cuenta, semaforoExecLibre, nuevos,
                 ej, tablas, criterios, gossip, cruces>>

EsperarExec ==
  /\ Vivo
  /\ listos = "esperarExec" /\ semaforoExecLibre > 0
  /\ semaforoExecLibre' = semaforoExecLibre - 1
  /\ listos' = "lanzar"
  /\ UNCHANGED <<guion, fin, colaNuevos, colaListos, nuevos, ej, tablas, criterios,
                 gossip, cruces>>

\* Faulty variant: the script is not taken out.
LanzarSinSacar(e) ==
  /\ Vivo
  /\ listos = "lanzar" /\ queue_listo # <<>>
  /\ ej[e].pc = "libre"
  /\ ej' = [ej EXCEPT ![e] = [Libre EXCEPT !.pc = "tomar", !.s = Head(queue_listo),
                                           !.quantum = Quantum]]
  /\ listos' = "esperarListo"
  /\ UNCHANGED <<guion, fin, colaNuevos, colaListos, semaforoExecLibre, nuevos,
                 tablas, criterios, gossip, cruces>>

\* queue_pop and pthread_create.
Lanzar(e) ==
  /\ Vivo
  /\ listos = "lanzar" /\ queue_listo # <<>>
  /\ ej[e].pc = "libre"
  /\ ej' = [ej EXCEPT ![e] = [Libre EXCEPT !.pc = "tomar", !.s = Head(queue_listo),
                                           !.quantum = Quantum]]
  /\ queue_listo' = Tail(queue_listo) /\ cuenta' = cuenta - 1
  /\ listos' = "esperarListo"
  /\ Cruzar("listos")
  /\ UNCHANGED <<guion, fin, colaNuevos, semaforoListo, semaforoExecLibre, nuevos,
                 tablas, criterios, gossip>>

\* queue_pop of a list with no node.
MorirAlSacar ==
  /\ caida = "no" /\ caida' = "sacarDeVacia"
  /\ listos = "lanzar" /\ queue_listo = <<>>
  /\ UNCHANGED <<guion, fin, colaNuevos, colaListos, semaforoExecLibre, nuevos, listos,
                 ej, tablas, criterios, gossip, cruces>>

-----------------------------------------------------------------------------
(* ejecutar.                                                               *)

EnEjecutor ==
  UNCHANGED <<colaNuevos, nuevos, listos, gossip, criterio_SC, criterio_EC>>

\* The next request leaves the script's queue.  CREATE and DESCRIBE need no
\* more than a first memory in the gossip table.
TomarPedido(e) ==
  /\ Vivo
  /\ ej[e].pc = "tomar" /\ ej[e].quantum > 0
  /\ LET s == ej[e].s IN
     /\ guion[s] # <<>>
     /\ Head(guion[s]).tipo # "TABLA" => tabla_gossiping # Nulo
     /\ guion' = [guion EXCEPT ![s] = Tail(@)]
     /\ ej' = [ej EXCEPT ![e].p = Head(guion[s]),
                         ![e].pc = IF Head(guion[s]).tipo = "TABLA" THEN "buscar" ELSE "enviar"]
  /\ EnEjecutor
  /\ UNCHANGED <<fin, colaListos, semaforoExecLibre, tablas, ultimaMemoriaCriterioEC, cruces>>

\* buscarTabla, with no lock: it starts to walk metadata_tablas, ..
BuscarTabla(e) ==
  /\ Vivo
  /\ ej[e].pc = "buscar"
  /\ ej' = [ej EXCEPT ![e].pc = "buscando",
                      ![e].vista = Contains(metadata_tablas, ej[e].p.t),
                      ![e].sabida = ej[e].p.t \in conocidas,
                      ![e].refresco = IF mutexMetadata = Nadie THEN "no" ELSE "llenando"]
  /\ EnEjecutor
  /\ UNCHANGED <<guion, fin, colaListos, semaforoExecLibre, tablas,
                 ultimaMemoriaCriterioEC, cruces>>

\* .. and may have walked over nodes that were freed meanwhile.
Encuentra(e) ==
  \/ ej[e].vista
  \/ Contains(metadata_tablas, ej[e].p.t)
NoEncuentra(e) == ~ej[e].vista \/ ej[e].refresco = "limpia"

\* Faulty variant: semaforoExecLibre is not posted.
DestruirSinAvisar(e) ==
  /\ fin' = [fin EXCEPT ![ej[e].s] = "destruido"]
  /\ guion' = [guion EXCEPT ![ej[e].s] = <<>>]
  /\ ej' = [ej EXCEPT ![e] = Libre]
  /\ UNCHANGED semaforoExecLibre

\* destruirEjecucion: the script is given up and the executor is free.
DestruirEjecucion(e) ==
  /\ fin' = [fin EXCEPT ![ej[e].s] = "destruido"]
  /\ guion' = [guion EXCEPT ![ej[e].s] = <<>>]
  /\ ej' = [ej EXCEPT ![e] = Libre]
  /\ semaforoExecLibre' = semaforoExecLibre + 1

SinTabla(e) ==
  /\ Vivo
  /\ ej[e].pc = "buscando" /\ NoEncuentra(e)
  /\ DestruirEjecucion(e)
  /\ EnEjecutor
  /\ UNCHANGED <<colaListos, tablas, ultimaMemoriaCriterioEC, cruces>>

Encontrada(e, consistencia) ==
  ej[e].pc = "buscando" /\ Encuentra(e) /\ consistencia \in Consistencia[ej[e].p.t]

\* obtenerMemoria, once it has the id of a memory (Nulo: none): buscarMemoria
\* under mutexTablaGossiping.
UsarMemoria(e, m) ==
  /\ mutexTablaGossiping = Nadie /\ tabla_gossiping # Nulo
  /\ IF m \in tabla_gossiping
     THEN /\ ej' = [ej EXCEPT ![e].pc = "enviar"]
          /\ UNCHANGED <<guion, fin, semaforoExecLibre>>
     ELSE DestruirEjecucion(e)

ElegirSC(e) ==
  /\ Vivo
  /\ Encontrada(e, "SC")
  /\ UsarMemoria(e, IF criterio_SC = <<>> THEN Nulo ELSE criterio_SC[1])
  /\ EnEjecutor
  /\ UNCHANGED <<colaListos, tablas, ultimaMemoriaCriterioEC, cruces>>

\* rand until the index, which the code keeps instead of the memory's id, is
\* not that of the last time: with one entry the executor stays here.
ElegirEC(e) ==
  /\ Vivo
  /\ Encontrada(e, "EC")
  /\ \E n \in DOMAIN criterio_EC \ {ultimaMemoriaCriterioEC} :
       UsarMemoria(e, criterio_EC[n]) /\ ultimaMemoriaCriterioEC' = n
  /\ EnEjecutor
  /\ UNCHANGED <<colaListos, tablas, cruces>>

\* Nobody sets memoriaObtenida: NULL, or some memory it pointed to before.
ElegirSHC(e) ==
  /\ Vivo
  /\ Encontrada(e, "SHC")
  /\ \/ DestruirEjecucion(e)
     \/ ej' = [ej EXCEPT ![e].pc = "enviar"] /\ UNCHANGED <<guion, fin, semaforoExecLibre>>
  /\ EnEjecutor
  /\ UNCHANGED <<colaListos, tablas, ultimaMemoriaCriterioEC, cruces>>

\* rand() % list_size(criterio_EC), of an empty list.
MorirSinMemoriasEC ==
  /\ caida = "no" /\ caida' = "sinMemoriasEC"
  /\ criterio_EC = <<>>
  /\ \E e \in Ejecutores : Encontrada(e, "EC")
  /\ UNCHANGED <<guion, fin, colaNuevos, colaListos, semaforoExecLibre, nuevos, listos,
                 ej, tablas, criterios, gossip, cruces>>

\* A freed node, a pointer never set, an answer to DESCRIBE that broke half way.
MorirEjecutando ==
  /\ caida = "no"
  /\ \E e \in Ejecutores :
       \/ ej[e].pc = "buscando" /\ ej[e].refresco = "limpia" /\ caida' = "nodoLiberado"
       \/ Encontrada(e, "SHC") /\ caida' = "memoriaSinValor"
       \/ ej[e].pc \in {"enviar", "llenar"} /\ ej[e].p.tipo \in {"DESCRIBE", "DESCRIBE_TODAS"}
          /\ caida' = "describeRoto"
  /\ UNCHANGED <<guion, fin, colaNuevos, colaListos, semaforoExecLibre, nuevos, listos,
                 ej, tablas, criterios, gossip, cruces>>

Atendido(e) == [ej[e] EXCEPT !.pc = "tomar", !.quantum = @ - 1, !.p = Nulo,
                             !.vista = FALSE, !.refresco = "no", !.sabida = FALSE]

\* The request is sent and answered; so is a DESCRIBE that brings nothing.
Responder(e) ==
  /\ Vivo
  /\ ej[e].pc = "enviar"
  /\ ej' = [ej EXCEPT ![e] = Atendido(e)]
  /\ EnEjecutor
  /\ UNCHANGED <<guion, fin, colaListos, semaforoExecLibre, tablas,
                 ultimaMemoriaCriterioEC, cruces>>

\* Faulty variants: the table is added again; it replaces the others.
AgregarTablaSiempre(t) == Append(metadata_tablas, t)
AgregarTablaSola(t) == <<t>>

\* recibirMetadata of one table: it is added if it is not known.
AgregarTabla(t) ==
  IF Contains(metadata_tablas, t) THEN metadata_tablas ELSE Append(metadata_tablas, t)

DescribeUna(e) ==
  /\ Vivo
  /\ ej[e].pc = "enviar" /\ ej[e].p.tipo = "DESCRIBE" /\ Contains(EnFS, ej[e].p.t)
  /\ mutexMetadata = Nadie
  /\ metadata_tablas' = AgregarTabla(ej[e].p.t)
  /\ conocidas' = conocidas \cup {ej[e].p.t}
  /\ ej' = [ej EXCEPT ![e] = Atendido(e)]
  /\ EnEjecutor
  /\ UNCHANGED <<guion, fin, colaListos, semaforoExecLibre, mutexMetadata,
                 ultimaMemoriaCriterioEC, cruces>>

\* recibirMetadata of all: the list is emptied, whoever walks it, ..
DescribeTodas(e) ==
  /\ Vivo
  /\ ej[e].pc = "enviar" /\ ej[e].p.tipo = "DESCRIBE_TODAS"
  /\ mutexMetadata = Nadie /\ mutexMetadata' = e
  /\ metadata_tablas' = <<>>
  /\ ej' = [x \in Ejecutores |->
              IF x = e THEN [ej[e] EXCEPT !.pc = "llenar", !.faltan = Len(EnFS)]
              ELSE IF ej[x].pc = "buscando" THEN [ej[x] EXCEPT !.refresco = "limpia"]
              ELSE ej[x]]
  /\ EnEjecutor
  /\ UNCHANGED <<guion, fin, colaListos, semaforoExecLibre, conocidas,
                 ultimaMemoriaCriterioEC, cruces>>

\* .. filled again with what arrives, which is not looked for in it, ..
Llenar(e) ==
  /\ Vivo
  /\ ej[e].pc = "llenar" /\ ej[e].faltan > 0
  /\ metadata_tablas' = Append(metadata_tablas, EnFS[Len(EnFS) + 1 - ej[e].faltan])
  /\ ej' = [ej EXCEPT ![e].faltan = @ - 1]
  /\ EnEjecutor
  /\ UNCHANGED <<guion, fin, colaListos, semaforoExecLibre, mutexMetadata, conocidas,
                 ultimaMemoriaCriterioEC, cruces>>

\* .. and the mutex is released.
Llena(e) ==
  /\ Vivo
  /\ ej[e].pc = "llenar" /\ ej[e].faltan = 0
  /\ mutexMetadata' = Nadie
  /\ conocidas' = ToSet(EnFS)
  /\ ej' = [ej EXCEPT ![e] = Atendido(e)]
  /\ EnEjecutor
  /\ UNCHANGED <<guion, fin, colaListos, semaforoExecLibre, metadata_tablas,
                 ultimaMemoriaCriterioEC, cruces>>

\* No request is left, and the executor is free.
Terminar(e) ==
  /\ Vivo
  /\ ej[e].pc = "tomar" /\ guion[ej[e].s] = <<>>
  /\ fin' = [fin EXCEPT ![ej[e].s] = "terminado"]
  /\ ej' = [ej EXCEPT ![e] = Libre]
  /\ semaforoExecLibre' = semaforoExecLibre + 1
  /\ EnEjecutor
  /\ UNCHANGED <<guion, colaListos, tablas, ultimaMemoriaCriterioEC, cruces>>

\* The quantum is over and something is left: the script goes back ..
Devolver(e) ==
  /\ Vivo
  /\ Vuelve(e)
  /\ BuscarUltimo(e)
  /\ ej' = [ej EXCEPT ![e].pc = "enlazar", ![e].ultimo = UltimoNodo]
  /\ EnEjecutor
  /\ UNCHANGED <<guion, fin, colaListos, semaforoExecLibre, tablas, ultimaMemoriaCriterioEC>>

\* .. and only then is the executor free.
EncolarDeNuevo(e) ==
  /\ Vivo
  /\ ej[e].pc = "enlazar"
  /\ Enlazar(e, ej[e].ultimo, ej[e].s)
  /\ ej' = [ej EXCEPT ![e] = Libre]
  /\ semaforoExecLibre' = semaforoExecLibre + 1
  /\ EnEjecutor
  /\ UNCHANGED <<guion, fin, tablas, ultimaMemoriaCriterioEC, cruces>>

-----------------------------------------------------------------------------
Consola ==
  \/ \E s \in Guiones : Ingresar(s)
  \/ \E a \in Altas : Add(a[1], a[2])
  \/ JournalEnviar

Respuestas == JournalRecibir \/ GossipRecibir

HiloGossip == GossipTomar \/ GossipQuitar

\* Nothing else is left to the thread that does it.
MuerteSegura == MorirSinTabla \/ MorirAlEncolar \/ MorirAlSacar \/ MorirSinMemoriasEC

AtenderNuevos == SacarNuevo \/ CrearEstructura \/ EncolarNuevo

AtenderListos == EsperarListo \/ EsperarExec \/ \E e \in Ejecutores : Lanzar(e)

Ejecutar(e) ==
  \/ TomarPedido(e) \/ BuscarTabla(e) \/ SinTabla(e)
  \/ ElegirSC(e) \/ ElegirEC(e) \/ ElegirSHC(e)
  \/ Responder(e) \/ DescribeUna(e) \/ DescribeTodas(e) \/ Llenar(e) \/ Llena(e)
  \/ Terminar(e) \/ Devolver(e) \/ EncolarDeNuevo(e)

Next ==
  \/ Consola \/ Respuestas \/ HiloGossip \/ MuerteSegura \/ MorirEjecutando
  \/ AtenderNuevos \/ AtenderListos
  \/ \E e \in Ejecutores : Ejecutar(e)

Spec == Init /\ [][Next]_vars

\* The threads run, memories answer, and a mutex that is taken and released
\* again and again is obtained; nothing is assumed of the console or of what
\* the gossip thread receives.
Equidad ==
  /\ WF_vars(Respuestas) /\ WF_vars(MuerteSegura)
  /\ WF_vars(AtenderNuevos) /\ WF_vars(AtenderListos)
  /\ \A e \in Ejecutores : SF_vars(Ejecutar(e))

SpecEquitativa == Spec /\ Equidad
=============================================================================
