------------------------------- MODULE Gossip -------------------------------
(***************************************************************************)
(* The gossip tables of the memories and of the kernel.                    *)
(*                                                                         *)
(* A memory starts with itself in tabla_gossiping.  Its gossip thread goes *)
(* round the seeds of its configuration: the seed sends its table, the     *)
(* memory adds what it did not have to its own, and sends that back; the   *)
(* seed throws its table away for it.  The seed holds mutexTablaGossiping  *)
(* from before it sends until it has received; the memory takes its own    *)
(* between receiving and sending.  A seed that cannot be reached leaves    *)
(* the table.  The kernel asks the first memory of its table for hers.     *)
(*                                                                         *)
(* A process may be killed at any step, and started again.  The end of a   *)
(* connection reads as a table that is NULL, whose size nobody can take:   *)
(* a memory that waits for a table dies with the one that was to send it.  *)
(***************************************************************************)
EXTENDS Integers, SequencesExt, FiniteSets

CONSTANTS
  Memorias,
  Configuraciones, \* the IP_SEEDS and PUERTO_SEEDS there may be
  Principal,       \* the memory of the kernel's configuration
  MaxCaidas,       \* bound: memories that are killed
  Nulo, Nadie

ASSUME MemoriasFinitas == IsFiniteSet(Memorias) /\ Principal \in Memorias
ASSUME SemillasValidas == Configuraciones \subseteq [Memorias -> Seq(Memorias)]
ASSUME MaxCaidasValido == MaxCaidas \in Nat
ASSUME NulosDistintos == Nulo \notin Memorias \cup Seq(Memorias) /\ Nadie \notin Memorias

VARIABLES
  semillas,        \* memory -> ip_seeds
  viva,
  tabla_gossiping,
  mutexTablaGossiping, \* memory -> whose exchange holds it
  cliente,         \* memory -> its gossip thread: pc, indice, the seed it is
                   \* connected to and the table it received
  espera,          \* memory -> those whose table its attention threads wait for
  envio,           \* the tables on their way to them
  huerfano,        \* memory -> an attention thread whose client died
  kernel,          \* its gossip thread: pc, connection; and its table
  caidas

servidor == <<mutexTablaGossiping, espera, envio, huerfano>>
vars == <<semillas, viva, tabla_gossiping, servidor, cliente, kernel, caidas>>

-----------------------------------------------------------------------------
\* ip_seeds ends in NULL: the position after the last seed ends a round.
Posiciones(m) == 1..(Len(semillas[m]) + 1)

ProcesoGossiping(indice) ==
  [pc |-> "seguir", indice |-> indice, con |-> Nulo, recibida |-> Nulo]

\* indice is not initialised: the first round may start at any position.
Comienzos(m) == {ProcesoGossiping(i) : i \in Posiciones(m)}

Init ==
  /\ semillas \in Configuraciones
  /\ viva = [m \in Memorias |-> TRUE]
  /\ tabla_gossiping = [m \in Memorias |-> <<m>>]
  /\ mutexTablaGossiping = [m \in Memorias |-> Nadie]
  /\ espera = [m \in Memorias |-> {}]
  /\ envio = {}
  /\ huerfano = [m \in Memorias |-> FALSE]
  /\ cliente \in [Memorias -> UNION {Comienzos(m) : m \in Memorias}]
  /\ \A m \in Memorias : cliente[m] \in Comienzos(m)
  /\ kernel = [pc |-> "seguir", con |-> Nulo, tabla |-> <<Principal>>]
  /\ caidas = 0

-----------------------------------------------------------------------------
(* The client: procesoGossiping of a memory.                               *)

EnRonda(c) == cliente[c].indice <= Len(semillas[c])
Semilla(c) == semillas[c][cliente[c].indice]
Siguiente(c) == ProcesoGossiping(cliente[c].indice + 1)

\* conectarseA and iniciarGossiping.
Conectar(c) ==
  /\ viva[c] /\ cliente[c].pc = "seguir" /\ EnRonda(c)
  /\ viva[Semilla(c)]
  /\ cliente' = [cliente EXCEPT ![c].pc = "pedida", ![c].con = Semilla(c)]
  /\ UNCHANGED <<semillas, viva, tabla_gossiping, servidor, kernel, caidas>>

NoConectar(c) ==
  /\ viva[c] /\ cliente[c].pc = "seguir" /\ EnRonda(c)
  /\ ~viva[Semilla(c)]
  /\ cliente' = [cliente EXCEPT ![c].pc = "quitar"]
  /\ UNCHANGED <<semillas, viva, tabla_gossiping, servidor, kernel, caidas>>

\* eliminarMemoria of the seed, under the mutex.
EliminarMemoria(c) ==
  /\ viva[c] /\ cliente[c].pc = "quitar"
  /\ mutexTablaGossiping[c] = Nadie
  /\ tabla_gossiping' = [tabla_gossiping EXCEPT ![c] = RemoveFirst(@, Semilla(c))]
  /\ cliente' = [cliente EXCEPT ![c] = Siguiente(c)]
  /\ UNCHANGED <<semillas, viva, servidor, kernel, caidas>>

\* Faulty variant: what is received replaces.
UnionSinLaPropia(original, agregada) == agregada

AgregarSiFalta(lista, m) == IF Contains(lista, m) THEN lista ELSE Append(lista, m)

ObtenerUnion(original, agregada) ==
  LET lista[i \in 0..Len(agregada)] ==
        IF i = 0 THEN original ELSE AgregarSiFalta(lista[i - 1], agregada[i])
  IN lista[Len(agregada)]

\* obtenerUnion and enviarTablaGossiping, under the mutex; what is sent goes
\* nowhere if the seed has died.
Unir(c) ==
  /\ viva[c] /\ cliente[c].pc = "unir"
  /\ mutexTablaGossiping[c] = Nadie
  /\ LET propia == ObtenerUnion(tabla_gossiping[c], cliente[c].recibida) IN
     /\ tabla_gossiping' = [tabla_gossiping EXCEPT ![c] = propia]
     /\ envio' = envio \cup
          {[de |-> c, a |-> n, tabla |-> propia] : n \in {cliente[c].con} \ {Nulo}}
  /\ cliente' = [cliente EXCEPT ![c] = Siguiente(c)]
  /\ UNCHANGED <<semillas, viva, mutexTablaGossiping, espera, huerfano, kernel, caidas>>

\* Faulty variant: indice stays past the last seed.
RondaSinVolver(c) ==
  /\ viva[c] /\ cliente[c].pc = "seguir" /\ ~EnRonda(c)
  /\ UNCHANGED vars

\* The end of a round: indice goes back to the first seed.
Ronda(c) ==
  /\ viva[c] /\ cliente[c].pc = "seguir" /\ ~EnRonda(c)
  /\ cliente' = [cliente EXCEPT ![c] = ProcesoGossiping(1)]
  /\ UNCHANGED <<semillas, viva, tabla_gossiping, servidor, kernel, caidas>>

-----------------------------------------------------------------------------
(* The server: atenderRequest of a memory, for another and for the kernel. *)

\* Faulty variant: the mutex is not held while the client's table is waited for.
ServirSinTomar(n, c) ==
  /\ viva[n] /\ mutexTablaGossiping[n] = Nadie
  /\ cliente[c].pc = "pedida" /\ cliente[c].con = n
  /\ espera' = [espera EXCEPT ![n] = @ \cup {c}]
  /\ cliente' = [cliente EXCEPT ![c].pc = "unir", ![c].recibida = tabla_gossiping[n]]
  /\ UNCHANGED <<semillas, viva, tabla_gossiping, mutexTablaGossiping, envio, huerfano,
                 kernel, caidas>>

\* GOSSIPING: the mutex is taken and the table sent.
Servir(n, c) ==
  /\ viva[n] /\ mutexTablaGossiping[n] = Nadie
  /\ cliente[c].pc = "pedida" /\ cliente[c].con = n
  /\ mutexTablaGossiping' = [mutexTablaGossiping EXCEPT ![n] = c]
  /\ espera' = [espera EXCEPT ![n] = @ \cup {c}]
  /\ cliente' = [cliente EXCEPT ![c].pc = "unir", ![c].recibida = tabla_gossiping[n]]
  /\ UNCHANGED <<semillas, viva, tabla_gossiping, envio, huerfano, kernel, caidas>>

\* Faulty variant: the mutex is kept.
ReemplazarSinSoltar(n, e) ==
  /\ viva[n] /\ e.a = n
  /\ tabla_gossiping' = [tabla_gossiping EXCEPT ![n] = IF e.tabla = <<>> THEN @ ELSE e.tabla]
  /\ espera' = [espera EXCEPT ![n] = @ \ {e.de}]
  /\ envio' = envio \ {e}
  /\ UNCHANGED <<semillas, viva, mutexTablaGossiping, huerfano, cliente, kernel, caidas>>

\* The client's table arrives and takes the place of its own.
Reemplazar(n, e) ==
  /\ viva[n] /\ e.a = n
  /\ tabla_gossiping' = [tabla_gossiping EXCEPT ![n] = IF e.tabla = <<>> THEN @ ELSE e.tabla]
  /\ mutexTablaGossiping' = [mutexTablaGossiping EXCEPT ![n] = Nadie]
  /\ espera' = [espera EXCEPT ![n] = @ \ {e.de}]
  /\ envio' = envio \ {e}
  /\ UNCHANGED <<semillas, viva, huerfano, cliente, kernel, caidas>>

\* GOSSIPING_KERNEL: the table is sent under the mutex, and is the kernel's.
ServirKernel(n) ==
  /\ viva[n] /\ mutexTablaGossiping[n] = Nadie
  /\ kernel.pc = "pedida" /\ kernel.con = n
  /\ kernel' = [pc |-> "seguir", con |-> Nulo, tabla |-> tabla_gossiping[n]]
  /\ UNCHANGED <<semillas, viva, tabla_gossiping, servidor, cliente, caidas>>

-----------------------------------------------------------------------------
(* The kernel's procesoGossiping.                                          *)

KernelConectar ==
  /\ kernel.pc = "seguir"
  /\ viva[Head(kernel.tabla)]
  /\ kernel' = [kernel EXCEPT !.pc = "pedida", !.con = Head(kernel.tabla)]
  /\ UNCHANGED <<semillas, viva, tabla_gossiping, servidor, cliente, caidas>>

KernelNoConectar ==
  /\ kernel.pc = "seguir"
  /\ ~viva[Head(kernel.tabla)]
  /\ kernel' = [kernel EXCEPT !.pc = "quitar"]
  /\ UNCHANGED <<semillas, viva, tabla_gossiping, servidor, cliente, caidas>>

\* Faulty variant: the only memory may go too.
KernelEliminarSiempre ==
  /\ kernel.pc = "quitar"
  /\ kernel' = [kernel EXCEPT !.pc = "seguir", !.tabla = RemoveFirst(@, Principal)]
  /\ UNCHANGED <<semillas, viva, tabla_gossiping, servidor, cliente, caidas>>

\* Not the memory that did not answer, but that of the configuration.
KernelEliminar ==
  /\ kernel.pc = "quitar"
  /\ kernel' = [kernel EXCEPT !.pc = "seguir",
                              !.tabla = IF Len(@) > 1 THEN RemoveFirst(@, Principal) ELSE @]
  /\ UNCHANGED <<semillas, viva, tabla_gossiping, servidor, cliente, caidas>>

\* The connection broke: list_get of NULL at the next round.
KernelMorir ==
  /\ kernel.pc = "cortada"
  /\ kernel' = [kernel EXCEPT !.pc = "muerto", !.con = Nulo]
  /\ UNCHANGED <<semillas, viva, tabla_gossiping, servidor, cliente, caidas>>

-----------------------------------------------------------------------------
(* Death and restart of a memory.                                          *)

Enviada(c, n) == \E e \in envio : e.de = c /\ e.a = n

\* Those of n that wait for c's table, or will once they have the mutex.
QuedaHuerfano(n, c) ==
  \/ c \in espera[n] /\ ~Enviada(c, n)
  \/ cliente[c].pc = "pedida" /\ cliente[c].con = n

\* What a client finds of the seed it was connected to.
TrasCorte(c) ==
  IF cliente[c].pc = "pedida" THEN [cliente[c] EXCEPT !.pc = "cortada", !.con = Nulo]
  ELSE [cliente[c] EXCEPT !.con = Nulo]

Muere(m) ==
  /\ viva[m]
  /\ viva' = [viva EXCEPT ![m] = FALSE]
  /\ tabla_gossiping' = [tabla_gossiping EXCEPT ![m] = <<>>]
  /\ mutexTablaGossiping' = [mutexTablaGossiping EXCEPT ![m] = Nadie]
  /\ espera' = [n \in Memorias |->
       IF n = m THEN {} ELSE IF Enviada(m, n) THEN espera[n] ELSE espera[n] \ {m}]
  /\ envio' = {e \in envio : e.a # m}
  /\ huerfano' = [n \in Memorias |-> n # m /\ (huerfano[n] \/ QuedaHuerfano(n, m))]
  /\ cliente' = [c \in Memorias |->
       IF c = m THEN ProcesoGossiping(1)
       ELSE IF cliente[c].con = m THEN TrasCorte(c) ELSE cliente[c]]
  /\ kernel' = IF kernel.con = m THEN [kernel EXCEPT !.pc = "cortada", !.con = Nulo]
               ELSE kernel
  /\ UNCHANGED semillas

Apagar(m) ==
  /\ caidas < MaxCaidas /\ caidas' = caidas + 1
  /\ Muere(m)

\* list_size of NULL: the gossip thread's seed died, or the client of an
\* attention thread, which finds out once it has the mutex and has sent.
MorirSinTabla(m) ==
  /\ \/ cliente[m].pc = "cortada"
     \/ huerfano[m] /\ (mutexTablaGossiping[m] = Nadie \/ espera[m] = {})
  /\ Muere(m)
  /\ UNCHANGED caidas

Reiniciar(m) ==
  /\ ~viva[m]
  /\ viva' = [viva EXCEPT ![m] = TRUE]
  /\ tabla_gossiping' = [tabla_gossiping EXCEPT ![m] = <<m>>]
  /\ \E p \in Comienzos(m) : cliente' = [cliente EXCEPT ![m] = p]
  /\ UNCHANGED <<semillas, servidor, kernel, caidas>>

-----------------------------------------------------------------------------
Cliente(c) ==
  Conectar(c) \/ NoConectar(c) \/ EliminarMemoria(c) \/ Unir(c) \/ Ronda(c)

Atender(n) ==
  \/ \E c \in Memorias : Servir(n, c)
  \/ \E e \in envio : Reemplazar(n, e)
  \/ ServirKernel(n)

Kernel == KernelConectar \/ KernelNoConectar \/ KernelEliminar \/ KernelMorir

Next ==
  \/ \E m \in Memorias :
       Cliente(m) \/ Atender(m) \/ Apagar(m) \/ MorirSinTabla(m) \/ Reiniciar(m)
  \/ Kernel

Spec == Init /\ [][Next]_vars

\* The threads run, and a mutex that is free again and again is obtained by
\* each that wants it; nothing is assumed of kills and restarts.
Equidad ==
  /\ \A m \in Memorias :
       /\ SF_vars(Cliente(m))
       /\ SF_vars(\E n \in Memorias : Servir(n, m))
       /\ WF_vars(\E e \in envio : Reemplazar(m, e))
       /\ WF_vars(MorirSinTabla(m))
  /\ SF_vars(\E n \in Memorias : ServirKernel(n))
  /\ WF_vars(Kernel)

SpecEquitativa == Spec /\ Equidad
=============================================================================
