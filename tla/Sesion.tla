------------------------------- MODULE Sesion -------------------------------
(***************************************************************************)
(* The executors of the kernel and the attention threads of a memory, over *)
(* the connections between them: one for the requests in a row that a turn *)
(* of a script makes to the same memory.                                   *)
(*                                                                         *)
(* An executor sends a request and takes the next answer for its own.      *)
(* After FULL_R it sends JOURNAL, and while what it reads is JOURNAL_R it  *)
(* sends the request again.  But the memory answers that JOURNAL twice, at *)
(* the end of its loop and at the head: from then on there is always one   *)
(* answer more on the way than requests waiting for one.                   *)
(*                                                                         *)
(* The memory itself (module Memoria) is reduced to whether it is full of  *)
(* modified pages, and the flag and the mutex that hold requests back.     *)
(***************************************************************************)
EXTENDS Integers, SequencesExt, FiniteSets

CONSTANTS
  Conexiones,    \* an executor and an attention thread each
  Largo,         \* requests on each
  MaxLlenas,     \* bound: FULL_R answered
  Nulo

ASSUME ConexionesFinitas == IsFiniteSet(Conexiones)
ASSUME LargoValido == Largo \in [Conexiones -> Nat \ {0}]
ASSUME MaxLlenasValido == MaxLlenas \in Nat
ASSUME NuloValido == Nulo \notin Int

VARIABLES
  ejecutor,      \* executor: pc, the request it is at, sends on a dead connection
  alMemoria,     \* requests on their way, by their number; 0 is JOURNAL
  alKernel,      \* answers on their way
  atencion,      \* attention thread: pc, where it goes once it has answered,
                 \* request, response, sends on a closed connection
  periodico,     \* pc of procesoJournal
  conexion,      \* "abierta", "cerrada" by the kernel, "cortada" by a death
  llena, flagFullEnviado,
  mutexMemoriaLlena, \* locked?
  caida,         \* "no", or who died of what
  hechos,        \* read by the properties only: times a request was executed,
  tomada,        \* the answer taken for it,
  llenas,        \* the FULL_R and
  journals       \* the JOURNALs of a connection

estado == <<llena, flagFullEnviado, mutexMemoriaLlena>>
red == <<alMemoria, alKernel>>
historia == <<hechos, tomada, llenas, journals>>
vars == <<ejecutor, red, atencion, periodico, conexion, estado, caida, historia>>

JOURNAL == 0
Pedidos(h) == 1..Largo[h]

KernelVivo == caida # "kernelSIGPIPE"
MemoriaViva == caida = "no"

\* An attention thread that has done nothing, or is no more.
Ausente == [pc |-> "inicio", luego |-> "otro", p |-> Nulo, r |-> Nulo, tras |-> 0]

Init ==
  /\ ejecutor = [h \in Conexiones |-> [pc |-> "enviar", i |-> 1, tras |-> 0]]
  /\ alMemoria = [h \in Conexiones |-> <<>>] /\ alKernel = [h \in Conexiones |-> <<>>]
  /\ atencion = [h \in Conexiones |-> Ausente]
  /\ conexion = [h \in Conexiones |-> "abierta"] /\ periodico = "vaciar"
  /\ llena \in BOOLEAN /\ flagFullEnviado = FALSE /\ mutexMemoriaLlena = TRUE
  /\ caida = "no"
  /\ hechos = [h \in Conexiones |-> [i \in Pedidos(h) |-> 0]]
  /\ tomada = [h \in Conexiones |-> [i \in Pedidos(h) |-> Nulo]]
  /\ llenas = [h \in Conexiones |-> 0] /\ journals = [h \in Conexiones |-> 0]

-----------------------------------------------------------------------------
(* ejecutar.                                                               *)

\* Faulty variant: the last request is not waited for.
EnviarSinEsperar(h) ==
  /\ KernelVivo /\ conexion[h] = "abierta"
  /\ ejecutor[h].pc = "enviar"
  /\ alMemoria' = [alMemoria EXCEPT ![h] = Append(@, ejecutor[h].i)]
  /\ ejecutor' = [ejecutor EXCEPT
       ![h].pc = IF ejecutor[h].i = Largo[h] THEN "cerrar" ELSE "recibir"]
  /\ UNCHANGED <<alKernel, atencion, periodico, conexion, estado, caida, historia>>

Enviar(h) ==
  /\ KernelVivo /\ conexion[h] = "abierta"
  /\ ejecutor[h].pc = "enviar"
  /\ alMemoria' = [alMemoria EXCEPT ![h] = Append(@, ejecutor[h].i)]
  /\ ejecutor' = [ejecutor EXCEPT ![h].pc = "recibir"]
  /\ UNCHANGED <<alKernel, atencion, periodico, conexion, estado, caida, historia>>

EnviarJournal(h) ==
  /\ KernelVivo /\ conexion[h] = "abierta"
  /\ ejecutor[h].pc = "journal"
  /\ alMemoria' = [alMemoria EXCEPT ![h] = Append(@, JOURNAL)]
  /\ journals' = [journals EXCEPT ![h] = @ + 1]
  /\ ejecutor' = [ejecutor EXCEPT ![h].pc = "recibirJournal"]
  /\ UNCHANGED <<alKernel, atencion, periodico, conexion, estado, caida, hechos, tomada, llenas>>

\* The first send on a dead connection is accepted, ..
EnviarTrasCorte(h) ==
  /\ KernelVivo /\ conexion[h] = "cortada"
  /\ ejecutor[h].pc \in {"enviar", "journal"} /\ ejecutor[h].tras = 0
  /\ ejecutor' = [ejecutor EXCEPT
       ![h].pc = IF @ = "enviar" THEN "recibir" ELSE "recibirJournal", ![h].tras = 1]
  /\ UNCHANGED <<red, atencion, periodico, conexion, estado, caida, historia>>

\* .. or is a SIGPIPE, as the second one is.
MorirKernel(h) ==
  /\ KernelVivo /\ conexion[h] = "cortada"
  /\ ejecutor[h].pc \in {"enviar", "journal"}
  /\ caida' = "kernelSIGPIPE"
  /\ UNCHANGED <<ejecutor, red, atencion, periodico, conexion, estado, historia>>

\* liberarMemoriaRequest, and the next request of the turn.
Siguiente(h) ==
  LET i == ejecutor[h].i IN
  [ejecutor[h] EXCEPT !.pc = IF i = Largo[h] THEN "cerrar" ELSE "enviar", !.i = i + 1]

\* Faulty variant: the request is not sent again.
TrasRecibirSinReintento(h, header) ==
  IF header = "FULL_R" /\ ejecutor[h].pc = "recibir"
  THEN [ejecutor[h] EXCEPT !.pc = "journal"]
  ELSE Siguiente(h)

\* Faulty variant: the request is sent again whatever the answer to JOURNAL.
TrasRecibirSiempre(h, header) ==
  IF header = "FULL_R" /\ ejecutor[h].pc = "recibir"
  THEN [ejecutor[h] EXCEPT !.pc = "journal"]
  ELSE IF header = "JOURNAL_R" \/ ejecutor[h].pc = "recibirJournal"
  THEN [ejecutor[h] EXCEPT !.pc = "enviar"]
  ELSE Siguiente(h)

\* Where the executor goes after an answer with that header: it journals after
\* FULL_R, unless it had just done so, and JOURNAL_R makes it send again.
TrasRecibir(h, header) ==
  IF header = "FULL_R" /\ ejecutor[h].pc = "recibir"
  THEN [ejecutor[h] EXCEPT !.pc = "journal"]
  ELSE IF header = "JOURNAL_R" THEN [ejecutor[h] EXCEPT !.pc = "enviar"]
  ELSE Siguiente(h)

Esperando(h) == ejecutor[h].pc \in {"recibir", "recibirJournal"}

Recibir(h) ==
  /\ KernelVivo /\ conexion[h] # "cerrada"
  /\ Esperando(h) /\ alKernel[h] # <<>>
  /\ LET r == Head(alKernel[h]) IN
     /\ ejecutor' = [ejecutor EXCEPT ![h] = TrasRecibir(h, r.header)]
     /\ tomada' = IF ejecutor'[h].i = ejecutor[h].i THEN tomada
                  ELSE [tomada EXCEPT ![h][ejecutor[h].i] = r]
  /\ alKernel' = [alKernel EXCEPT ![h] = Tail(@)]
  /\ UNCHANGED <<alMemoria, atencion, periodico, conexion, estado, caida, hechos, llenas, journals>>

\* The memory died: the header is whatever was in the structure.
RecibirError(h) ==
  /\ KernelVivo /\ conexion[h] = "cortada"
  /\ Esperando(h) /\ alKernel[h] = <<>>
  /\ \E header \in {"FULL_R", "JOURNAL_R", "OK"} :
       ejecutor' = [ejecutor EXCEPT ![h] = TrasRecibir(h, header)]
  /\ UNCHANGED <<red, atencion, periodico, conexion, estado, caida, historia>>

\* The turn is over; what has not been read is thrown away.
Cerrar(h) ==
  /\ KernelVivo /\ ejecutor[h].pc = "cerrar"
  /\ ejecutor' = [ejecutor EXCEPT ![h].pc = "fin"]
  /\ conexion' = [conexion EXCEPT ![h] = IF @ = "abierta" THEN "cerrada" ELSE @]
  /\ alKernel' = [alKernel EXCEPT ![h] = <<>>]
  /\ UNCHANGED <<alMemoria, atencion, periodico, estado, caida, historia>>

-----------------------------------------------------------------------------
(* atenderRequest.                                                         *)

\* recibirRequest, before the loop.
Atender(h) ==
  /\ MemoriaViva /\ atencion[h].pc = "inicio" /\ alMemoria[h] # <<>>
  /\ atencion' = [atencion EXCEPT ![h].pc = "cabeza", ![h].p = Head(alMemoria[h])]
  /\ alMemoria' = [alMemoria EXCEPT ![h] = Tail(@)]
  /\ UNCHANGED <<ejecutor, alKernel, periodico, conexion, estado, caida, historia>>

\* if(flagFullEnviado), at the head of the loop.
Compuerta(h) ==
  /\ MemoriaViva /\ atencion[h].pc = "cabeza"
  /\ atencion' = [atencion EXCEPT ![h].pc = IF flagFullEnviado THEN "espera" ELSE "procesar"]
  /\ UNCHANGED <<ejecutor, red, periodico, conexion, estado, caida, historia>>

Entrar(h) ==
  /\ MemoriaViva /\ atencion[h].pc = "espera" /\ ~mutexMemoriaLlena
  /\ mutexMemoriaLlena' = TRUE /\ flagFullEnviado' = FALSE
  /\ atencion' = [atencion EXCEPT ![h].pc = "procesar"]
  /\ UNCHANGED <<ejecutor, red, periodico, conexion, llena, caida, historia>>

\* procesarRequest of a request: FULL_R, or done.
Procesar(h) ==
  /\ MemoriaViva /\ atencion[h].pc = "procesar" /\ atencion[h].p # JOURNAL
  /\ LET p == atencion[h].p IN
     /\ atencion' = [atencion EXCEPT ![h].pc = "responder",
          ![h].r = [header |-> IF llena THEN "FULL_R" ELSE "OK", de |-> p]]
     /\ hechos' = IF llena THEN hechos ELSE [hechos EXCEPT ![h][p] = @ + 1]
  /\ UNCHANGED <<ejecutor, red, periodico, conexion, estado, caida, tomada, llenas, journals>>

\* Faulty variant: the journal does not open the gate.
VaciarSinAbrir == llena' = FALSE /\ UNCHANGED <<mutexMemoriaLlena, flagFullEnviado>>

\* journal: it empties the memory and unlocks mutexMemoriaLlena; then the flag.
Vaciar == llena' = FALSE /\ mutexMemoriaLlena' = FALSE /\ UNCHANGED flagFullEnviado

BajarFlag == flagFullEnviado' = FALSE /\ UNCHANGED <<llena, mutexMemoriaLlena>>

\* procesarRequest of a JOURNAL.
JournalVaciar(h) ==
  /\ MemoriaViva /\ atencion[h].pc = "procesar" /\ atencion[h].p = JOURNAL
  /\ Vaciar
  /\ atencion' = [atencion EXCEPT ![h].pc = "bajarFlag"]
  /\ UNCHANGED <<ejecutor, red, periodico, conexion, caida, historia>>

JournalR == [header |-> "JOURNAL_R", de |-> JOURNAL]

JournalBajarFlag(h) ==
  /\ MemoriaViva /\ atencion[h].pc = "bajarFlag"
  /\ BajarFlag
  /\ atencion' = [atencion EXCEPT ![h].pc = "responder", ![h].r = JournalR]
  /\ UNCHANGED <<ejecutor, red, periodico, conexion, caida, historia>>

EsFull(h) == atencion[h].r.header = "FULL_R"

\* Faulty variant: the header is not looked at, and a request that was done waits
\* for another one's journal and is done again.
OtraVueltaConFlag(h) == flagFullEnviado

\* while(response_generado.header == FULL_R && flagFullEnviado)
OtraVuelta(h) == EsFull(h) /\ flagFullEnviado

VolverACompuerta(h) ==
  /\ MemoriaViva /\ atencion[h].pc = "responder" /\ OtraVuelta(h)
  /\ atencion' = [atencion EXCEPT ![h].pc = "cabeza"]
  /\ UNCHANGED <<ejecutor, red, periodico, conexion, estado, caida, historia>>

\* enviarResponse: a connection that the kernel closed takes it once.
Responder(h) ==
  LET a == atencion[h] IN
  /\ MemoriaViva /\ a.pc = "responder" /\ ~OtraVuelta(h)
  /\ flagFullEnviado' = (flagFullEnviado \/ EsFull(h))
  /\ llenas' = IF EsFull(h) THEN [llenas EXCEPT ![h] = @ + 1] ELSE llenas
  /\ alKernel' = IF conexion[h] = "abierta"
                 THEN [alKernel EXCEPT ![h] = Append(@, a.r)] ELSE alKernel
  /\ atencion' = [atencion EXCEPT ![h] =
       [pc |-> a.luego, luego |-> "otro", r |-> Nulo,
        p |-> IF a.luego = "cabeza" THEN a.p ELSE Nulo,
        tras |-> a.tras + (IF conexion[h] = "cerrada" THEN 1 ELSE 0)]]
  /\ UNCHANGED <<ejecutor, alMemoria, periodico, conexion, llena, mutexMemoriaLlena, caida,
                 hechos, tomada, journals>>

\* recibirRequest, at the end of the loop.
AtenderOtro(h) ==
  /\ MemoriaViva /\ atencion[h].pc = "otro" /\ alMemoria[h] # <<>>
  /\ Head(alMemoria[h]) # JOURNAL
  /\ atencion' = [atencion EXCEPT ![h].pc = "cabeza", ![h].p = Head(alMemoria[h])]
  /\ alMemoria' = [alMemoria EXCEPT ![h] = Tail(@)]
  /\ UNCHANGED <<ejecutor, alKernel, periodico, conexion, estado, caida, historia>>

\* Faulty variant: a JOURNAL is answered at the end of the loop, and no more.
AtenderJournalUnaVez(h) ==
  /\ MemoriaViva /\ atencion[h].pc = "otro" /\ alMemoria[h] # <<>>
  /\ Head(alMemoria[h]) = JOURNAL
  /\ atencion' = [atencion EXCEPT ![h].pc = "procesar", ![h].p = JOURNAL]
  /\ alMemoria' = [alMemoria EXCEPT ![h] = Tail(@)]
  /\ UNCHANGED <<ejecutor, alKernel, periodico, conexion, estado, caida, historia>>

\* A JOURNAL is done and answered at the end of the loop, and goes to the head.
AtenderJournal(h) ==
  /\ MemoriaViva /\ atencion[h].pc = "otro" /\ alMemoria[h] # <<>>
  /\ Head(alMemoria[h]) = JOURNAL
  /\ atencion' = [atencion EXCEPT ![h].pc = "procesar", ![h].luego = "cabeza", ![h].p = JOURNAL]
  /\ alMemoria' = [alMemoria EXCEPT ![h] = Tail(@)]
  /\ UNCHANGED <<ejecutor, alKernel, periodico, conexion, estado, caida, historia>>

\* recibirRequest fails, and leaves the header as it was: one that says JOURNAL
\* is done and answered before the loop ends.
Desconectado(h) ==
  /\ MemoriaViva /\ atencion[h].pc \in {"inicio", "otro"}
  /\ alMemoria[h] = <<>> /\ conexion[h] = "cerrada"
  /\ \/ atencion' = [atencion EXCEPT ![h].pc = "fin"]
     \/ /\ atencion[h].pc = "otro"
        /\ atencion' = [atencion EXCEPT ![h].pc = "procesar", ![h].luego = "fin", ![h].p = JOURNAL]
  /\ UNCHANGED <<ejecutor, red, periodico, conexion, estado, caida, historia>>

\* The process and all it held are gone; its open connections are cut.
Morir(motivo) ==
  /\ caida' = motivo
  /\ conexion' = [h \in Conexiones |->
       IF conexion[h] = "abierta" THEN "cortada" ELSE conexion[h]]
  /\ alMemoria' = [h \in Conexiones |-> <<>>]
  /\ atencion' = [h \in Conexiones |-> Ausente] /\ periodico' = "vaciar"
  /\ llena' = FALSE /\ flagFullEnviado' = FALSE /\ mutexMemoriaLlena' = TRUE
  /\ UNCHANGED <<ejecutor, alKernel, historia>>

\* The second send on a closed connection is a SIGPIPE.
MorirMemoria ==
  /\ MemoriaViva
  /\ \E h \in Conexiones : conexion[h] = "cerrada" /\ atencion[h].tras > 1
  /\ Morir("memoriaSIGPIPE")

Matar == caida = "no" /\ Morir("memoriaMatada")

-----------------------------------------------------------------------------
(* The others: consoles and procesoJournal.                                *)

Llenar ==
  /\ MemoriaViva /\ ~llena
  /\ FoldFunction(+, 0, llenas) < MaxLlenas
  /\ llena' = TRUE
  /\ UNCHANGED <<ejecutor, red, atencion, periodico, conexion, flagFullEnviado,
                 mutexMemoriaLlena, caida, historia>>

ProcesoJournal ==
  /\ MemoriaViva
  /\ \/ periodico = "vaciar" /\ Vaciar /\ periodico' = "bajarFlag"
     \/ periodico = "bajarFlag" /\ BajarFlag /\ periodico' = "vaciar"
  /\ UNCHANGED <<ejecutor, red, atencion, conexion, caida, historia>>

-----------------------------------------------------------------------------
Ejecutar(h) ==
  \/ Enviar(h) \/ EnviarJournal(h) \/ EnviarTrasCorte(h)
  \/ Recibir(h) \/ RecibirError(h) \/ Cerrar(h)

AtenderRequest(h) ==
  \/ Atender(h) \/ Compuerta(h) \/ Entrar(h)
  \/ Procesar(h) \/ JournalVaciar(h) \/ JournalBajarFlag(h)
  \/ VolverACompuerta(h) \/ Responder(h)
  \/ AtenderOtro(h) \/ AtenderJournal(h) \/ Desconectado(h)

Next ==
  \/ \E h \in Conexiones : Ejecutar(h) \/ MorirKernel(h) \/ AtenderRequest(h)
  \/ MorirMemoria \/ Matar \/ Llenar \/ ProcesoJournal

Spec == Init /\ [][Next]_vars

\* The threads run, and a mutex that is unlocked again and again is obtained;
\* procesoJournal is an endless loop.
Equidad ==
  /\ \A h \in Conexiones :
       /\ WF_vars(Ejecutar(h) \/ MorirKernel(h))
       /\ SF_vars(AtenderRequest(h))
  /\ WF_vars(ProcesoJournal)

SpecEquitativa == Spec /\ Equidad
=============================================================================
