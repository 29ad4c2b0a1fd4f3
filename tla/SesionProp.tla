----------------------------- MODULE SesionProp -----------------------------
(* What a turn of a script may rely on. *)
EXTENDS Sesion

Numeros == UNION {Pedidos(h) : h \in Conexiones}
Respuestas == [header : {"OK", "FULL_R"}, de : Numeros] \cup {JournalR}

LocalesEjecutor ==
  [pc : {"enviar", "recibir", "journal", "recibirJournal", "cerrar", "fin"},
   i : Nat, tras : 0..1]

LocalesAtencion ==
  [pc : {"inicio", "cabeza", "espera", "procesar", "bajarFlag", "responder", "otro", "fin"},
   luego : {"otro", "cabeza", "fin"},
   p : Numeros \cup {JOURNAL, Nulo}, r : Respuestas \cup {Nulo}, tras : Nat]

\* The variables have the types of the source.
TypeOK ==
  /\ ejecutor \in [Conexiones -> LocalesEjecutor]
  /\ \A h \in Conexiones :
       ejecutor[h].i \in 1..Largo[h] + (IF ejecutor[h].pc \in {"cerrar", "fin"} THEN 1 ELSE 0)
  /\ alMemoria \in [Conexiones -> Seq(Numeros \cup {JOURNAL})]
  /\ alKernel \in [Conexiones -> Seq(Respuestas)]
  /\ atencion \in [Conexiones -> LocalesAtencion]
  /\ periodico \in {"vaciar", "bajarFlag"}
  /\ conexion \in [Conexiones -> {"abierta", "cerrada", "cortada"}]
  /\ llena \in BOOLEAN /\ flagFullEnviado \in BOOLEAN /\ mutexMemoriaLlena \in BOOLEAN
  /\ caida \in {"no", "memoriaSIGPIPE", "memoriaMatada", "kernelSIGPIPE"}
  /\ llenas \in [Conexiones -> Nat] /\ journals \in [Conexiones -> Nat]

\* The answers that a memory has yet to give on a connection: two to a JOURNAL
\* on its way.
PorContestar(h) ==
  Len(alMemoria[h])
  + Cardinality({i \in DOMAIN alMemoria[h] : alMemoria[h][i] = JOURNAL})
  + (IF atencion[h].pc \in {"inicio", "otro", "fin"} THEN 0 ELSE 1)
  + (IF atencion[h].luego = "cabeza" THEN 1 ELSE 0)

\* Every JOURNAL of the executor leaves one answer more than it reads: what it
\* takes for the answer to a request was given to an earlier one, by as many as
\* JOURNALs it has sent; and it never waits for an answer that will not come.
Desfase ==
  \A h \in Conexiones :
    conexion[h] = "abierta" =>
      Len(alKernel[h]) + PorContestar(h) = journals[h] + (IF Esperando(h) THEN 1 ELSE 0)

\* A turn that was never told FULL_R ran each of its requests once, and took
\* for each its own answer, whatever happened on the other connections.
UnaVez ==
  \A h \in Conexiones : llenas[h] = 0 =>
    \A i \in Pedidos(h) :
      /\ hechos[h][i] <= 1
      /\ tomada[h][i] # Nulo => hechos[h][i] = 1 /\ tomada[h][i].de = i

\* The request is on its way, or in the memory's hands.
EnCamino(h, i) ==
  \/ i \in ToSet(alMemoria[h])
  \/ atencion[h].p = i

\* The retry covers one FULL_R in a turn: while the memory lives, no request that
\* the executor left behind is lost.  The second FULL_R may be that of a request
\* before the one the executor takes it for, and sends again.
ReintentoCubre ==
  \A h \in Conexiones :
    llenas[h] < 2 /\ MemoriaViva =>
      \A i \in 1..ejecutor[h].i - 1 : hechos[h][i] > 0 \/ EnCamino(h, i)

\* Requests run more than once, but no more times in all than JOURNALs were sent.
RepeticionAcotada ==
  \A h \in Conexiones :
    conexion[h] # "cortada" =>
      FoldFunction(+, 0, hechos[h]) <= ejecutor[h].i + journals[h]

\* The memory writes twice on a connection that its executor has closed only if
\* a JOURNAL was sent on it.
SoloJournalMata == caida = "memoriaSIGPIPE" => \E h \in Conexiones : journals[h] > 0

\* Every executor gets to the end, and so does its attention thread, unless its
\* process dies first: the retry does not go on for ever, and nobody waits for
\* an answer that does not come.
TurnoTermina ==
  <>(\A h \in Conexiones :
       /\ ejecutor[h].pc = "fin" \/ ~KernelVivo
       /\ atencion[h].pc = "fin" \/ ~MemoriaViva)
=============================================================================
