---------------------------- MODULE SesionProofs ----------------------------
(***************************************************************************)
(* Proofs about a turn's connections, for any number of them and of        *)
(* requests on each.                                                       *)
(*                                                                         *)
(* Base holds the types, and what an attention thread may have in its      *)
(* hands: hechos is indexed with a request that came over the network, so  *)
(* its type needs that only requests of the turn travel.  Orden, of each   *)
(* connection on its own, is what the properties follow from: the balance  *)
(* of requests and answers (Balance), that the first request is not a      *)
(* JOURNAL (Primera), how a connection ends (Cierre), and where the one    *)
(* request on its way is while no FULL_R was given (Sola).  The threads of *)
(* a connection leave the others' Orden alone (Ajenos), and a death cuts   *)
(* them all at once (MorirOrden).                                          *)
(*                                                                         *)
(* Two more are kept on top of it.  Retoma follows the request that got a  *)
(* FULL_R: nothing else travels while the executor is told so and sends    *)
(* its JOURNAL, and it then goes back to it.  Repite is a potential: the   *)
(* runs there were, and those that what travels may yet cause, by an       *)
(* answer other than OK or a JOURNAL's two, never exceed the margin.       *)
(***************************************************************************)
EXTENDS SesionProp, Lemas

Atareada == {"cabeza", "espera", "procesar", "bajarFlag", "responder"}

\* What is on its way to an attention thread, and in its hands.
Manos ==
  \A h \in Conexiones :
    /\ alMemoria[h] \in Seq(Pedidos(h) \cup {JOURNAL})
    /\ atencion[h].pc \in Atareada => atencion[h].p \in Pedidos(h) \cup {JOURNAL}
    /\ atencion[h].pc = "bajarFlag" => atencion[h].p = JOURNAL
    /\ atencion[h].pc = "responder" =>
         /\ atencion[h].r \in Respuestas
         /\ atencion[h].p = JOURNAL => atencion[h].r = JournalR
    /\ atencion[h].luego # "otro" =>
         /\ atencion[h].pc \in {"procesar", "bajarFlag", "responder"}
         /\ atencion[h].p = JOURNAL
    /\ DOMAIN hechos[h] = Pedidos(h)
    /\ DOMAIN tomada[h] = Pedidos(h)
    /\ \A i \in Pedidos(h) : hechos[h][i] \in Nat

Base ==
  /\ TypeOK
  /\ Manos
  /\ DOMAIN hechos = Conexiones
  /\ DOMAIN tomada = Conexiones

-----------------------------------------------------------------------------
LEMMA LosPedidos ==
  ASSUME NEW h \in Conexiones
  PROVE  /\ Largo[h] \in Nat \ {0}
         /\ Pedidos(h) \subseteq Numeros
         /\ Pedidos(h) \subseteq Int /\ JOURNAL \in Int
         /\ JOURNAL \notin Pedidos(h) /\ JOURNAL \notin Numeros
         /\ Nulo \notin Pedidos(h) /\ Nulo # JOURNAL
<1>1. Largo[h] \in Nat \ {0}
  BY LargoValido
<1>2. Pedidos(h) \subseteq Numeros
  BY DEF Numeros
<1>3. \A g \in Conexiones : JOURNAL \notin Pedidos(g) /\ Pedidos(g) \subseteq Int
  BY LargoValido DEF Pedidos, JOURNAL
<1>4. JOURNAL \notin Numeros
  BY <1>3 DEF Numeros
<1> QED BY <1>1, <1>2, <1>3, <1>4, NuloValido DEF JOURNAL

LEMMA EnCola ==
  ASSUME NEW T, NEW s \in Seq(T), NEW e \in T
  PROVE  /\ Append(s, e) \in Seq(T)
         /\ s # <<>> => Head(s) \in T /\ Tail(s) \in Seq(T)
         /\ <<>> \in Seq(T)
  OBVIOUS

PCs == {"inicio", "cabeza", "espera", "procesar", "bajarFlag", "responder", "otro", "fin"}

\* The assignments of the threads to their locals keep the types.
LEMMA CambiarAtencion ==
  ASSUME NEW f \in [Conexiones -> LocalesAtencion], NEW h \in Conexiones, NEW x \in PCs
  PROVE  /\ [f EXCEPT ![h].pc = x] \in [Conexiones -> LocalesAtencion]
         /\ \A z \in Numeros \cup {JOURNAL, Nulo} :
              [f EXCEPT ![h].pc = x, ![h].p = z] \in [Conexiones -> LocalesAtencion]
         /\ \A z \in Respuestas \cup {Nulo} :
              [f EXCEPT ![h].pc = x, ![h].r = z] \in [Conexiones -> LocalesAtencion]
         /\ \A y \in {"otro", "cabeza", "fin"}, z \in Numeros \cup {JOURNAL, Nulo} :
              [f EXCEPT ![h].pc = x, ![h].luego = y, ![h].p = z]
                \in [Conexiones -> LocalesAtencion]
<1> DEFINE S == Numeros \cup {JOURNAL, Nulo}
           R == Respuestas \cup {Nulo}
           A == [pc : PCs, luego : {"otro", "cabeza", "fin"}, p : S, r : R, tras : Nat]
<1>0. LocalesAtencion = A
  BY DEF LocalesAtencion, PCs
<1> HIDE DEF S, R
<1>1. [f EXCEPT ![h].pc = x] \in [Conexiones -> A]
  BY <1>0
<1>2. ASSUME NEW z \in S
      PROVE  [f EXCEPT ![h].pc = x, ![h].p = z] \in [Conexiones -> A]
  <2>1. [f[h] EXCEPT !.pc = x, !.p = z] \in A
    BY <1>0
  <2> QED BY <1>0, <2>1
<1>3. ASSUME NEW z \in R
      PROVE  [f EXCEPT ![h].pc = x, ![h].r = z] \in [Conexiones -> A]
  <2>1. [f[h] EXCEPT !.pc = x, !.r = z] \in A
    BY <1>0
  <2> QED BY <1>0, <2>1
<1>4. ASSUME NEW y \in {"otro", "cabeza", "fin"}, NEW z \in S
      PROVE  [f EXCEPT ![h].pc = x, ![h].luego = y, ![h].p = z] \in [Conexiones -> A]
  <2>1. [f[h] EXCEPT !.pc = x, !.luego = y, !.p = z] \in A
    BY <1>0
  <2> QED BY <1>0, <2>1
<1> QED BY <1>0, <1>1, <1>2, <1>3, <1>4 DEF S, R

PCsEjecutor == {"enviar", "recibir", "journal", "recibirJournal", "cerrar", "fin"}

LEMMA CambiarEjecutor ==
  ASSUME NEW f \in [Conexiones -> LocalesEjecutor], NEW h \in Conexiones,
         NEW x \in PCsEjecutor, NEW n \in Nat
  PROVE  /\ [f EXCEPT ![h].pc = x] \in [Conexiones -> LocalesEjecutor]
         /\ \A t \in 0..1 : [f EXCEPT ![h].pc = x, ![h].tras = t] \in [Conexiones -> LocalesEjecutor]
         /\ [f[h] EXCEPT !.pc = x] \in LocalesEjecutor
         /\ [f[h] EXCEPT !.pc = x, !.i = n] \in LocalesEjecutor
         /\ \A e \in LocalesEjecutor : [f EXCEPT ![h] = e] \in [Conexiones -> LocalesEjecutor]
<1> DEFINE E == [pc : PCsEjecutor, i : Nat, tras : 0..1]
<1>0. LocalesEjecutor = E
  BY DEF LocalesEjecutor, PCsEjecutor
<1>1. [f EXCEPT ![h].pc = x] \in [Conexiones -> E]
  BY <1>0
<1>2. ASSUME NEW t \in 0..1
      PROVE  [f EXCEPT ![h].pc = x, ![h].tras = t] \in [Conexiones -> E]
  <2>1. [f[h] EXCEPT !.pc = x, !.tras = t] \in E
    BY <1>0
  <2> QED BY <1>0, <2>1
<1>3. [f[h] EXCEPT !.pc = x] \in E /\ [f[h] EXCEPT !.pc = x, !.i = n] \in E
  BY <1>0
<1>4. \A e \in E : [f EXCEPT ![h] = e] \in [Conexiones -> E]
  BY <1>0
<1> QED BY <1>0, <1>1, <1>2, <1>3, <1>4

LEMMA BaseInicial == Init => Base
<1> SUFFICES ASSUME Init PROVE Base
  OBVIOUS
<1>1. \A h \in Conexiones : Largo[h] \in Nat \ {0} /\ 1 \in Pedidos(h)
  BY LosPedidos DEF Pedidos
<1>2. ejecutor \in [Conexiones -> LocalesEjecutor]
  BY DEF Init, LocalesEjecutor
<1>3. atencion \in [Conexiones -> LocalesAtencion]
  BY DEF Init, LocalesAtencion, Ausente
<1>4. \A h \in Conexiones : ejecutor[h].i = 1 /\ ejecutor[h].pc = "enviar"
  BY DEF Init
<1>5. TypeOK
  <2>1. \A h \in Conexiones :
          ejecutor[h].i \in 1..Largo[h] + (IF ejecutor[h].pc \in {"cerrar", "fin"} THEN 1 ELSE 0)
    BY <1>1, <1>4
  <2>2. /\ alMemoria \in [Conexiones -> Seq(Numeros \cup {JOURNAL})]
        /\ alKernel \in [Conexiones -> Seq(Respuestas)]
    BY DEF Init
  <2>3. /\ llenas \in [Conexiones -> Nat] /\ journals \in [Conexiones -> Nat]
        /\ conexion \in [Conexiones -> {"abierta", "cerrada", "cortada"}]
    BY DEF Init
  <2> QED BY <1>2, <1>3, <2>1, <2>2, <2>3 DEF Init, TypeOK
<1>6. \A h \in Conexiones :
        /\ hechos[h] = [i \in Pedidos(h) |-> 0] /\ tomada[h] = [i \in Pedidos(h) |-> Nulo]
        /\ alMemoria[h] = <<>> /\ atencion[h].pc = "inicio" /\ atencion[h].luego = "otro"
  BY DEF Init, Ausente
<1>7. Manos
  <2>1. \A h \in Conexiones :
          /\ DOMAIN hechos[h] = Pedidos(h) /\ DOMAIN tomada[h] = Pedidos(h)
          /\ \A i \in Pedidos(h) : hechos[h][i] \in Nat
    <3>1. \A h \in Conexiones :
            /\ DOMAIN hechos[h] = Pedidos(h) /\ DOMAIN tomada[h] = Pedidos(h)
            /\ \A i \in Pedidos(h) : hechos[h][i] = 0
      BY <1>6, ZenonT(60)
    <3>2. 0 \in Nat
      OBVIOUS
    <3> QED BY <3>1, <3>2, ZenonT(60)
  <2>2. \A h \in Conexiones : alMemoria[h] \in Seq(Pedidos(h) \cup {JOURNAL})
    <3>1. \A h \in Conexiones : <<>> \in Seq(Pedidos(h) \cup {JOURNAL})
      OBVIOUS
    <3> QED BY <1>6, <3>1
  <2> QED BY <1>6, <2>1, <2>2 DEF Manos, Atareada
<1> QED BY <1>5, <1>7 DEF Init, Base

LEMMA EjecutarBase ==
  ASSUME Base, NEW h \in Conexiones, Ejecutar(h) \/ MorirKernel(h)
  PROVE  Base'
<1> USE DEF Base, TypeOK, Manos, estado, red, historia
<1>0. /\ Largo[h] \in Nat \ {0} /\ Pedidos(h) \subseteq Numeros
      /\ JOURNAL \notin Pedidos(h)
  BY LosPedidos
<1>1. /\ ejecutor[h].i \in Nat /\ ejecutor[h].tras \in 0..1
      /\ ejecutor[h].pc \notin {"cerrar", "fin"} =>
           ejecutor[h].i <= Largo[h] /\ ejecutor[h].i \in Pedidos(h)
  BY <1>0 DEF Pedidos, LocalesEjecutor
<1>2. \A g \in Conexiones : g # h =>
        /\ ejecutor[g].i \in 1..Largo[g] + (IF ejecutor[g].pc \in {"cerrar", "fin"} THEN 1 ELSE 0)
        /\ alMemoria[g] \in Seq(Pedidos(g) \cup {JOURNAL})
  OBVIOUS
<1>3. CASE Enviar(h)
  <2>1. ejecutor' \in [Conexiones -> LocalesEjecutor]
    BY <1>3, CambiarEjecutor DEF Enviar, PCsEjecutor
  <2>2. /\ ejecutor'[h].i = ejecutor[h].i /\ ejecutor'[h].pc = "recibir"
        /\ \A g \in Conexiones : g # h => ejecutor'[g] = ejecutor[g]
    BY <1>3 DEF Enviar, LocalesEjecutor
  <2>3. /\ alMemoria' \in [Conexiones -> Seq(Numeros \cup {JOURNAL})]
        /\ \A g \in Conexiones : alMemoria'[g] \in Seq(Pedidos(g) \cup {JOURNAL})
    BY <1>0, <1>1, <1>3, EnCola DEF Enviar
  <2> QED BY <1>0, <1>1, <1>2, <1>3, <2>1, <2>2, <2>3 DEF Enviar
<1>4. CASE EnviarJournal(h)
  <2>1. ejecutor' \in [Conexiones -> LocalesEjecutor]
    BY <1>4, CambiarEjecutor DEF EnviarJournal, PCsEjecutor
  <2>2. /\ ejecutor'[h].i = ejecutor[h].i /\ ejecutor'[h].pc = "recibirJournal"
        /\ \A g \in Conexiones : g # h => ejecutor'[g] = ejecutor[g]
    BY <1>4 DEF EnviarJournal, LocalesEjecutor
  <2>3. /\ alMemoria' \in [Conexiones -> Seq(Numeros \cup {JOURNAL})]
        /\ \A g \in Conexiones : alMemoria'[g] \in Seq(Pedidos(g) \cup {JOURNAL})
    BY <1>0, <1>1, <1>4, EnCola DEF EnviarJournal
  <2>4. journals' \in [Conexiones -> Nat] /\ ejecutor[h].pc = "journal"
    BY <1>4 DEF EnviarJournal
  <2> QED BY <1>0, <1>1, <1>2, <1>4, <2>1, <2>2, <2>3, <2>4 DEF EnviarJournal
<1>5. CASE EnviarTrasCorte(h)
  <2> DEFINE x == IF ejecutor[h].pc = "enviar" THEN "recibir" ELSE "recibirJournal"
  <2>1. ejecutor' = [ejecutor EXCEPT ![h].pc = x, ![h].tras = 1] /\ x \in PCsEjecutor
    BY <1>5 DEF EnviarTrasCorte, PCsEjecutor, LocalesEjecutor
  <2>2. x \notin {"cerrar", "fin"} /\ ejecutor[h].pc \notin {"cerrar", "fin"}
    BY <1>5 DEF EnviarTrasCorte
  <2> HIDE DEF x
  <2>3. ejecutor' \in [Conexiones -> LocalesEjecutor]
    <3>1. \A t \in 0..1 :
            [ejecutor EXCEPT ![h].pc = x, ![h].tras = t] \in [Conexiones -> LocalesEjecutor]
      BY <2>1, CambiarEjecutor
    <3> QED BY <2>1, <3>1
  <2>4. /\ ejecutor'[h].i = ejecutor[h].i /\ ejecutor'[h].pc = x
        /\ \A g \in Conexiones : g # h => ejecutor'[g] = ejecutor[g]
    BY <2>1 DEF LocalesEjecutor
  <2> QED BY <1>0, <1>1, <1>2, <1>5, <2>2, <2>3, <2>4, ZenonT(60) DEF EnviarTrasCorte
<1>6. ASSUME Esperando(h), NEW header, ejecutor' = [ejecutor EXCEPT ![h] = TrasRecibir(h, header)]
      PROVE  /\ ejecutor' \in [Conexiones -> LocalesEjecutor]
             /\ \A g \in Conexiones :
                  ejecutor'[g].i \in 1..Largo[g] + (IF ejecutor'[g].pc \in {"cerrar", "fin"} THEN 1 ELSE 0)
  <2> DEFINE e == TrasRecibir(h, header)
  <2>1. /\ e \in LocalesEjecutor
        /\ e.i \in 1..Largo[h] + (IF e.pc \in {"cerrar", "fin"} THEN 1 ELSE 0)
    <3>1. \A x \in PCsEjecutor : [ejecutor[h] EXCEPT !.pc = x] \in LocalesEjecutor
      BY CambiarEjecutor
    <3>2. \A x \in PCsEjecutor, n \in Nat : [ejecutor[h] EXCEPT !.pc = x, !.i = n] \in LocalesEjecutor
      BY CambiarEjecutor
    <3>3. ejecutor[h].i \in 1..Largo[h]
      BY <1>0, <1>1, <1>6 DEF Esperando
    <3>4. CASE e = [ejecutor[h] EXCEPT !.pc = "journal"] \/ e = [ejecutor[h] EXCEPT !.pc = "enviar"]
      <4>1. e \in LocalesEjecutor
        BY <3>1, <3>4 DEF PCsEjecutor
      <4>2. e.i = ejecutor[h].i
        BY <3>4 DEF LocalesEjecutor
      <4> QED BY <1>0, <3>3, <4>1, <4>2
    <3>5. CASE e = Siguiente(h)
      <4> DEFINE x == IF ejecutor[h].i = Largo[h] THEN "cerrar" ELSE "enviar"
      <4>1. e = [ejecutor[h] EXCEPT !.pc = x, !.i = ejecutor[h].i + 1]
        BY <3>5 DEF Siguiente
      <4>2. e \in LocalesEjecutor
        <5>1. x \in PCsEjecutor /\ ejecutor[h].i + 1 \in Nat
          BY <3>3 DEF PCsEjecutor
        <5>2. [ejecutor[h] EXCEPT !.pc = x, !.i = ejecutor[h].i + 1] \in LocalesEjecutor
          BY ONLY <3>2, <5>1, ZenonT(60)
        <5> QED BY <4>1, <5>2, ZenonT(60)
      <4>3. e.pc = x /\ e.i = ejecutor[h].i + 1
        BY <4>1 DEF LocalesEjecutor
      <4> QED BY <1>0, <3>3, <4>2, <4>3
    <3> QED BY <3>4, <3>5 DEF TrasRecibir
  <2> HIDE DEF e
  <2>2. /\ ejecutor' \in [Conexiones -> LocalesEjecutor] /\ ejecutor'[h] = e
        /\ \A g \in Conexiones : g # h => ejecutor'[g] = ejecutor[g]
    BY <1>6, <2>1, CambiarEjecutor DEF e
  <2> QED BY <1>2, <2>1, <2>2
<1>7. CASE Recibir(h)
  <2>1. alKernel' \in [Conexiones -> Seq(Respuestas)]
    BY <1>7, EnCola DEF Recibir
  <2>2. DOMAIN tomada' = Conexiones /\ \A g \in Conexiones : DOMAIN tomada'[g] = Pedidos(g)
    BY <1>7 DEF Recibir
  <2> QED BY <1>6, <1>7, <2>1, <2>2 DEF Recibir
<1>8. CASE RecibirError(h)
  BY <1>6, <1>8 DEF RecibirError
<1>9. CASE Cerrar(h)
  <2>1. ejecutor' \in [Conexiones -> LocalesEjecutor]
    BY <1>9, CambiarEjecutor DEF Cerrar, PCsEjecutor
  <2>2. /\ ejecutor'[h].i = ejecutor[h].i /\ ejecutor'[h].pc = "fin"
        /\ \A g \in Conexiones : g # h => ejecutor'[g] = ejecutor[g]
    BY <1>9 DEF Cerrar, LocalesEjecutor
  <2>3. ejecutor[h].pc = "cerrar" /\ alKernel' \in [Conexiones -> Seq(Respuestas)]
    BY <1>9, EnCola DEF Cerrar
  <2> QED BY <1>0, <1>1, <1>2, <1>9, <2>1, <2>2, <2>3 DEF Cerrar
<1>10. CASE MorirKernel(h)
  BY <1>10 DEF MorirKernel
<1> QED BY <1>3, <1>4, <1>5, <1>7, <1>8, <1>9, <1>10 DEF Ejecutar

\* What a step of an attention thread leaves to be shown.
LEMMA AtenderSigue ==
  ASSUME Base, NEW h \in Conexiones,
         atencion' \in [Conexiones -> LocalesAtencion],
         \A g \in Conexiones : g # h => atencion'[g] = atencion[g],
         atencion'[h].pc \in Atareada => atencion'[h].p \in Pedidos(h) \cup {JOURNAL},
         atencion'[h].pc = "bajarFlag" => atencion'[h].p = JOURNAL,
         atencion'[h].pc = "responder" =>
           /\ atencion'[h].r \in Respuestas
           /\ atencion'[h].p = JOURNAL => atencion'[h].r = JournalR,
         atencion'[h].luego # "otro" =>
           /\ atencion'[h].pc \in {"procesar", "bajarFlag", "responder"}
           /\ atencion'[h].p = JOURNAL,
         UNCHANGED <<ejecutor, periodico, conexion, caida, tomada, journals>>,
         alKernel' \in [Conexiones -> Seq(Respuestas)],
         llena' \in BOOLEAN, flagFullEnviado' \in BOOLEAN, mutexMemoriaLlena' \in BOOLEAN,
         llenas' \in [Conexiones -> Nat],
         \/ alMemoria' = alMemoria
         \/ alMemoria' = [alMemoria EXCEPT ![h] = Tail(@)] /\ alMemoria[h] # <<>>,
         \/ hechos' = hechos
         \/ /\ atencion[h].p \in Pedidos(h)
            /\ hechos' = [hechos EXCEPT ![h][atencion[h].p] = @ + 1]
  PROVE  Base'
<1>1. /\ alMemoria' \in [Conexiones -> Seq(Numeros \cup {JOURNAL})]
      /\ \A g \in Conexiones : alMemoria'[g] \in Seq(Pedidos(g) \cup {JOURNAL})
  <2>0. /\ alMemoria \in [Conexiones -> Seq(Numeros \cup {JOURNAL})]
        /\ \A g \in Conexiones : alMemoria[g] \in Seq(Pedidos(g) \cup {JOURNAL})
    BY DEF Base, TypeOK, Manos
  <2>1. CASE alMemoria' = alMemoria
    BY <2>0, <2>1
  <2>2. CASE alMemoria' = [alMemoria EXCEPT ![h] = Tail(@)] /\ alMemoria[h] # <<>>
    <3>1. /\ Tail(alMemoria[h]) \in Seq(Numeros \cup {JOURNAL})
          /\ Tail(alMemoria[h]) \in Seq(Pedidos(h) \cup {JOURNAL})
      BY <2>0, <2>2
    <3> QED BY <2>0, <2>2, <3>1
  <2> QED BY <2>1, <2>2
<1>2. /\ DOMAIN hechos' = Conexiones
      /\ \A g \in Conexiones : /\ DOMAIN hechos'[g] = Pedidos(g)
                               /\ \A i \in Pedidos(g) : hechos'[g][i] \in Nat
  <2>0. /\ DOMAIN hechos = Conexiones
        /\ \A g \in Conexiones : /\ DOMAIN hechos[g] = Pedidos(g)
                                 /\ \A i \in Pedidos(g) : hechos[g][i] \in Nat
    BY DEF Base, Manos
  <2>1. CASE hechos' = hechos
    BY <2>0, <2>1
  <2>2. CASE /\ atencion[h].p \in Pedidos(h)
             /\ hechos' = [hechos EXCEPT ![h][atencion[h].p] = @ + 1]
    <3> DEFINE q == atencion[h].p
               x == [hechos[h] EXCEPT ![q] = hechos[h][q] + 1]
    <3>1. /\ DOMAIN hechos' = Conexiones /\ hechos'[h] = x
          /\ \A g \in Conexiones : g # h => hechos'[g] = hechos[g]
      BY <2>0, <2>2
    <3>2. q \in Pedidos(h)
      BY <2>2
    <3> HIDE DEF q
    <3>3. DOMAIN x = Pedidos(h)
      BY <2>0, <3>2, ZenonT(60)
    <3>4. \A i \in Pedidos(h) : x[i] = hechos[h][i] \/ (i = q /\ x[i] = hechos[h][q] + 1)
      BY <2>0, <3>2, ZenonT(60)
    <3>5. hechos[h][q] + 1 \in Nat
      BY <2>0, <3>2
    <3> HIDE DEF x
    <3>6. \A i \in Pedidos(h) : x[i] \in Nat
      BY <2>0, <3>4, <3>5, ZenonT(60)
    <3> QED BY <2>0, <3>1, <3>3, <3>6, ZenonT(60)
  <2> QED BY <2>1, <2>2
<1>3. ASSUME NEW g \in Conexiones
      PROVE  /\ atencion'[g].pc \in Atareada => atencion'[g].p \in Pedidos(g) \cup {JOURNAL}
             /\ atencion'[g].pc = "bajarFlag" => atencion'[g].p = JOURNAL
             /\ atencion'[g].pc = "responder" =>
                  /\ atencion'[g].r \in Respuestas
                  /\ atencion'[g].p = JOURNAL => atencion'[g].r = JournalR
             /\ atencion'[g].luego # "otro" =>
                  /\ atencion'[g].pc \in {"procesar", "bajarFlag", "responder"}
                  /\ atencion'[g].p = JOURNAL
  <2>1. CASE g = h
    BY <2>1
  <2>2. CASE g # h
    <3>1. atencion'[g] = atencion[g]
      BY <2>2
    <3> QED BY <3>1, ZenonT(60) DEF Base, Manos
  <2> QED BY <2>1, <2>2
<1>4. /\ DOMAIN tomada' = Conexiones
      /\ \A g \in Conexiones : DOMAIN tomada'[g] = Pedidos(g)
  BY DEF Base, Manos
<1>5. Manos'
  BY <1>1, <1>2, <1>3, <1>4, ZenonT(60) DEF Manos, Atareada, JournalR, JOURNAL, Pedidos, Respuestas, Numeros
<1>6. TypeOK'
  BY <1>1 DEF Base, TypeOK
<1> QED BY <1>2, <1>4, <1>5, <1>6 DEF Base

LEMMA AtenderBase ==
  ASSUME Base, NEW h \in Conexiones, AtenderRequest(h)
  PROVE  Base'
<1> USE DEF estado, red, historia
<1> DEFINE a == atencion[h]
<1>0. /\ Pedidos(h) \subseteq Numeros /\ JOURNAL \notin Pedidos(h)
      /\ \A z \in Pedidos(h) \cup {JOURNAL} :
           z \in Numeros \cup {JOURNAL, Nulo} /\ z # Nulo
      /\ Nulo \in Numeros \cup {JOURNAL, Nulo} /\ JOURNAL \in Numeros \cup {JOURNAL, Nulo}
  BY LosPedidos
<1>1. /\ a.pc \in PCs /\ a.luego \in {"otro", "cabeza", "fin"}
      /\ a.tras \in Nat /\ a \in LocalesAtencion
      /\ a.r \in Respuestas \cup {Nulo}
      /\ atencion \in [Conexiones -> LocalesAtencion]
  BY DEF Base, TypeOK, LocalesAtencion, PCs
<1>2. /\ alMemoria[h] \in Seq(Pedidos(h) \cup {JOURNAL})
      /\ a.pc \in Atareada => a.p \in Pedidos(h) \cup {JOURNAL}
      /\ a.pc = "bajarFlag" => a.p = JOURNAL
      /\ a.pc = "responder" =>
           /\ a.r \in Respuestas
           /\ a.p = JOURNAL => a.r = JournalR
      /\ a.luego # "otro" => a.pc \in {"procesar", "bajarFlag", "responder"} /\ a.p = JOURNAL
  BY DEF Base, Manos
<1>3. /\ alKernel \in [Conexiones -> Seq(Respuestas)]
      /\ llena \in BOOLEAN /\ flagFullEnviado \in BOOLEAN /\ mutexMemoriaLlena \in BOOLEAN
      /\ llenas \in [Conexiones -> Nat]
  BY DEF Base, TypeOK
<1>4. /\ \A x \in PCs : [atencion EXCEPT ![h].pc = x] \in [Conexiones -> LocalesAtencion]
      /\ \A x \in PCs, z \in Numeros \cup {JOURNAL, Nulo} :
           [atencion EXCEPT ![h].pc = x, ![h].p = z] \in [Conexiones -> LocalesAtencion]
      /\ \A x \in PCs, z \in Respuestas \cup {Nulo} :
           [atencion EXCEPT ![h].pc = x, ![h].r = z] \in [Conexiones -> LocalesAtencion]
      /\ \A x \in PCs, y \in {"otro", "cabeza", "fin"}, z \in Numeros \cup {JOURNAL, Nulo} :
           [atencion EXCEPT ![h].pc = x, ![h].luego = y, ![h].p = z]
             \in [Conexiones -> LocalesAtencion]
  <2>1. ASSUME NEW x \in PCs
        PROVE  /\ [atencion EXCEPT ![h].pc = x] \in [Conexiones -> LocalesAtencion]
               /\ \A z \in Numeros \cup {JOURNAL, Nulo} :
                    [atencion EXCEPT ![h].pc = x, ![h].p = z] \in [Conexiones -> LocalesAtencion]
               /\ \A z \in Respuestas \cup {Nulo} :
                    [atencion EXCEPT ![h].pc = x, ![h].r = z] \in [Conexiones -> LocalesAtencion]
               /\ \A y \in {"otro", "cabeza", "fin"}, z \in Numeros \cup {JOURNAL, Nulo} :
                    [atencion EXCEPT ![h].pc = x, ![h].luego = y, ![h].p = z]
                      \in [Conexiones -> LocalesAtencion]
    BY <1>1, CambiarAtencion, ZenonT(60)
  <2> QED BY <2>1, ZenonT(60)
<1>5. /\ "cabeza" \in PCs /\ "espera" \in PCs /\ "procesar" \in PCs /\ "bajarFlag" \in PCs
      /\ "responder" \in PCs /\ "fin" \in PCs
  BY DEF PCs
<1>6. JournalR \in Respuestas
  BY DEF Respuestas
<1>7. alMemoria[h] # <<>> => Head(alMemoria[h]) \in Pedidos(h) \cup {JOURNAL}
  BY <1>2
<1>8. CASE Atender(h)
  <2>0. Head(alMemoria[h]) \in Numeros \cup {JOURNAL, Nulo}
    BY <1>0, <1>7, <1>8 DEF Atender
  <2>1. atencion' \in [Conexiones -> LocalesAtencion]
    BY <1>4, <1>5, <1>8, <2>0, ZenonT(60) DEF Atender
  <2>2. /\ atencion'[h].pc = "cabeza" /\ atencion'[h].p = Head(alMemoria[h])
        /\ atencion'[h].luego = a.luego
        /\ \A g \in Conexiones : g # h => atencion'[g] = atencion[g]
    BY <1>1, <1>8, <2>0 DEF Atender, LocalesAtencion
  <2>3. /\ alMemoria' = [alMemoria EXCEPT ![h] = Tail(@)] /\ alMemoria[h] # <<>>
        /\ a.pc \in {"inicio", "otro"}
        /\ UNCHANGED <<ejecutor, alKernel, periodico, conexion, estado, caida, historia>>
    BY <1>8 DEF Atender
  <2> QED BY <1>1, <1>2, <1>3, <1>7, <2>1, <2>2, <2>3, AtenderSigue DEF Atareada
<1>9. CASE AtenderOtro(h)
  <2>0. Head(alMemoria[h]) \in Numeros \cup {JOURNAL, Nulo}
    BY <1>0, <1>7, <1>9 DEF AtenderOtro
  <2>1. atencion' \in [Conexiones -> LocalesAtencion]
    BY <1>4, <1>5, <1>9, <2>0, ZenonT(60) DEF AtenderOtro
  <2>2. /\ atencion'[h].pc = "cabeza" /\ atencion'[h].p = Head(alMemoria[h])
        /\ atencion'[h].luego = a.luego
        /\ \A g \in Conexiones : g # h => atencion'[g] = atencion[g]
    BY <1>1, <1>9, <2>0 DEF AtenderOtro, LocalesAtencion
  <2>3. /\ alMemoria' = [alMemoria EXCEPT ![h] = Tail(@)] /\ alMemoria[h] # <<>>
        /\ a.pc \in {"inicio", "otro"}
        /\ UNCHANGED <<ejecutor, alKernel, periodico, conexion, estado, caida, historia>>
    BY <1>9 DEF AtenderOtro
  <2> QED BY <1>1, <1>2, <1>3, <1>7, <2>1, <2>2, <2>3, AtenderSigue DEF Atareada
<1>10. CASE AtenderJournal(h)
  <2>1. atencion' \in [Conexiones -> LocalesAtencion]
    BY <1>4, <1>5, <1>10, <1>0, ZenonT(60) DEF AtenderJournal
  <2>2. /\ atencion'[h].pc = "procesar" /\ atencion'[h].p = JOURNAL
        /\ \A g \in Conexiones : g # h => atencion'[g] = atencion[g]
    BY <1>1, <1>10 DEF AtenderJournal, LocalesAtencion
  <2> QED BY <1>0, <1>1, <1>2, <1>3, <1>6, <1>7, <1>10, <2>1, <2>2, AtenderSigue DEF AtenderJournal, Atareada
<1>11. CASE Compuerta(h)
  <2> DEFINE x == IF flagFullEnviado THEN "espera" ELSE "procesar"
  <2>0. atencion' = [atencion EXCEPT ![h].pc = x] /\ x \in {"espera", "procesar"}
    BY <1>11 DEF Compuerta
  <2> HIDE DEF x
  <2>1. atencion' \in [Conexiones -> LocalesAtencion]
    BY <1>4, <1>5, <2>0, ZenonT(60)
  <2>2. /\ atencion'[h].pc = x /\ atencion'[h].p = a.p /\ atencion'[h].luego = a.luego
        /\ \A g \in Conexiones : g # h => atencion'[g] = atencion[g]
    BY <1>1, <2>0 DEF LocalesAtencion
  <2> QED BY <1>1, <1>2, <1>3, <1>11, <2>0, <2>1, <2>2, AtenderSigue DEF Compuerta, Atareada
<1>12. CASE Entrar(h)
  <2>1. atencion' \in [Conexiones -> LocalesAtencion]
    BY <1>4, <1>5, <1>12, ZenonT(60) DEF Entrar
  <2>2. /\ atencion'[h].pc = "procesar" /\ atencion'[h].p = a.p /\ atencion'[h].luego = a.luego
        /\ \A g \in Conexiones : g # h => atencion'[g] = atencion[g]
    BY <1>1, <1>12 DEF Entrar, LocalesAtencion
  <2> QED BY <1>0, <1>1, <1>2, <1>3, <1>6, <1>7, <1>12, <2>1, <2>2, AtenderSigue DEF Entrar, Atareada
<1>13. CASE Procesar(h)
  <2> DEFINE x == [header |-> IF llena THEN "FULL_R" ELSE "OK", de |-> a.p]
  <2>0. a.p \in Pedidos(h) /\ x \in Respuestas
    BY <1>0, <1>2, <1>13 DEF Procesar, Atareada, Respuestas
  <2>1. atencion' = [atencion EXCEPT ![h].pc = "responder", ![h].r = x]
    BY <1>13 DEF Procesar
  <2>2. /\ UNCHANGED <<ejecutor, red, periodico, conexion, estado, caida, tomada, llenas, journals>>
        /\ \/ hechos' = hechos
           \/ hechos' = [hechos EXCEPT ![h][a.p] = @ + 1]
    BY <1>13 DEF Procesar
  <2> HIDE DEF x
  <2>3. atencion' \in [Conexiones -> LocalesAtencion]
    BY <1>4, <1>5, <2>0, <2>1, ZenonT(60)
  <2>4. /\ atencion'[h].pc = "responder" /\ atencion'[h].p = a.p /\ atencion'[h].luego = a.luego
        /\ atencion'[h].r = x
        /\ \A g \in Conexiones : g # h => atencion'[g] = atencion[g]
    BY <1>1, <2>1 DEF LocalesAtencion
  <2>5. a.pc = "procesar"
    BY <1>13 DEF Procesar
  <2> QED BY <1>0, <1>1, <1>2, <1>3, <2>0, <2>2, <2>3, <2>4, <2>5, AtenderSigue
<1>14. CASE JournalVaciar(h)
  <2>1. atencion' \in [Conexiones -> LocalesAtencion]
    BY <1>4, <1>5, <1>14, ZenonT(60) DEF JournalVaciar
  <2>2. /\ atencion'[h].pc = "bajarFlag" /\ atencion'[h].p = a.p /\ atencion'[h].luego = a.luego
        /\ \A g \in Conexiones : g # h => atencion'[g] = atencion[g]
    BY <1>1, <1>14 DEF JournalVaciar, LocalesAtencion
  <2> QED BY <1>0, <1>1, <1>2, <1>3, <1>6, <1>7, <1>14, <2>1, <2>2, AtenderSigue DEF JournalVaciar, Atareada, Vaciar
<1>15. CASE JournalBajarFlag(h)
  <2>1. atencion' \in [Conexiones -> LocalesAtencion]
    BY <1>4, <1>5, <1>15, <1>6, ZenonT(60) DEF JournalBajarFlag
  <2>2. /\ atencion'[h].pc = "responder" /\ atencion'[h].p = a.p /\ atencion'[h].luego = a.luego
        /\ atencion'[h].r = JournalR
        /\ \A g \in Conexiones : g # h => atencion'[g] = atencion[g]
    BY <1>1, <1>15, <1>6 DEF JournalBajarFlag, LocalesAtencion
  <2>3. /\ a.pc = "bajarFlag"
        /\ UNCHANGED <<ejecutor, red, periodico, conexion, caida, historia>>
        /\ flagFullEnviado' = FALSE /\ UNCHANGED <<llena, mutexMemoriaLlena>>
    BY <1>15 DEF JournalBajarFlag, BajarFlag
  <2> QED BY <1>1, <1>2, <1>3, <1>6, <2>1, <2>2, <2>3, AtenderSigue DEF Atareada
<1>16. CASE VolverACompuerta(h)
  <2>0. a.luego = "otro"
    BY <1>1, <1>2, <1>16 DEF VolverACompuerta, OtraVuelta, EsFull, JournalR
  <2>1. atencion' \in [Conexiones -> LocalesAtencion]
    BY <1>4, <1>5, <1>16, ZenonT(60) DEF VolverACompuerta
  <2>2. /\ atencion'[h].pc = "cabeza" /\ atencion'[h].p = a.p /\ atencion'[h].luego = a.luego
        /\ \A g \in Conexiones : g # h => atencion'[g] = atencion[g]
    BY <1>1, <1>16, <2>0 DEF VolverACompuerta, LocalesAtencion
  <2> QED BY <1>0, <1>1, <1>2, <1>3, <1>6, <1>7, <1>16, <2>0, <2>1, <2>2, AtenderSigue DEF VolverACompuerta, Atareada
<1>17. CASE Responder(h)
  <2> DEFINE x == [pc |-> a.luego, luego |-> "otro", r |-> Nulo,
                   p |-> IF a.luego = "cabeza" THEN a.p ELSE Nulo,
                   tras |-> a.tras + (IF conexion[h] = "cerrada" THEN 1 ELSE 0)]
  <2>1. atencion' = [atencion EXCEPT ![h] = x] /\ a.pc = "responder"
    BY <1>17 DEF Responder
  <2>2. a.r \in Respuestas /\ (a.luego = "cabeza" => a.p = JOURNAL)
    BY <1>2, <2>1
  <2>3. x \in LocalesAtencion
    BY <1>0, <1>1, <2>2 DEF LocalesAtencion, PCs
  <2>4. x.pc = a.luego /\ x.luego = "otro" /\ (a.luego = "cabeza" => x.p = a.p)
    OBVIOUS
  <2> HIDE DEF x
  <2>5. /\ atencion' \in [Conexiones -> LocalesAtencion] /\ atencion'[h] = x
        /\ \A g \in Conexiones : g # h => atencion'[g] = atencion[g]
    BY <1>1, <2>1, <2>3
  <2>6. alKernel' \in [Conexiones -> Seq(Respuestas)]
    BY <1>3, <1>17, <2>2 DEF Responder
  <2>7. llenas' \in [Conexiones -> Nat]
    BY <1>3, <1>17 DEF Responder
  <2>8. flagFullEnviado' \in BOOLEAN
    BY <1>17 DEF Responder, EsFull
  <2>9. UNCHANGED <<ejecutor, alMemoria, periodico, conexion, llena, mutexMemoriaLlena, caida,
                 hechos, tomada, journals>>
    BY <1>17 DEF Responder
  <2> QED BY <1>1, <1>3, <2>2, <2>4, <2>5, <2>6, <2>7, <2>8, <2>9, AtenderSigue DEF Atareada
<1>18. CASE Desconectado(h)
  <2>0. /\ a.pc \in {"inicio", "otro"}
        /\ UNCHANGED <<ejecutor, red, periodico, conexion, estado, caida, historia>>
    BY <1>18 DEF Desconectado
  <2>1. CASE atencion' = [atencion EXCEPT ![h].pc = "fin"]
    <3>1. atencion' \in [Conexiones -> LocalesAtencion]
      BY <1>4, <1>5, <2>1, ZenonT(60)
    <3>2. /\ atencion'[h].pc = "fin" /\ atencion'[h].luego = a.luego
          /\ \A g \in Conexiones : g # h => atencion'[g] = atencion[g]
      BY <1>1, <2>1 DEF LocalesAtencion
    <3> QED BY <1>1, <1>2, <1>3, <2>0, <3>1, <3>2, AtenderSigue DEF Atareada
  <2>2. CASE atencion' = [atencion EXCEPT ![h].pc = "procesar", ![h].luego = "fin", ![h].p = JOURNAL]
    <3>1. atencion' \in [Conexiones -> LocalesAtencion]
      BY <1>0, <1>4, <1>5, <2>2, ZenonT(60)
    <3>2. /\ atencion'[h].pc = "procesar" /\ atencion'[h].p = JOURNAL
          /\ \A g \in Conexiones : g # h => atencion'[g] = atencion[g]
      BY <1>1, <2>2 DEF LocalesAtencion
    <3> QED BY <1>1, <1>2, <1>3, <2>0, <3>1, <3>2, AtenderSigue DEF Atareada
  <2> QED BY <1>18, <2>1, <2>2 DEF Desconectado
<1> QED BY <1>8, <1>9, <1>10, <1>11, <1>12, <1>13, <1>14, <1>15, <1>16, <1>17, <1>18
        DEF AtenderRequest

LEMMA MorirBase ==
  ASSUME Base, NEW motivo \in {"memoriaSIGPIPE", "memoriaMatada"}, Morir(motivo)
  PROVE  Base'
<1>1. /\ atencion' \in [Conexiones -> LocalesAtencion]
      /\ \A h \in Conexiones : atencion'[h].pc = "inicio" /\ atencion'[h].luego = "otro"
  BY DEF Morir, Ausente, LocalesAtencion
<1>2. /\ alMemoria' \in [Conexiones -> Seq(Numeros \cup {JOURNAL})]
      /\ \A h \in Conexiones : alMemoria'[h] = <<>>
  BY DEF Morir
<1>3. conexion' \in [Conexiones -> {"abierta", "cerrada", "cortada"}]
  BY DEF Base, TypeOK, Morir
<1>4. TypeOK'
  BY <1>1, <1>2, <1>3 DEF Base, TypeOK, Morir, historia
<1>5. \A h \in Conexiones : <<>> \in Seq(Pedidos(h) \cup {JOURNAL})
  OBVIOUS
<1>6. UNCHANGED <<hechos, tomada>>
  BY DEF Morir, historia
<1>7. Manos'
  BY <1>1, <1>2, <1>5, <1>6 DEF Base, Manos, Atareada
<1> QED BY <1>4, <1>6, <1>7 DEF Base

LEMMA OtrosBase ==
  ASSUME Base, Llenar \/ ProcesoJournal
  PROVE  Base'
  BY DEF Base, TypeOK, Manos, Llenar, ProcesoJournal, Vaciar, BajarFlag, red, estado, historia

LEMMA BasePaso == Base /\ [Next]_vars => Base'
<1> SUFFICES ASSUME Base, [Next]_vars PROVE Base'
  OBVIOUS
<1>1. CASE UNCHANGED vars
  BY <1>1 DEF vars, red, estado, historia, Base, TypeOK, Manos
<1>2. ASSUME NEW h \in Conexiones, Ejecutar(h) \/ MorirKernel(h) \/ AtenderRequest(h)
      PROVE  Base'
  BY <1>2, EjecutarBase, AtenderBase
<1>3. CASE MorirMemoria \/ Matar
  BY <1>3, MorirBase DEF MorirMemoria, Matar
<1>4. CASE Llenar \/ ProcesoJournal
  BY <1>4, OtrosBase
<1> QED BY <1>1, <1>2, <1>3, <1>4 DEF Next

\* For any connections and lengths, every variable keeps its type.
THEOREM TiposSesion == Spec => []TypeOK
<1>1. Spec => []Base
  BY BaseInicial, BasePaso, PTL DEF Spec
<1>2. Base => TypeOK
  BY DEF Base
<1> QED BY <1>1, <1>2, PTL

-----------------------------------------------------------------------------
(* The balance of requests and answers. *)

Cuantos(s) == CuantosDe(s, {JOURNAL})

LEMMA CuantosCola ==
  ASSUME NEW s \in Seq(Int), NEW e \in Int
  PROVE  /\ Cuantos(s) \in Nat
         /\ Cuantos(<<>>) = 0
         /\ Cuantos(Append(s, e)) = Cuantos(s) + (IF e = JOURNAL THEN 1 ELSE 0)
         /\ s # <<>> =>
              Cuantos(s) = Cuantos(Tail(s)) + (IF Head(s) = JOURNAL THEN 1 ELSE 0)
<1>1. \A x : x \in {JOURNAL} <=> x = JOURNAL
  OBVIOUS
<1> QED BY <1>1, CuentaEnCola, CuentaAlFinal DEF Cuantos

-----------------------------------------------------------------------------
(* Every connection keeps its order. *)

\* The answers that an attention thread has in its hands, and that it owes
\* beyond; that its executor waits for.
EnManos(h) == IF atencion[h].pc \in {"inicio", "otro", "fin"} THEN 0 ELSE 1
Doble(h) == IF atencion[h].luego = "cabeza" THEN 1 ELSE 0
Espera(h) == IF Esperando(h) THEN 1 ELSE 0

Balance(h) ==
  conexion[h] = "abierta" =>
    Len(alKernel[h]) + Len(alMemoria[h]) + Cuantos(alMemoria[h]) + EnManos(h) + Doble(h)
    = journals[h] + Espera(h)

\* The first request of a connection is not a JOURNAL.
Primera(h) ==
  conexion[h] = "abierta" /\ atencion[h].pc = "inicio" =>
    /\ alKernel[h] = <<>> /\ journals[h] = 0 /\ Cuantos(alMemoria[h]) = 0
    /\ ejecutor[h].pc \in {"enviar", "recibir"}

\* How a connection ends: with no JOURNAL sent, the memory has at most one
\* answer left to give on it.
Cierre(h) ==
  /\ conexion[h] = "abierta" =>
       atencion[h].pc # "fin" /\ atencion[h].luego # "fin" /\ atencion[h].tras = 0
  /\ conexion[h] = "cortada" => caida # "no"
  /\ conexion[h] = "cerrada" /\ journals[h] = 0 =>
       /\ alMemoria[h] = <<>>
       /\ \/ atencion[h].pc \in {"inicio", "otro"} /\ atencion[h].tras = 0
          \/ atencion[h].luego = "fin" /\ atencion[h].tras = 0
          \/ atencion[h].pc = "fin" /\ atencion[h].tras <= 1

Respuesta(header, i) == [header |-> header, de |-> i]

\* Where the request of an executor that was never told FULL_R may be.
EnCurso(h) ==
  LET e == ejecutor[h]
      a == atencion[h] IN
  \/ /\ e.pc \in {"enviar", "cerrar"}
     /\ alMemoria[h] = <<>> /\ alKernel[h] = <<>>
     /\ a.pc \in {"inicio", "otro"}
     /\ e.pc = "enviar" => hechos[h][e.i] = 0
  \/ /\ e.pc = "recibir"
     /\ alMemoria[h] = <<e.i>> /\ alKernel[h] = <<>>
     /\ a.pc \in {"inicio", "otro"}
     /\ hechos[h][e.i] = 0
  \/ /\ e.pc = "recibir"
     /\ alMemoria[h] = <<>> /\ alKernel[h] = <<>> /\ a.p = e.i
     /\ \/ a.pc \in {"cabeza", "espera", "procesar"} /\ hechos[h][e.i] = 0
        \/ a.pc = "responder" /\ a.r = Respuesta("FULL_R", e.i) /\ hechos[h][e.i] = 0
        \/ a.pc = "responder" /\ a.r = Respuesta("OK", e.i) /\ hechos[h][e.i] = 1
  \/ /\ e.pc = "recibir"
     /\ alMemoria[h] = <<>> /\ alKernel[h] = <<Respuesta("OK", e.i)>>
     /\ a.pc = "otro"
     /\ hechos[h][e.i] = 1

Hecho(h, k) == /\ hechos[h][k] <= 1
               /\ tomada[h][k] # Nulo => hechos[h][k] = 1 /\ tomada[h][k].de = k

\* The requests before the executor's are done, those after it have not begun.
Sola(h) ==
  llenas[h] = 0 =>
    /\ journals[h] = 0
    /\ \A k \in Pedidos(h) :
         /\ Hecho(h, k)
         /\ k > ejecutor[h].i => hechos[h][k] = 0
         /\ k >= ejecutor[h].i => tomada[h][k] = Nulo
    /\ conexion[h] = "abierta" => EnCurso(h)
    /\ conexion[h] = "cortada" =>
         \/ alKernel[h] = <<>>
         \/ /\ alKernel[h] = <<Respuesta("OK", ejecutor[h].i)>>
            /\ ejecutor[h].pc = "recibir" /\ hechos[h][ejecutor[h].i] = 1

Orden(h) == Balance(h) /\ Primera(h) /\ Cierre(h) /\ Sola(h)

\* A step that leaves a connection alone.
Igual(h) ==
  /\ ejecutor'[h] = ejecutor[h] /\ atencion'[h] = atencion[h]
  /\ alMemoria'[h] = alMemoria[h] /\ alKernel'[h] = alKernel[h]
  /\ conexion'[h] = conexion[h] /\ (caida' = "no" => caida = "no")
  /\ hechos'[h] = hechos[h] /\ tomada'[h] = tomada[h]
  /\ llenas'[h] = llenas[h] /\ journals'[h] = journals[h]

LEMMA OrdenIgual ==
  ASSUME NEW h \in Conexiones, Orden(h), Igual(h)
  PROVE  Orden(h)'
<1> USE DEF Igual
<1>1. Balance(h)'
  BY DEF Orden, Balance, Esperando, EnManos, Doble, Espera
<1>2. Primera(h)'
  BY DEF Orden, Primera
<1>3. Cierre(h)'
  BY DEF Orden, Cierre
<1>4. EnCurso(h) => EnCurso(h)'
  BY DEF EnCurso
<1>5. Sola(h)'
  BY <1>4 DEF Orden, Sola, Hecho, Pedidos
<1> QED BY <1>1, <1>2, <1>3, <1>5 DEF Orden

\* The threads of a connection leave the others alone.
LEMMA Ajenos ==
  ASSUME Base, NEW h \in Conexiones, NEW g \in Conexiones, g # h,
         Ejecutar(h) \/ MorirKernel(h) \/ AtenderRequest(h)
  PROVE  Igual(g)
<1>0. /\ ejecutor \in [Conexiones -> LocalesEjecutor] /\ atencion \in [Conexiones -> LocalesAtencion]
      /\ alMemoria \in [Conexiones -> Seq(Numeros \cup {JOURNAL})]
      /\ alKernel \in [Conexiones -> Seq(Respuestas)]
      /\ conexion \in [Conexiones -> {"abierta", "cerrada", "cortada"}]
      /\ llenas \in [Conexiones -> Nat] /\ journals \in [Conexiones -> Nat]
      /\ DOMAIN hechos = Conexiones /\ DOMAIN tomada = Conexiones
  BY DEF Base, TypeOK
<1> USE DEF Igual, estado, red, historia
<1>1. CASE Enviar(h)
  BY <1>0, <1>1 DEF Enviar
<1>2. CASE EnviarJournal(h)
  BY <1>0, <1>2 DEF EnviarJournal
<1>3. CASE EnviarTrasCorte(h)
  BY <1>0, <1>3 DEF EnviarTrasCorte
<1>4. CASE Recibir(h)
  BY <1>0, <1>4 DEF Recibir
<1>5. CASE RecibirError(h)
  BY <1>0, <1>5 DEF RecibirError
<1>6. CASE Cerrar(h)
  BY <1>0, <1>6 DEF Cerrar
<1>7. CASE MorirKernel(h)
  BY <1>0, <1>7 DEF MorirKernel
<1>8. CASE Atender(h)
  BY <1>0, <1>8 DEF Atender
<1>9. CASE Compuerta(h)
  BY <1>0, <1>9 DEF Compuerta
<1>10. CASE Entrar(h)
  BY <1>0, <1>10 DEF Entrar
<1>11. CASE Procesar(h)
  BY <1>0, <1>11 DEF Procesar
<1>12. CASE JournalVaciar(h)
  BY <1>0, <1>12 DEF JournalVaciar
<1>13. CASE JournalBajarFlag(h)
  BY <1>0, <1>13 DEF JournalBajarFlag
<1>14. CASE VolverACompuerta(h)
  BY <1>0, <1>14 DEF VolverACompuerta
<1>15. CASE Responder(h)
  BY <1>0, <1>15 DEF Responder
<1>16. CASE AtenderOtro(h)
  BY <1>0, <1>16 DEF AtenderOtro
<1>17. CASE AtenderJournal(h)
  BY <1>0, <1>17 DEF AtenderJournal
<1>18. CASE Desconectado(h)
  BY <1>0, <1>18 DEF Desconectado
<1> QED BY <1>1, <1>2, <1>3, <1>4, <1>5, <1>6, <1>7, <1>8, <1>9, <1>10, <1>11, <1>12, <1>13, <1>14, <1>15, <1>16, <1>17, <1>18
        DEF Ejecutar, AtenderRequest

LEMMA EjecutarOrden ==
  ASSUME Base, NEW h \in Conexiones, Orden(h), Ejecutar(h) \/ MorirKernel(h)
  PROVE  Orden(h)'
<1> USE DEF estado, red, historia
<1> DEFINE e == ejecutor[h]
           a == atencion[h]
<1>0. /\ ejecutor \in [Conexiones -> LocalesEjecutor] /\ e \in LocalesEjecutor
      /\ DOMAIN alMemoria = Conexiones /\ DOMAIN alKernel = Conexiones
      /\ DOMAIN conexion = Conexiones /\ DOMAIN journals = Conexiones
      /\ DOMAIN tomada = Conexiones /\ DOMAIN tomada[h] = Pedidos(h)
      /\ conexion[h] \in {"abierta", "cerrada", "cortada"}
  BY DEF Base, TypeOK, Manos
<1>1. /\ journals[h] \in Nat /\ alKernel[h] \in Seq(Respuestas)
      /\ Len(alKernel[h]) \in Nat /\ Len(alMemoria[h]) \in Nat
      /\ \A i \in Pedidos(h) : hechos[h][i] \in Nat
      /\ EnManos(h) \in Nat /\ Doble(h) \in Nat /\ Espera(h) \in Nat
  <2>1. /\ journals[h] \in Nat /\ alKernel[h] \in Seq(Respuestas)
        /\ alMemoria[h] \in Seq(Numeros \cup {JOURNAL})
    BY DEF Base, TypeOK
  <2>2. Len(alKernel[h]) \in Nat /\ Len(alMemoria[h]) \in Nat
    BY <2>1
  <2>3. \A i \in Pedidos(h) : hechos[h][i] \in Nat
    BY DEF Base, Manos
  <2>4. EnManos(h) \in Nat /\ Doble(h) \in Nat /\ Espera(h) \in Nat
    BY DEF EnManos, Doble, Espera
  <2> QED BY <2>1, <2>2, <2>3, <2>4
<1>2. /\ alMemoria[h] \in Seq(Int) /\ JOURNAL \in Int
      /\ e.pc \notin {"cerrar", "fin"} =>
           e.i \in Int /\ e.i # JOURNAL /\ e.i \in Pedidos(h)
  <2>1. alMemoria[h] \in Seq(Pedidos(h) \cup {JOURNAL}) /\ Pedidos(h) \cup {JOURNAL} \subseteq Int
    BY LosPedidos DEF Base, Manos
  <2>2. e.i \in 1..Largo[h] + (IF e.pc \in {"cerrar", "fin"} THEN 1 ELSE 0) /\ Largo[h] \in Nat
    BY LosPedidos DEF Base, TypeOK
  <2>3. alMemoria[h] \in Seq(Int)
    BY <2>1
  <2> QED BY <2>2, <2>3, LosPedidos DEF Pedidos, JOURNAL
<1>3. /\ Cuantos(alMemoria[h]) \in Nat /\ Cuantos(<<>>) = 0
      /\ Cuantos(Append(alMemoria[h], JOURNAL)) = Cuantos(alMemoria[h]) + 1
      /\ e.pc \notin {"cerrar", "fin"} =>
           Cuantos(Append(alMemoria[h], e.i)) = Cuantos(alMemoria[h])
  BY <1>2, CuantosCola
<1> DEFINE k == Len(alKernel[h])
           m == Len(alMemoria[h])
           c == Cuantos(alMemoria[h])
           n == EnManos(h)
           d == Doble(h)
           j == journals[h]
           w == Espera(h)
<1>11. /\ k \in Nat /\ m \in Nat /\ c \in Nat /\ n \in Nat /\ d \in Nat /\ j \in Nat /\ w \in Nat
       /\ conexion[h] = "abierta" => k + m + c + n + d = j + w
  BY <1>1, <1>3 DEF Orden, Balance
<1>12. Balance(h)' <=> (conexion'[h] = "abierta" => k' + m' + c' + n' + d' = j' + w')
  BY DEF Balance
<1> HIDE DEF k, m, c, n, d, j, w
<1>4. CASE Enviar(h)
  <2>1. /\ conexion[h] = "abierta" /\ e.pc = "enviar"
        /\ alMemoria'[h] = Append(alMemoria[h], e.i)
        /\ ejecutor'[h].pc = "recibir" /\ ejecutor'[h].i = e.i
        /\ UNCHANGED <<alKernel, atencion, conexion, caida, hechos, tomada, llenas, journals>>
    BY <1>0, <1>4 DEF Enviar, LocalesEjecutor
  <2>2. Len(alMemoria'[h]) = Len(alMemoria[h]) + 1
    BY <1>2, <2>1
  <2>3. Balance(h)'
    <3>1. n' = n /\ d' = d /\ w = 0 /\ w' = 1
      BY <2>1 DEF n, d, w, EnManos, Doble, Espera, Esperando
    <3>2. k' = k /\ m' = m + 1 /\ j' = j
      BY <2>1, <2>2 DEF k, m, j
    <3>3. c' = c
      BY <1>3, <2>1 DEF c
    <3> QED BY <1>11, <1>12, <2>1, <3>1, <3>2, <3>3
  <2>4. Primera(h)' /\ Cierre(h)'
    BY <1>3, <2>1 DEF Orden, Primera, Cierre
  <2>5. Sola(h)'
    <3>1. llenas[h] = 0 => EnCurso(h)'
      <4>1. llenas[h] = 0 => alMemoria[h] = <<>> /\ alKernel[h] = <<>>
                             /\ a.pc \in {"inicio", "otro"} /\ hechos[h][e.i] = 0
        BY <2>1 DEF Orden, Sola, EnCurso
      <4>2. alMemoria[h] = <<>> => alMemoria'[h] = <<e.i>>
        BY <2>1
      <4> QED BY <2>1, <4>1, <4>2 DEF EnCurso
    <3> QED BY <2>1, <3>1 DEF Orden, Sola, Hecho, Pedidos
  <2> QED BY <2>3, <2>4, <2>5 DEF Orden
<1>5. CASE EnviarJournal(h)
  <2>1. /\ conexion[h] = "abierta" /\ e.pc = "journal"
        /\ alMemoria'[h] = Append(alMemoria[h], JOURNAL) /\ journals'[h] = journals[h] + 1
        /\ ejecutor'[h].pc = "recibirJournal" /\ ejecutor'[h].i = e.i
        /\ UNCHANGED <<alKernel, atencion, conexion, caida, hechos, tomada, llenas>>
    BY <1>0, <1>5 DEF EnviarJournal, LocalesEjecutor
  <2>2. Len(alMemoria'[h]) = Len(alMemoria[h]) + 1
    BY <1>2, <2>1
  <2>3. Balance(h)'
    <3>1. n' = n /\ d' = d /\ w = 0 /\ w' = 1
      BY <2>1 DEF n, d, w, EnManos, Doble, Espera, Esperando
    <3>2. k' = k /\ m' = m + 1 /\ j' = j + 1
      BY <2>1, <2>2 DEF k, m, j
    <3>3. c' = c + 1
      BY <1>3, <2>1 DEF c
    <3> QED BY <1>11, <1>12, <2>1, <3>1, <3>2, <3>3
  <2>4. Primera(h)' /\ Cierre(h)'
    BY <2>1 DEF Orden, Primera, Cierre
  <2>5. llenas[h] # 0
    BY <2>1 DEF Orden, Sola, EnCurso
  <2> QED BY <2>1, <2>3, <2>4, <2>5 DEF Orden, Sola
<1>6. CASE EnviarTrasCorte(h)
  <2>1. /\ conexion[h] = "cortada" /\ e.pc \in {"enviar", "journal"}
        /\ ejecutor'[h].i = e.i
        /\ UNCHANGED <<alMemoria, alKernel, atencion, conexion, caida, hechos, tomada, llenas, journals>>
    BY <1>0, <1>6 DEF EnviarTrasCorte, LocalesEjecutor
  <2>2. Balance(h)' /\ Primera(h)' /\ Cierre(h)'
    BY <2>1 DEF Orden, Balance, Primera, Cierre
  <2>3. Sola(h)'
    BY <2>1 DEF Orden, Sola, Hecho, Pedidos
  <2> QED BY <2>2, <2>3 DEF Orden
<1>7. CASE Recibir(h)
  <2> DEFINE r == Head(alKernel[h])
  <2>1. /\ conexion[h] # "cerrada" /\ Esperando(h) /\ alKernel[h] # <<>>
        /\ ejecutor'[h] = TrasRecibir(h, r.header) /\ alKernel'[h] = Tail(alKernel[h])
        /\ UNCHANGED <<alMemoria, atencion, conexion, caida, hechos, llenas, journals>>
    BY <1>0, <1>7 DEF Recibir
  <2>2. tomada' = IF ejecutor'[h].i = e.i THEN tomada
                  ELSE [tomada EXCEPT ![h][e.i] = r]
    BY <1>7 DEF Recibir
  <2>3. Len(alKernel'[h]) = Len(alKernel[h]) - 1
    BY <1>1, <2>1
  <2>4. ejecutor'[h].pc \in {"enviar", "journal", "cerrar"}
    BY <1>0, <2>1 DEF TrasRecibir, Siguiente, Esperando, LocalesEjecutor
  <2>5. Balance(h)'
    <3>1. n' = n /\ d' = d /\ w = 1 /\ w' = 0
      BY <2>1, <2>4 DEF n, d, w, EnManos, Doble, Espera, Esperando
    <3>2. k' = k - 1 /\ m' = m /\ c' = c /\ j' = j
      BY <2>1, <2>3 DEF k, m, c, j
    <3> QED BY <1>11, <1>12, <2>1, <3>1, <3>2
  <2>6. Primera(h)' /\ Cierre(h)'
    BY <2>1 DEF Orden, Primera, Cierre
  <2>7. Sola(h)'
    <3>1. SUFFICES ASSUME llenas[h] = 0 PROVE Sola(h)'
      BY <2>1 DEF Sola
    <3>2. /\ alKernel[h] = <<Respuesta("OK", e.i)>> /\ e.pc = "recibir"
          /\ hechos[h][e.i] = 1
          /\ conexion[h] = "abierta" => alMemoria[h] = <<>> /\ a.pc = "otro"
      <4>1. CASE conexion[h] = "abierta"
        BY <2>1, <3>1, <4>1 DEF Orden, Sola, EnCurso
      <4>2. CASE conexion[h] = "cortada"
        BY <2>1, <3>1, <4>2 DEF Orden, Sola
      <4> QED BY <1>0, <2>1, <4>1, <4>2
    <3>3. r = Respuesta("OK", e.i) /\ alKernel'[h] = <<>>
      BY <2>1, <3>2
    <3>4. e.i \in Pedidos(h) /\ e.i \in Int
      BY <1>2, <3>2
    <3>5. ejecutor'[h] = Siguiente(h)
      BY <2>1, <3>3 DEF TrasRecibir, Respuesta
    <3>6. /\ ejecutor'[h].i = e.i + 1
          /\ ejecutor'[h].pc = IF e.i = Largo[h] THEN "cerrar" ELSE "enviar"
      BY <1>0, <3>5 DEF Siguiente, LocalesEjecutor
    <3>7. tomada' = [tomada EXCEPT ![h][e.i] = r]
      BY <2>2, <3>4, <3>6
    <3>8. /\ tomada'[h][e.i] = r
          /\ \A nro \in Pedidos(h) : nro # e.i => tomada'[h][nro] = tomada[h][nro]
      BY <1>0, <3>4, <3>7
    <3>9. ASSUME NEW nro \in Pedidos(h)
          PROVE  /\ Hecho(h, nro)'
                 /\ nro > e.i + 1 => hechos[h][nro] = 0
                 /\ nro >= e.i + 1 => tomada'[h][nro] = Nulo
      <4>1. nro \in Int
        BY LosPedidos
      <4>2. CASE nro = e.i
        BY <2>1, <3>2, <3>3, <3>4, <3>8, <4>1, <4>2 DEF Hecho, Respuesta
      <4>3. CASE nro # e.i
        BY <2>1, <3>1, <3>4, <3>8, <4>1, <4>3 DEF Orden, Sola, Hecho
      <4> QED BY <4>2, <4>3
    <3>10. conexion[h] = "abierta" => EnCurso(h)'
      <4>1. e.i + 1 \in Pedidos(h) \/ e.i = Largo[h]
        BY <3>4, LosPedidos DEF Pedidos
      <4>2. e.i # Largo[h] => hechos[h][e.i + 1] = 0
        BY <3>1, <3>4, <4>1 DEF Orden, Sola
      <4> QED BY <2>1, <3>2, <3>3, <3>6, <4>2 DEF EnCurso
    <3> QED BY <2>1, <3>1, <3>3, <3>6, <3>9, <3>10 DEF Orden, Sola, Pedidos
  <2> QED BY <2>5, <2>6, <2>7 DEF Orden
<1>8. CASE RecibirError(h)
  <2>1. /\ conexion[h] = "cortada" /\ Esperando(h) /\ alKernel[h] = <<>>
        /\ \E header \in {"FULL_R", "JOURNAL_R", "OK"} : ejecutor'[h] = TrasRecibir(h, header)
        /\ UNCHANGED <<alMemoria, alKernel, atencion, conexion, caida, hechos, tomada, llenas, journals>>
    BY <1>0, <1>8 DEF RecibirError
  <2>2. ejecutor'[h].i \in {e.i, e.i + 1} /\ e.i \in Int
    BY <1>0, <2>1 DEF TrasRecibir, Siguiente, LocalesEjecutor
  <2>3. Balance(h)' /\ Primera(h)' /\ Cierre(h)'
    BY <2>1 DEF Orden, Balance, Primera, Cierre
  <2>4. Sola(h)'
    <3>1. \A nro \in Pedidos(h) : nro \in Int
      BY LosPedidos
    <3>2. \A nro \in Pedidos(h) :
            /\ nro > ejecutor'[h].i => nro > e.i
            /\ nro >= ejecutor'[h].i => nro >= e.i
      BY <2>2, <3>1
    <3> QED BY <2>1, <3>2 DEF Orden, Sola, Hecho, Pedidos
  <2> QED BY <2>3, <2>4 DEF Orden
<1>9. CASE Cerrar(h)
  <2>1. /\ e.pc = "cerrar" /\ alKernel'[h] = <<>>
        /\ ejecutor'[h].pc = "fin" /\ ejecutor'[h].i = e.i
        /\ conexion'[h] = IF conexion[h] = "abierta" THEN "cerrada" ELSE conexion[h]
        /\ UNCHANGED <<alMemoria, atencion, caida, hechos, tomada, llenas, journals>>
    BY <1>0, <1>9 DEF Cerrar, LocalesEjecutor
  <2>2. conexion'[h] # "abierta"
    BY <2>1
  <2>3. Balance(h)' /\ Primera(h)'
    BY <2>2 DEF Balance, Primera
  <2>4. Cierre(h)'
    <3>1. CASE conexion[h] = "abierta" /\ journals[h] = 0
      <4>1. /\ Len(alMemoria[h]) = 0
            /\ a.pc \in {"inicio", "otro", "fin"}
        <5>1. w = 0 /\ j = 0
          BY <2>1, <3>1 DEF w, j, Espera, Esperando
        <5>2. k + m + c + n + d = 0
          BY <1>11, <3>1, <5>1
        <5>3. m = 0 /\ n = 0
          BY <1>11, <5>2
        <5> QED BY <5>3 DEF m, n, EnManos
      <4>2. alMemoria[h] = <<>>
        BY <1>2, <4>1
      <4> QED BY <2>1, <3>1, <4>1, <4>2 DEF Orden, Cierre
    <3>2. CASE ~(conexion[h] = "abierta" /\ journals[h] = 0)
      BY <2>1, <3>2 DEF Orden, Cierre
    <3> QED BY <3>1, <3>2
  <2>5. Sola(h)'
    BY <2>1 DEF Orden, Sola, Hecho, Pedidos
  <2> QED BY <2>3, <2>4, <2>5 DEF Orden
<1>10. CASE MorirKernel(h)
  <2>1. /\ UNCHANGED <<ejecutor, alMemoria, alKernel, atencion, conexion, hechos, tomada, llenas, journals>>
        /\ caida' # "no"
    BY <1>10 DEF MorirKernel
  <2> QED BY <2>1, OrdenIgual DEF Igual
<1> QED BY <1>4, <1>5, <1>6, <1>7, <1>8, <1>9, <1>10 DEF Ejecutar

LEMMA AtenderOrden ==
  ASSUME Base, NEW h \in Conexiones, Orden(h), AtenderRequest(h)
  PROVE  Orden(h)'
<1> USE DEF estado, red, historia
<1> DEFINE e == ejecutor[h]
           a == atencion[h]
           b == atencion'[h]
<1>1. /\ atencion \in [Conexiones -> LocalesAtencion] /\ a \in LocalesAtencion /\ a.tras \in Nat
      /\ a.luego \in {"otro", "cabeza", "fin"}
      /\ DOMAIN alMemoria = Conexiones /\ DOMAIN alKernel = Conexiones
      /\ DOMAIN hechos = Conexiones /\ DOMAIN hechos[h] = Pedidos(h)
      /\ llenas \in [Conexiones -> Nat]
      /\ conexion[h] \in {"abierta", "cerrada", "cortada"}
  BY DEF Base, TypeOK, Manos, LocalesAtencion
<1>2. /\ a.pc \in Atareada => a.p \in Pedidos(h) \cup {JOURNAL}
      /\ a.pc = "bajarFlag" => a.p = JOURNAL
      /\ a.pc = "responder" => (a.p = JOURNAL => a.r = JournalR)
      /\ a.luego # "otro" => a.pc \in {"procesar", "bajarFlag", "responder"} /\ a.p = JOURNAL
  BY DEF Base, Manos
<1>3. /\ journals[h] \in Nat /\ alKernel[h] \in Seq(Respuestas) /\ alMemoria[h] \in Seq(Int)
      /\ \A i \in Pedidos(h) : hechos[h][i] \in Nat
  <2>1. alMemoria[h] \in Seq(Pedidos(h) \cup {JOURNAL}) /\ Pedidos(h) \cup {JOURNAL} \subseteq Int
    BY LosPedidos DEF Base, Manos
  <2>2. alMemoria[h] \in Seq(Int)
    BY <2>1
  <2> QED BY <2>2 DEF Base, TypeOK, Manos
<1>4. /\ Cuantos(alMemoria[h]) \in Nat /\ Cuantos(<<>>) = 0
      /\ alMemoria[h] # <<>> =>
           Cuantos(alMemoria[h]) = Cuantos(Tail(alMemoria[h]))
                                   + (IF Head(alMemoria[h]) = JOURNAL THEN 1 ELSE 0)
      /\ alMemoria[h] # <<>> => Cuantos(Tail(alMemoria[h])) \in Nat
  <2>1. alMemoria[h] # <<>> => Tail(alMemoria[h]) \in Seq(Int)
    BY <1>3
  <2>2. JOURNAL \in Int
    BY LosPedidos
  <2>3. alMemoria[h] # <<>> => Cuantos(Tail(alMemoria[h])) \in Nat
    BY <2>1, <2>2, CuantosCola
  <2>4. /\ Cuantos(alMemoria[h]) \in Nat /\ Cuantos(<<>>) = 0
        /\ alMemoria[h] # <<>> =>
             Cuantos(alMemoria[h]) = Cuantos(Tail(alMemoria[h]))
                                     + (IF Head(alMemoria[h]) = JOURNAL THEN 1 ELSE 0)
    BY <1>3, <2>2, CuantosCola
  <2> QED BY <2>3, <2>4
<1>5. conexion[h] # "cortada"
  BY DEF AtenderRequest, Atender, Compuerta, Entrar, Procesar, JournalVaciar, JournalBajarFlag,
         VolverACompuerta, Responder, AtenderOtro, AtenderJournal, Desconectado, MemoriaViva,
         Orden, Cierre
<1>6. UNCHANGED <<ejecutor, conexion, caida, tomada, journals>>
  BY DEF AtenderRequest, Atender, Compuerta, Entrar, Procesar, JournalVaciar, JournalBajarFlag,
         VolverACompuerta, Responder, AtenderOtro, AtenderJournal, Desconectado, Vaciar, BajarFlag
<1>7. llenas[h] = 0 /\ conexion[h] = "abierta" /\ a.pc \in Atareada =>
        /\ e.pc = "recibir" /\ a.p = e.i /\ a.p # JOURNAL /\ a.p \in Pedidos(h)
        /\ alMemoria[h] = <<>> /\ alKernel[h] = <<>>
        /\ \/ a.pc \in {"cabeza", "espera", "procesar"} /\ hechos[h][e.i] = 0
           \/ a.pc = "responder" /\ a.r = Respuesta("FULL_R", e.i) /\ hechos[h][e.i] = 0
           \/ a.pc = "responder" /\ a.r = Respuesta("OK", e.i) /\ hechos[h][e.i] = 1
  <2>1. SUFFICES ASSUME llenas[h] = 0, conexion[h] = "abierta", a.pc \in Atareada
                 PROVE  /\ e.pc = "recibir" /\ a.p = e.i /\ a.p # JOURNAL /\ a.p \in Pedidos(h)
                        /\ alMemoria[h] = <<>> /\ alKernel[h] = <<>>
                        /\ \/ a.pc \in {"cabeza", "espera", "procesar"} /\ hechos[h][e.i] = 0
                           \/ a.pc = "responder" /\ a.r = Respuesta("FULL_R", e.i) /\ hechos[h][e.i] = 0
                           \/ a.pc = "responder" /\ a.r = Respuesta("OK", e.i) /\ hechos[h][e.i] = 1
    OBVIOUS
  <2>2. e.i # JOURNAL
    BY LosPedidos DEF Base, TypeOK, JOURNAL
  <2> QED BY <1>2, <2>1, <2>2 DEF Orden, Sola, EnCurso, Atareada
<1> DEFINE k == Len(alKernel[h])
           m == Len(alMemoria[h])
           c == Cuantos(alMemoria[h])
           n == EnManos(h)
           d == Doble(h)
           j == journals[h]
           w == Espera(h)
<1>8. /\ k \in Nat /\ m \in Nat /\ c \in Nat /\ n \in Nat /\ d \in Nat /\ j \in Nat /\ w \in Nat
      /\ conexion[h] = "abierta" => k + m + c + n + d = j + w
  <2>1. k \in Nat /\ m \in Nat /\ j \in Nat
    BY <1>3
  <2>2. n \in Nat /\ d \in Nat /\ w \in Nat
    BY DEF EnManos, Doble, Espera
  <2> QED BY <1>4, <2>1, <2>2 DEF Orden, Balance
<1>9. Balance(h)' <=> (conexion'[h] = "abierta" => k' + m' + c' + n' + d' = j' + w')
  BY DEF Balance
<1>10. j' = j /\ w' = w
  BY <1>6 DEF Espera, Esperando
<1> HIDE DEF k, m, c, n, d, j, w

\* The thread goes on with the request it has.
<1>11. ASSUME a.pc \in Atareada, b.pc \in Atareada, b.luego = a.luego, b.p = a.p, b.tras = a.tras,
              UNCHANGED <<alMemoria, alKernel, llenas>>,
              llenas[h] = 0 /\ conexion[h] = "abierta" => EnCurso(h)',
              llenas[h] = 0 => \A i \in Pedidos(h) :
                                 \/ hechos'[h][i] = hechos[h][i]
                                 \/ i = e.i /\ conexion[h] = "abierta" /\ hechos'[h][i] = 1
       PROVE  Orden(h)'
  <2>1. k' = k /\ m' = m /\ c' = c
    BY <1>11 DEF k, m, c
  <2>2. n' = n /\ d' = d
    BY <1>11 DEF n, d, EnManos, Doble, Atareada
  <2>3. Balance(h)'
    BY <1>6, <1>8, <1>9, <1>10, <2>1, <2>2
  <2>4. Primera(h)' /\ Cierre(h)'
    BY <1>6, <1>11 DEF Orden, Primera, Cierre, Atareada
  <2>5. Sola(h)'
    <3>1. SUFFICES ASSUME llenas[h] = 0 PROVE Sola(h)'
      BY <1>11 DEF Sola
    <3>2. \A i \in Pedidos(h) : i \in Int
      BY LosPedidos
    <3>3. ASSUME NEW i \in Pedidos(h)
          PROVE  /\ Hecho(h, i)'
                 /\ i > e.i => hechos'[h][i] = 0
                 /\ i >= e.i => tomada'[h][i] = Nulo
      <4>1. CASE hechos'[h][i] = hechos[h][i]
        BY <1>6, <3>1, <4>1 DEF Orden, Sola, Hecho
      <4>2. CASE i = e.i /\ conexion[h] = "abierta" /\ hechos'[h][i] = 1
        <5>1. ~(i > e.i) /\ tomada[h][i] = Nulo
          BY <3>1, <3>2, <4>2 DEF Orden, Sola
        <5> QED BY <1>6, <4>2, <5>1 DEF Hecho
      <4> QED BY <1>11, <3>1, <4>1, <4>2
    <3> QED BY <1>5, <1>6, <1>11, <3>1, <3>3 DEF Orden, Sola, Pedidos
  <2> QED BY <2>3, <2>4, <2>5 DEF Orden
<1>12. CASE Compuerta(h)
  <2>1. /\ a.pc = "cabeza" /\ b.pc \in {"espera", "procesar"}
        /\ b.luego = a.luego /\ b.p = a.p /\ b.tras = a.tras
        /\ UNCHANGED <<alMemoria, alKernel, llenas, hechos>>
    BY <1>1, <1>12 DEF Compuerta, LocalesAtencion
  <2>2. llenas[h] = 0 /\ conexion[h] = "abierta" => EnCurso(h)'
    BY <1>6, <1>7, <2>1 DEF EnCurso, Atareada
  <2> QED BY <1>11, <2>1, <2>2 DEF Atareada
<1>13. CASE Entrar(h)
  <2>1. /\ a.pc = "espera" /\ b.pc = "procesar"
        /\ b.luego = a.luego /\ b.p = a.p /\ b.tras = a.tras
        /\ UNCHANGED <<alMemoria, alKernel, llenas, hechos>>
    BY <1>1, <1>13 DEF Entrar, LocalesAtencion
  <2>2. llenas[h] = 0 /\ conexion[h] = "abierta" => EnCurso(h)'
    BY <1>6, <1>7, <2>1 DEF EnCurso, Atareada
  <2> QED BY <1>11, <2>1, <2>2 DEF Atareada
<1>14. CASE JournalVaciar(h)
  <2>1. /\ a.pc = "procesar" /\ a.p = JOURNAL /\ b.pc = "bajarFlag"
        /\ b.luego = a.luego /\ b.p = a.p /\ b.tras = a.tras
        /\ UNCHANGED <<alMemoria, alKernel, llenas, hechos>>
    BY <1>1, <1>14 DEF JournalVaciar, LocalesAtencion
  <2> QED BY <1>7, <1>11, <2>1 DEF Atareada
<1>15. CASE JournalBajarFlag(h)
  <2>1. /\ a.pc = "bajarFlag" /\ b.pc = "responder"
        /\ b.luego = a.luego /\ b.p = a.p /\ b.tras = a.tras
        /\ UNCHANGED <<alMemoria, alKernel, llenas, hechos>>
    BY <1>1, <1>15 DEF JournalBajarFlag, LocalesAtencion
  <2> QED BY <1>2, <1>7, <1>11, <2>1 DEF Atareada
<1>16. CASE VolverACompuerta(h)
  <2>1. /\ a.pc = "responder" /\ a.r.header = "FULL_R" /\ b.pc = "cabeza"
        /\ b.luego = a.luego /\ b.p = a.p /\ b.tras = a.tras
        /\ UNCHANGED <<alMemoria, alKernel, llenas, hechos>>
    BY <1>1, <1>16 DEF VolverACompuerta, OtraVuelta, EsFull, LocalesAtencion
  <2>2. llenas[h] = 0 /\ conexion[h] = "abierta" => EnCurso(h)'
    BY <1>6, <1>7, <2>1 DEF EnCurso, Atareada, Respuesta
  <2> QED BY <1>11, <2>1, <2>2 DEF Atareada
<1>17. CASE Procesar(h)
  <2> DEFINE x == [header |-> IF llena THEN "FULL_R" ELSE "OK", de |-> a.p]
  <2>1. /\ a.pc = "procesar" /\ a.p # JOURNAL /\ b.pc = "responder" /\ b.r = x
        /\ b.luego = a.luego /\ b.p = a.p /\ b.tras = a.tras
        /\ UNCHANGED <<alMemoria, alKernel, llenas>>
    BY <1>1, <1>17 DEF Procesar, LocalesAtencion
  <2>2. a.p \in Pedidos(h)
    BY <1>2, <2>1 DEF Atareada
  <2>3. \A i \in Pedidos(h) :
          hechos'[h][i] = hechos[h][i] + (IF i = a.p /\ ~llena THEN 1 ELSE 0)
    <3>1. \A i \in Pedidos(h) : hechos[h][i] + 0 = hechos[h][i]
      BY <1>3
    <3> QED BY <1>1, <1>17, <2>2, <3>1 DEF Procesar
  <2>4. x = Respuesta(IF llena THEN "FULL_R" ELSE "OK", a.p)
    BY DEF Respuesta
  <2>5. CASE llenas[h] = 0 /\ conexion[h] = "abierta"
    <3>1. a.p = e.i /\ hechos[h][e.i] = 0 /\ e.pc = "recibir"
          /\ alMemoria[h] = <<>> /\ alKernel[h] = <<>>
      BY <1>7, <2>1, <2>5 DEF Atareada
    <3>2. hechos'[h][e.i] = IF llena THEN 0 ELSE 1
      BY <2>2, <2>3, <3>1
    <3>3. EnCurso(h)'
      BY <1>6, <2>1, <2>4, <3>1, <3>2 DEF EnCurso
    <3>4. \A i \in Pedidos(h) :
            \/ hechos'[h][i] = hechos[h][i]
            \/ i = e.i /\ conexion[h] = "abierta" /\ hechos'[h][i] = 1
      BY <1>3, <2>3, <2>5, <3>1, <3>2
    <3> QED BY <1>11, <2>1, <3>3, <3>4 DEF Atareada
  <2>6. CASE llenas[h] = 0 /\ conexion[h] = "cerrada"
    <3>1. FALSE
      BY <2>1, <2>6, <1>2 DEF Orden, Cierre, Sola
    <3> QED BY <3>1
  <2>7. CASE llenas[h] # 0
    BY <1>11, <2>1, <2>7 DEF Atareada
  <2> QED BY <1>1, <1>5, <2>5, <2>6, <2>7

\* It takes the next request.
<1>18. alMemoria[h] # <<>> => ~(conexion[h] = "cerrada" /\ journals[h] = 0)
  BY DEF Orden, Cierre
<1>19. alMemoria[h] # <<>> => Len(Tail(alMemoria[h])) = Len(alMemoria[h]) - 1
  BY <1>3
<1>20. ASSUME a.pc \in {"inicio", "otro"}, alMemoria[h] # <<>>,
              conexion[h] = "abierta" => Head(alMemoria[h]) # JOURNAL,
              b.pc = "cabeza", b.p = Head(alMemoria[h]), b.luego = a.luego, b.tras = a.tras,
              alMemoria'[h] = Tail(alMemoria[h]), UNCHANGED <<alKernel, hechos, llenas>>
       PROVE  Orden(h)'
  <2>1. k' = k /\ m' = m - 1 /\ (conexion[h] = "abierta" => c' = c)
    <3>1. Cuantos(alMemoria[h])' = Cuantos(Tail(alMemoria[h]))
      BY <1>20
    <3>2. conexion[h] = "abierta" => Cuantos(Tail(alMemoria[h])) = Cuantos(alMemoria[h])
      BY <1>4, <1>20
    <3> QED BY <1>19, <1>20, <3>1, <3>2 DEF k, m, c
  <2>2. n = 0 /\ n' = 1 /\ d' = d
    BY <1>20 DEF n, d, EnManos, Doble
  <2>3. Balance(h)'
    BY <1>6, <1>8, <1>9, <1>10, <2>1, <2>2
  <2>4. Primera(h)' /\ Cierre(h)'
    BY <1>6, <1>18, <1>20 DEF Orden, Primera, Cierre
  <2>5. llenas[h] = 0 /\ conexion[h] = "abierta" => EnCurso(h)'
    <3>1. SUFFICES ASSUME llenas[h] = 0, conexion[h] = "abierta" PROVE EnCurso(h)'
      OBVIOUS
    <3>2. e.pc = "recibir" /\ alMemoria[h] = <<e.i>> /\ alKernel[h] = <<>> /\ hechos[h][e.i] = 0
      BY <1>20, <3>1 DEF Orden, Sola, EnCurso
    <3>3. Head(alMemoria[h]) = e.i /\ Tail(alMemoria[h]) = <<>>
      BY <3>2
    <3> QED BY <1>6, <1>20, <3>2, <3>3 DEF EnCurso
  <2>6. Sola(h)'
    BY <1>5, <1>6, <1>20, <2>5 DEF Orden, Sola, Hecho, Pedidos
  <2> QED BY <2>3, <2>4, <2>6 DEF Orden
<1>21. CASE Atender(h)
  <2>1. /\ a.pc = "inicio" /\ alMemoria[h] # <<>>
        /\ b.pc = "cabeza" /\ b.p = Head(alMemoria[h]) /\ b.luego = a.luego /\ b.tras = a.tras
        /\ alMemoria'[h] = Tail(alMemoria[h]) /\ UNCHANGED <<alKernel, hechos, llenas>>
    BY <1>1, <1>21 DEF Atender, LocalesAtencion
  <2>2. conexion[h] = "abierta" => Head(alMemoria[h]) # JOURNAL
    BY <1>4, <2>1 DEF Orden, Primera
  <2> QED BY <1>20, <2>1, <2>2
<1>22. CASE AtenderOtro(h)
  <2>1. /\ a.pc = "otro" /\ alMemoria[h] # <<>> /\ Head(alMemoria[h]) # JOURNAL
        /\ b.pc = "cabeza" /\ b.p = Head(alMemoria[h]) /\ b.luego = a.luego /\ b.tras = a.tras
        /\ alMemoria'[h] = Tail(alMemoria[h]) /\ UNCHANGED <<alKernel, hechos, llenas>>
    BY <1>1, <1>22 DEF AtenderOtro, LocalesAtencion
  <2> QED BY <1>20, <2>1
<1>23. CASE AtenderJournal(h)
  <2>1. /\ a.pc = "otro" /\ alMemoria[h] # <<>> /\ Head(alMemoria[h]) = JOURNAL
        /\ b.pc = "procesar" /\ b.luego = "cabeza" /\ b.tras = a.tras
        /\ alMemoria'[h] = Tail(alMemoria[h]) /\ UNCHANGED <<alKernel, hechos, llenas>>
    BY <1>1, <1>23 DEF AtenderJournal, LocalesAtencion
  <2>2. k' = k /\ m' = m - 1 /\ c' = c - 1
    <3>1. Cuantos(alMemoria[h])' = Cuantos(Tail(alMemoria[h]))
      BY <2>1
    <3>2. Cuantos(Tail(alMemoria[h])) = Cuantos(alMemoria[h]) - 1
      BY <1>4, <2>1
    <3> QED BY <1>19, <2>1, <3>1, <3>2 DEF k, m, c
  <2>3. n = 0 /\ n' = 1 /\ d = 0 /\ d' = 1
    BY <1>2, <2>1 DEF n, d, EnManos, Doble
  <2>4. Balance(h)'
    BY <1>6, <1>8, <1>9, <1>10, <2>2, <2>3
  <2>5. Primera(h)' /\ Cierre(h)'
    BY <1>6, <1>18, <2>1 DEF Orden, Primera, Cierre
  <2>6. ~(llenas[h] = 0 /\ conexion[h] = "abierta")
    <3>1. e.pc = "recibir" => e.i # JOURNAL
      BY LosPedidos DEF Base, TypeOK, JOURNAL
    <3> QED BY <2>1, <3>1 DEF Orden, Sola, EnCurso
  <2>7. Sola(h)'
    BY <1>5, <1>6, <2>1, <2>6 DEF Orden, Sola, Hecho, Pedidos
  <2> QED BY <2>4, <2>5, <2>7 DEF Orden
<1>24. CASE Desconectado(h)
  <2>1. /\ conexion[h] = "cerrada" /\ a.pc \in {"inicio", "otro"}
        /\ b.pc = "fin" \/ b.luego = "fin"
        /\ b.tras = a.tras
        /\ UNCHANGED <<alMemoria, alKernel, hechos, llenas>>
    BY <1>1, <1>24 DEF Desconectado, LocalesAtencion
  <2>2. Balance(h)' /\ Primera(h)'
    BY <1>6, <2>1 DEF Balance, Primera
  <2>3. Cierre(h)'
    BY <1>2, <1>6, <2>1 DEF Orden, Cierre
  <2>4. Sola(h)'
    BY <1>6, <2>1 DEF Orden, Sola, Hecho, Pedidos
  <2> QED BY <2>2, <2>3, <2>4 DEF Orden

\* It answers.
<1>25. CASE Responder(h)
  <2>1. /\ a.pc = "responder" /\ b.pc = a.luego /\ b.luego = "otro"
        /\ b.tras = a.tras + (IF conexion[h] = "cerrada" THEN 1 ELSE 0)
        /\ alKernel'[h] = IF conexion[h] = "abierta" THEN Append(alKernel[h], a.r) ELSE alKernel[h]
        /\ llenas' = IF EsFull(h) THEN [llenas EXCEPT ![h] = @ + 1] ELSE llenas
        /\ UNCHANGED <<alMemoria, hechos>>
    BY <1>1, <1>25 DEF Responder, LocalesAtencion
  <2>2. llenas'[h] = 0 => llenas[h] = 0 /\ a.r.header # "FULL_R"
    <3>1. llenas[h] \in Nat
      BY <1>1
    <3> QED BY <1>1, <2>1, <3>1 DEF EsFull
  <2>3. Balance(h)'
    <3>1. SUFFICES ASSUME conexion[h] = "abierta" PROVE Balance(h)'
      BY <1>6 DEF Balance
    <3>2. k' = k + 1 /\ m' = m /\ c' = c
      <4>1. alKernel'[h] = Append(alKernel[h], a.r)
        BY <2>1, <3>1
      <4>2. Len(Append(alKernel[h], a.r)) = Len(alKernel[h]) + 1
        BY <1>3
      <4> QED BY <2>1, <4>1, <4>2 DEF k, m, c
    <3>3. CASE a.luego = "otro"
      <4>1. n = 1 /\ n' = 0 /\ d = 0 /\ d' = 0
        BY <2>1, <3>3 DEF n, d, EnManos, Doble
      <4> QED BY <1>8, <1>9, <1>10, <3>1, <3>2, <4>1
    <3>4. CASE a.luego = "cabeza"
      <4>1. n = 1 /\ n' = 1 /\ d = 1 /\ d' = 0
        BY <2>1, <3>4 DEF n, d, EnManos, Doble
      <4> QED BY <1>8, <1>9, <1>10, <3>1, <3>2, <4>1
    <3>5. a.luego # "fin"
      BY <3>1 DEF Orden, Cierre
    <3> QED BY <1>1, <3>3, <3>4, <3>5
  <2>4. Primera(h)' /\ Cierre(h)'
    <3>1. Primera(h)'
      BY <1>1, <2>1 DEF Primera, LocalesAtencion
    <3>2. CASE conexion[h] = "abierta"
      BY <1>1, <1>6, <2>1, <3>1, <3>2 DEF Orden, Cierre
    <3>3. CASE conexion[h] = "cerrada"
      BY <1>1, <1>6, <2>1, <3>1, <3>3 DEF Orden, Cierre
    <3> QED BY <1>1, <1>5, <3>1, <3>2, <3>3
  <2>5. Sola(h)'
    <3>1. SUFFICES ASSUME llenas'[h] = 0 PROVE Sola(h)'
      BY DEF Sola
    <3>2. conexion[h] = "abierta" => EnCurso(h)'
      <4>1. SUFFICES ASSUME conexion[h] = "abierta" PROVE EnCurso(h)'
        OBVIOUS
      <4>2. /\ e.pc = "recibir" /\ a.p # JOURNAL /\ alMemoria[h] = <<>> /\ alKernel[h] = <<>>
            /\ a.r = Respuesta("OK", e.i) /\ hechos[h][e.i] = 1
        BY <1>7, <2>1, <2>2, <3>1, <4>1 DEF Atareada, Respuesta
      <4>3. b.pc = "otro"
        BY <1>2, <2>1, <4>2
      <4>4. alKernel'[h] = <<Respuesta("OK", e.i)>>
        BY <2>1, <4>1, <4>2
      <4> QED BY <1>6, <2>1, <4>2, <4>3, <4>4 DEF EnCurso
    <3> QED BY <1>5, <1>6, <2>1, <2>2, <3>1, <3>2 DEF Orden, Sola, Hecho, Pedidos
  <2> QED BY <2>3, <2>4, <2>5 DEF Orden
<1> QED BY <1>12, <1>13, <1>14, <1>15, <1>16, <1>17, <1>21, <1>22, <1>23, <1>24, <1>25 DEF AtenderRequest

LEMMA MorirOrden ==
  ASSUME Base, NEW h \in Conexiones, Orden(h), NEW motivo \in {"memoriaSIGPIPE", "memoriaMatada"},
         Morir(motivo)
  PROVE  Orden(h)'
<1>1. /\ conexion'[h] = IF conexion[h] = "abierta" THEN "cortada" ELSE conexion[h]
      /\ alMemoria'[h] = <<>> /\ atencion'[h] = Ausente /\ caida' # "no"
      /\ UNCHANGED <<ejecutor, alKernel, hechos, tomada, llenas, journals>>
  BY DEF Morir, historia
<1>2. Balance(h)' /\ Primera(h)'
  BY <1>1 DEF Balance, Primera
<1>3. Cierre(h)'
  BY <1>1 DEF Orden, Cierre, Ausente
<1>4. Sola(h)'
  <2>1. SUFFICES ASSUME llenas[h] = 0 PROVE Sola(h)'
    BY <1>1 DEF Sola
  <2>2. CASE conexion[h] = "abierta"
    <3>1. EnCurso(h)
      BY <2>1, <2>2 DEF Orden, Sola
    <3>2. \/ alKernel[h] = <<>>
          \/ /\ alKernel[h] = <<Respuesta("OK", ejecutor[h].i)>>
             /\ ejecutor[h].pc = "recibir" /\ hechos[h][ejecutor[h].i] = 1
      BY <3>1 DEF EnCurso
    <3> QED BY <1>1, <2>1, <2>2, <3>2 DEF Orden, Sola, Hecho, Pedidos
  <2>3. CASE conexion[h] # "abierta"
    BY <1>1, <2>1, <2>3 DEF Orden, Sola, Hecho, Pedidos
  <2> QED BY <2>2, <2>3
<1> QED BY <1>2, <1>3, <1>4 DEF Orden

-----------------------------------------------------------------------------
(* The inductive invariant, and what follows from it. *)

Ordenada ==
  /\ Base
  /\ \A h \in Conexiones : Orden(h)
  /\ SoloJournalMata

LEMMA OrdenadaInicial == Init => Ordenada
<1> SUFFICES ASSUME Init PROVE Ordenada
  OBVIOUS
<1>1. ASSUME NEW h \in Conexiones
      PROVE  Orden(h)
  <2>1. /\ ejecutor[h] = [pc |-> "enviar", i |-> 1, tras |-> 0]
        /\ alMemoria[h] = <<>> /\ alKernel[h] = <<>> /\ atencion[h] = Ausente
        /\ conexion[h] = "abierta" /\ llenas[h] = 0 /\ journals[h] = 0
        /\ \A i \in Pedidos(h) : hechos[h][i] = 0 /\ tomada[h][i] = Nulo
    BY DEF Init
  <2>2. Cuantos(alMemoria[h]) = 0
    <3>1. <<>> \in Seq(Int) /\ 0 \in Int
      OBVIOUS
    <3> QED BY <2>1, <3>1, CuantosCola
  <2>3. Len(alMemoria[h]) = 0 /\ Len(alKernel[h]) = 0
    BY <2>1
  <2>4. EnManos(h) = 0 /\ Doble(h) = 0 /\ Espera(h) = 0
    BY <2>1 DEF EnManos, Doble, Espera, Esperando, Ausente
  <2>5. Balance(h)
    BY <2>1, <2>2, <2>3, <2>4 DEF Balance
  <2>6. Primera(h) /\ Cierre(h)
    BY <2>1, <2>2 DEF Primera, Cierre, Ausente
  <2>7. Sola(h)
    <3>1. 1 \in Pedidos(h)
      BY LosPedidos DEF Pedidos
    <3>2. EnCurso(h)
      BY <2>1, <3>1 DEF EnCurso, Ausente
    <3> QED BY <2>1, <3>2 DEF Sola, Hecho
  <2> QED BY <2>5, <2>6, <2>7 DEF Orden
<1>2. SoloJournalMata
  BY DEF Init, SoloJournalMata
<1> QED BY <1>1, <1>2, BaseInicial DEF Ordenada

LEMMA SoloJournalMataPaso ==
  ASSUME Ordenada, [Next]_vars
  PROVE  SoloJournalMata'
<1> USE DEF estado, red, historia
<1>1. /\ journals \in [Conexiones -> Nat]
      /\ \A h \in Conexiones : Cierre(h)
  BY DEF Ordenada, Base, TypeOK, Orden
<1>2. SoloJournalMata
  BY DEF Ordenada
<1>3. CASE UNCHANGED <<caida, journals>>
  BY <1>2, <1>3 DEF SoloJournalMata
<1>4. ASSUME NEW h \in Conexiones, EnviarJournal(h)
      PROVE  SoloJournalMata'
  BY <1>1, <1>2, <1>4 DEF EnviarJournal, SoloJournalMata
<1>5. ASSUME NEW h \in Conexiones, Ejecutar(h), ~EnviarJournal(h)
      PROVE  UNCHANGED <<caida, journals>>
  BY <1>5 DEF Ejecutar, Enviar, EnviarTrasCorte, Recibir, RecibirError, Cerrar
<1>6. ASSUME NEW h \in Conexiones, MorirKernel(h)
      PROVE  SoloJournalMata'
  BY <1>6 DEF MorirKernel, SoloJournalMata
<1>7. ASSUME NEW h \in Conexiones, AtenderRequest(h)
      PROVE  UNCHANGED <<caida, journals>>
  BY <1>7 DEF AtenderRequest, Atender, Compuerta, Entrar, Procesar, JournalVaciar,
              JournalBajarFlag, VolverACompuerta, Responder, AtenderOtro, AtenderJournal,
              Desconectado
<1>8. CASE MorirMemoria
  <2>1. PICK h \in Conexiones : conexion[h] = "cerrada" /\ atencion[h].tras > 1
    BY <1>8 DEF MorirMemoria
  <2>2. journals[h] # 0
    <3>1. atencion[h].tras \in Nat
      BY DEF Ordenada, Base, TypeOK, LocalesAtencion
    <3>2. Cierre(h)
      BY <1>1
    <3> QED BY <2>1, <3>1, <3>2 DEF Cierre
  <2>3. journals[h] \in Nat /\ journals' = journals
    BY <1>1, <1>8 DEF MorirMemoria, Morir
  <2> QED BY <2>2, <2>3 DEF SoloJournalMata
<1>9. CASE Matar
  BY <1>9 DEF Matar, Morir, SoloJournalMata
<1>10. CASE Llenar \/ ProcesoJournal
  BY <1>3, <1>10 DEF Llenar, ProcesoJournal
<1>11. CASE UNCHANGED vars
  BY <1>3, <1>11 DEF vars
<1> QED BY <1>3, <1>4, <1>5, <1>6, <1>7, <1>8, <1>9, <1>10, <1>11 DEF Next

LEMMA OrdenadaPaso == Ordenada /\ [Next]_vars => Ordenada'
<1> SUFFICES ASSUME Ordenada, [Next]_vars PROVE Ordenada'
  OBVIOUS
<1>1. Base /\ \A h \in Conexiones : Orden(h)
  BY DEF Ordenada
<1>2. Base'
  BY <1>1, BasePaso
<1>3. SoloJournalMata'
  BY SoloJournalMataPaso
<1>4. ASSUME NEW g \in Conexiones
      PROVE  Orden(g)'
  <2>1. ASSUME NEW h \in Conexiones, Ejecutar(h) \/ MorirKernel(h) \/ AtenderRequest(h)
        PROVE  Orden(g)'
    <3>1. CASE g = h
      BY <1>1, <2>1, <3>1, EjecutarOrden, AtenderOrden
    <3>2. CASE g # h
      BY <1>1, <2>1, <3>2, Ajenos, OrdenIgual
    <3> QED BY <3>1, <3>2
  <2>2. CASE MorirMemoria \/ Matar
    BY <1>1, <2>2, MorirOrden DEF MorirMemoria, Matar
  <2>3. CASE Llenar \/ ProcesoJournal \/ UNCHANGED vars
    <3>1. Igual(g)
      BY <2>3 DEF Llenar, ProcesoJournal, vars, red, historia, Igual
    <3> QED BY <1>1, <3>1, OrdenIgual
  <2> QED BY <2>1, <2>2, <2>3 DEF Next
<1> QED BY <1>2, <1>3, <1>4 DEF Ordenada

LEMMA SiempreOrdenada == Spec => []Ordenada
  BY OrdenadaInicial, OrdenadaPaso, PTL DEF Spec

\* For any connections and lengths, the answers on their way exceed the requests
\* that wait for one by the JOURNALs sent, as long as nobody has died or closed.
THEOREM DesfaseDeJournal == Spec => []Desfase
<1>1. ASSUME Ordenada PROVE Desfase
  <2>1. SUFFICES ASSUME NEW h \in Conexiones, conexion[h] = "abierta"
                 PROVE  Len(alKernel[h]) + PorContestar(h)
                        = journals[h] + (IF Esperando(h) THEN 1 ELSE 0)
    BY DEF Desfase
  <2> DEFINE k == Len(alKernel[h])
             m == Len(alMemoria[h])
             c == Cuantos(alMemoria[h])
             n == EnManos(h)
             d == Doble(h)
             j == journals[h]
             w == Espera(h)
  <2>2. k \in Nat /\ m \in Nat /\ c \in Nat /\ n \in Nat /\ d \in Nat
    <3>1. /\ alKernel[h] \in Seq(Respuestas)
          /\ alMemoria[h] \in Seq(Pedidos(h) \cup {JOURNAL})
      BY <1>1 DEF Ordenada, Base, TypeOK, Manos
    <3>2. alMemoria[h] \in Seq(Int) /\ JOURNAL \in Int
      BY <3>1, LosPedidos
    <3>3. c \in Nat
      BY <3>2, CuantosCola
    <3>4. n \in Nat /\ d \in Nat
      BY DEF EnManos, Doble
    <3> QED BY <3>1, <3>3, <3>4
  <2>3. k + m + c + n + d = j + w
    BY <1>1, <2>1 DEF Ordenada, Orden, Balance
  <2>4. PorContestar(h) = m + c + n + d
    BY DEF PorContestar, Cuantos, CuantosDe, EnManos, Doble
  <2>5. w = IF Esperando(h) THEN 1 ELSE 0
    BY DEF Espera
  <2> HIDE DEF k, m, c, n, d, j, w
  <2>6. k + (m + c + n + d) = j + w
    BY <2>2, <2>3
  <2> QED BY <2>4, <2>5, <2>6 DEF k, j
<1> QED BY <1>1, SiempreOrdenada, PTL

\* For any connections and lengths, a memory dies of a closed connection only
\* if some executor has sent a JOURNAL.
THEOREM MuertePorJournal == Spec => []SoloJournalMata
<1>1. Ordenada => SoloJournalMata
  BY DEF Ordenada
<1> QED BY <1>1, SiempreOrdenada, PTL

\* For any connections and lengths, a turn that was never told FULL_R runs each
\* request once and takes its own answer.
THEOREM TurnoSinFull == Spec => []UnaVez
<1>1. Ordenada => UnaVez
  BY DEF Ordenada, Orden, Sola, Hecho, UnaVez
<1> QED BY <1>1, SiempreOrdenada, PTL

-----------------------------------------------------------------------------
(* The retry after one FULL_R. *)

Ocupada(h) == atencion[h].pc \in Atareada

Cubierta(h, i) == hechos[h][i] > 0 \/ EnCamino(h, i)

\* The request that got the FULL_R is in nobody's hands: the executor is still to
\* read that answer, and nothing else travels, ..
Perdida(h) ==
  /\ ejecutor[h].pc = "recibir"
  /\ alMemoria[h] = <<>> /\ ~Ocupada(h)
  /\ \E r \in Respuestas : r.header = "FULL_R" /\ alKernel[h] = <<r>>

\* .. or has read it, and only the JOURNAL travels, ..
Journaleando(h) ==
  \/ /\ ejecutor[h].pc = "journal"
     /\ alMemoria[h] = <<>> /\ alKernel[h] = <<>> /\ ~Ocupada(h)
  \/ /\ ejecutor[h].pc = "recibirJournal"
     /\ ToSet(alMemoria[h]) \subseteq {JOURNAL}
     /\ ToSet(alKernel[h]) \subseteq {JournalR}
     /\ Ocupada(h) => atencion[h].p = JOURNAL

\* .. or has it yet to send again, or has sent it.
Retomada(h) ==
  /\ ejecutor[h].pc \notin {"journal", "recibirJournal"}
  /\ ejecutor[h].pc = "recibir" => Cubierta(h, ejecutor[h].i)
  /\ \A r \in ToSet(alKernel[h]) : r.header # "FULL_R"

Retoma(h) ==
  llenas[h] < 2 /\ MemoriaViva =>
    /\ ~Ocupada(h) => atencion[h].p = Nulo
    /\ /\ atencion[h].pc = "responder" /\ atencion[h].p # JOURNAL
       /\ atencion[h].r.header # "FULL_R"
       => hechos[h][atencion[h].p] > 0
    /\ conexion[h] = "cerrada" => ejecutor[h].pc = "fin"
    /\ \A i \in 1..ejecutor[h].i - 1 : Cubierta(h, i)
    /\ Perdida(h) \/ Journaleando(h) \/ Retomada(h)

LEMMA LoQueHay ==
  ASSUME NEW T, NEW s \in Seq(T), NEW e \in T
  PROVE  /\ ToSet(Append(s, e)) = ToSet(s) \cup {e}
         /\ ToSet(<<>>) = {}
         /\ s # <<>> => ToSet(s) = {Head(s)} \cup ToSet(Tail(s))
<1>1. ToSet(Append(s, e)) = ToSet(s) \cup {e}
  <2>1. /\ DOMAIN s = 1..Len(s) /\ DOMAIN Append(s, e) = 1..Len(s) + 1 /\ Len(s) \in Nat
        /\ \A i \in 1..Len(s) : Append(s, e)[i] = s[i]
        /\ Append(s, e)[Len(s) + 1] = e
    OBVIOUS
  <2>2. \A i \in 1..Len(s) + 1 : i \in 1..Len(s) \/ i = Len(s) + 1
    BY <2>1
  <2>3. \A i \in 1..Len(s) : i \in 1..Len(s) + 1
    BY <2>1
  <2>4. Len(s) + 1 \in 1..Len(s) + 1
    BY <2>1
  <2> QED BY <2>1, <2>2, <2>3, <2>4, ZenonT(60) DEF ToSet
<1>2. ToSet(<<>>) = {}
  BY DEF ToSet
<1>3. ASSUME s # <<>>
      PROVE  ToSet(s) = {Head(s)} \cup ToSet(Tail(s))
  <2>1. /\ Len(s) \in Nat \ {0} /\ DOMAIN s = 1..Len(s)
        /\ DOMAIN Tail(s) = 1..Len(s) - 1
        /\ \A i \in 1..Len(s) - 1 : Tail(s)[i] = s[i + 1]
        /\ Head(s) = s[1]
    BY <1>3
  <2>2. \A i \in 1..Len(s) : i = 1 \/ (i - 1 \in 1..Len(s) - 1 /\ i = (i - 1) + 1)
    BY <2>1
  <2>3. ToSet(s) \subseteq {Head(s)} \cup ToSet(Tail(s))
    <3>1. \A i \in 1..Len(s) : s[i] = Head(s) \/ (i - 1 \in DOMAIN Tail(s) /\ s[i] = Tail(s)[i - 1])
      BY <2>1, <2>2
    <3>2. 1..Len(s) = DOMAIN s
      BY <2>1
    <3> QED BY <3>1, <3>2, ZenonT(60) DEF ToSet
  <2>4. \A i \in 1..Len(s) - 1 : i + 1 \in 1..Len(s)
    BY <2>1
  <2>5. 1 \in 1..Len(s)
    BY <2>1
  <2>6. {Head(s)} \cup ToSet(Tail(s)) \subseteq ToSet(s)
    <3>1. \A i \in DOMAIN Tail(s) : i + 1 \in DOMAIN s /\ Tail(s)[i] = s[i + 1]
      BY <2>1, <2>4
    <3>2. 1 \in DOMAIN s /\ Head(s) = s[1]
      BY <2>1, <2>5
    <3> QED BY <3>1, <3>2 DEF ToSet
  <2> QED BY <2>3, <2>6
<1> QED BY <1>1, <1>2, <1>3

LEMMA RetomaIgual ==
  ASSUME NEW h \in Conexiones, Retoma(h), Igual(h)
  PROVE  Retoma(h)'
<1>1. SUFFICES ASSUME llenas'[h] < 2, MemoriaViva' PROVE Retoma(h)'
  BY DEF Retoma
<1>2. llenas[h] < 2 /\ MemoriaViva
  BY <1>1 DEF Igual, MemoriaViva
<1>3. \A i : Cubierta(h, i)' <=> Cubierta(h, i)
  BY DEF Cubierta, EnCamino, Igual
<1>4. Perdida(h) => Perdida(h)'
  BY DEF Perdida, Ocupada, Igual
<1>5. Journaleando(h) => Journaleando(h)'
  BY DEF Journaleando, Ocupada, Igual
<1>6. Retomada(h) => Retomada(h)'
  BY <1>3 DEF Retomada, Igual
<1> QED BY <1>2, <1>3, <1>4, <1>5, <1>6 DEF Retoma, Ocupada, Igual

LEMMA EjecutarRetoma ==
  ASSUME Base, NEW h \in Conexiones, Orden(h), Retoma(h), Ejecutar(h) \/ MorirKernel(h)
  PROVE  Retoma(h)'
<1> USE DEF estado, red, historia
<1> DEFINE e == ejecutor[h]
           a == atencion[h]
<1>0. SUFFICES ASSUME llenas'[h] < 2, MemoriaViva' PROVE Retoma(h)'
  BY DEF Retoma
<1>1. /\ UNCHANGED <<atencion, hechos, llenas>>
      /\ MemoriaViva
  BY <1>0 DEF Ejecutar, Enviar, EnviarJournal, EnviarTrasCorte, Recibir, RecibirError, Cerrar,
              MorirKernel, MemoriaViva
<1>2. conexion[h] # "cortada"
  BY <1>1 DEF Orden, Cierre, MemoriaViva
<1>3. /\ ejecutor \in [Conexiones -> LocalesEjecutor] /\ e \in LocalesEjecutor /\ e.i \in Nat
      /\ DOMAIN alMemoria = Conexiones /\ DOMAIN alKernel = Conexiones
      /\ DOMAIN conexion = Conexiones
      /\ alMemoria[h] \in Seq(Numeros \cup {JOURNAL}) /\ alKernel[h] \in Seq(Respuestas)
  BY DEF Base, TypeOK, LocalesEjecutor
<1>4. e.pc \notin {"cerrar", "fin"} => e.i \in Numeros
  <2>1. e.i \in 1..Largo[h] + (IF e.pc \in {"cerrar", "fin"} THEN 1 ELSE 0) /\ Largo[h] \in Nat
    BY LosPedidos DEF Base, TypeOK
  <2> QED BY <2>1, LosPedidos DEF Pedidos
<1>5. /\ ~Ocupada(h) => a.p = Nulo
      /\ a.pc = "responder" /\ a.p # JOURNAL /\ a.r.header # "FULL_R" => hechos[h][a.p] > 0
      /\ conexion[h] = "cerrada" => e.pc = "fin"
      /\ \A i \in 1..e.i - 1 : Cubierta(h, i)
      /\ Perdida(h) \/ Journaleando(h) \/ Retomada(h)
  BY <1>0, <1>1 DEF Retoma
<1>6. Ocupada(h)' <=> Ocupada(h)
  BY <1>1 DEF Ocupada
<1>7. CASE Enviar(h)
  <2>1. /\ conexion[h] = "abierta" /\ e.pc = "enviar"
        /\ alMemoria'[h] = Append(alMemoria[h], e.i)
        /\ ejecutor'[h].pc = "recibir" /\ ejecutor'[h].i = e.i
        /\ UNCHANGED <<alKernel, conexion>>
    BY <1>3, <1>7 DEF Enviar, LocalesEjecutor
  <2>2. ToSet(alMemoria'[h]) = ToSet(alMemoria[h]) \cup {e.i}
    BY <1>3, <1>4, <2>1, LoQueHay
  <2>3. \A i : Cubierta(h, i) => Cubierta(h, i)'
    BY <1>1, <2>2 DEF Cubierta, EnCamino
  <2>4. Cubierta(h, e.i)'
    BY <2>1, <2>2 DEF Cubierta, EnCamino
  <2>5. Retomada(h)
    BY <1>5, <2>1 DEF Perdida, Journaleando
  <2>6. Retomada(h)'
    BY <2>1, <2>4, <2>5 DEF Retomada
  <2> QED BY <1>1, <1>5, <1>6, <2>1, <2>3, <2>6 DEF Retoma
<1>8. CASE EnviarJournal(h)
  <2>1. /\ conexion[h] = "abierta" /\ e.pc = "journal"
        /\ alMemoria'[h] = Append(alMemoria[h], JOURNAL)
        /\ ejecutor'[h].pc = "recibirJournal" /\ ejecutor'[h].i = e.i
        /\ UNCHANGED <<alKernel, conexion>>
    BY <1>3, <1>8 DEF EnviarJournal, LocalesEjecutor
  <2>2. ToSet(alMemoria'[h]) = ToSet(alMemoria[h]) \cup {JOURNAL}
    BY <1>3, <2>1, LoQueHay
  <2>3. \A i : Cubierta(h, i) => Cubierta(h, i)'
    BY <1>1, <2>2 DEF Cubierta, EnCamino
  <2>4. alMemoria[h] = <<>> /\ alKernel[h] = <<>> /\ ~Ocupada(h)
    BY <1>5, <2>1 DEF Perdida, Journaleando, Retomada
  <2>5. ToSet(alMemoria'[h]) = {JOURNAL} /\ ToSet(alKernel'[h]) = {}
    BY <2>1, <2>2, <2>4 DEF ToSet
  <2>6. Journaleando(h)'
    BY <1>6, <2>1, <2>4, <2>5 DEF Journaleando
  <2> QED BY <1>1, <1>5, <1>6, <2>1, <2>3, <2>6 DEF Retoma
<1>9. CASE Recibir(h)
  <2> DEFINE r == Head(alKernel[h])
  <2>1. /\ conexion[h] # "cerrada" /\ Esperando(h) /\ alKernel[h] # <<>>
        /\ ejecutor'[h] = TrasRecibir(h, r.header) /\ alKernel'[h] = Tail(alKernel[h])
        /\ UNCHANGED <<alMemoria, conexion>>
    BY <1>3, <1>9 DEF Recibir
  <2>2. ToSet(alKernel[h]) = {r} \cup ToSet(alKernel'[h])
    BY <1>3, <2>1, LoQueHay, JournalR \in Respuestas DEF Respuestas
  <2>3. \A i : Cubierta(h, i)' <=> Cubierta(h, i)
    BY <1>1, <2>1 DEF Cubierta, EnCamino
  <2>4. /\ r.header = "FULL_R" /\ e.pc = "recibir" =>
             ejecutor'[h].pc = "journal" /\ ejecutor'[h].i = e.i
        /\ r.header = "JOURNAL_R" => ejecutor'[h].pc = "enviar" /\ ejecutor'[h].i = e.i
        /\ r.header = "OK" =>
             ejecutor'[h].pc \in {"enviar", "cerrar"} /\ ejecutor'[h].i = e.i + 1
    BY <1>3, <2>1 DEF TrasRecibir, Siguiente, LocalesEjecutor
  <2>5. r.header \in {"OK", "FULL_R", "JOURNAL_R"}
    <3>1. r \in Respuestas
      BY <1>3, <2>1
    <3> QED BY <3>1 DEF Respuestas, JournalR
  <2>6. CASE Perdida(h)
    <3>1. r.header = "FULL_R" /\ alKernel'[h] = <<>>
      BY <2>1, <2>6 DEF Perdida
    <3>2. Journaleando(h)'
      BY <1>6, <2>1, <2>4, <2>6, <3>1 DEF Perdida, Journaleando
    <3> QED BY <1>1, <1>5, <1>6, <2>1, <2>3, <2>4, <2>6, <3>1, <3>2 DEF Retoma, Perdida
  <2>7. CASE Journaleando(h)
    <3>1. ToSet(alKernel[h]) \subseteq {JournalR}
      BY <2>1, <2>7 DEF Journaleando, Esperando
    <3>2. r.header = "JOURNAL_R" /\ ToSet(alKernel'[h]) \subseteq {JournalR}
      BY <2>2, <3>1 DEF JournalR
    <3>3. Retomada(h)'
      BY <2>4, <3>2 DEF Retomada, JournalR
    <3> QED BY <1>1, <1>5, <1>6, <2>1, <2>3, <2>4, <3>2, <3>3 DEF Retoma
  <2>8. CASE Retomada(h)
    <3>1. e.pc = "recibir" /\ Cubierta(h, e.i) /\ r.header # "FULL_R"
      BY <2>1, <2>2, <2>8 DEF Retomada, Esperando
    <3>2. ejecutor'[h].pc \in {"enviar", "cerrar"} /\ ejecutor'[h].i \in {e.i, e.i + 1}
      BY <2>4, <2>5, <3>1
    <3>3. Retomada(h)'
      BY <2>2, <2>8, <3>2 DEF Retomada
    <3>4. \A i \in 1..ejecutor'[h].i - 1 : i = e.i \/ i \in 1..e.i - 1
      BY <1>3, <3>2
    <3>5. \A i \in 1..ejecutor'[h].i - 1 : Cubierta(h, i)'
      BY <1>5, <2>3, <3>1, <3>4
    <3> QED BY <1>1, <1>5, <1>6, <2>1, <3>3, <3>5 DEF Retoma
  <2> QED BY <1>5, <2>6, <2>7, <2>8
<1>10. CASE Cerrar(h)
  <2>1. /\ e.pc = "cerrar" /\ alKernel'[h] = <<>>
        /\ ejecutor'[h].pc = "fin" /\ ejecutor'[h].i = e.i
        /\ UNCHANGED alMemoria
    BY <1>3, <1>10 DEF Cerrar, LocalesEjecutor
  <2>2. \A i : Cubierta(h, i)' <=> Cubierta(h, i)
    BY <1>1, <2>1 DEF Cubierta, EnCamino
  <2>3. Retomada(h)'
    BY <2>1 DEF Retomada, ToSet
  <2> QED BY <1>1, <1>5, <1>6, <2>1, <2>2, <2>3 DEF Retoma
<1>11. CASE EnviarTrasCorte(h) \/ RecibirError(h) \/ MorirKernel(h)
  BY <1>2, <1>11 DEF EnviarTrasCorte, RecibirError, MorirKernel
<1> QED BY <1>7, <1>8, <1>9, <1>10, <1>11 DEF Ejecutar

LEMMA AtenderRetoma ==
  ASSUME Base, NEW h \in Conexiones, Orden(h), Retoma(h), AtenderRequest(h)
  PROVE  Retoma(h)'
<1> USE DEF estado, red, historia
<1> DEFINE e == ejecutor[h]
           a == atencion[h]
           b == atencion'[h]
           q == alMemoria[h]
<1>0. SUFFICES ASSUME llenas'[h] < 2, MemoriaViva' PROVE Retoma(h)'
  BY DEF Retoma
<1>1. /\ UNCHANGED <<ejecutor, conexion, caida>> /\ MemoriaViva
  BY <1>0 DEF AtenderRequest, Atender, Compuerta, Entrar, Procesar, JournalVaciar, JournalBajarFlag,
         VolverACompuerta, Responder, AtenderOtro, AtenderJournal, Desconectado, Vaciar, BajarFlag,
         MemoriaViva
<1>2. conexion[h] \in {"abierta", "cerrada"}
  BY <1>1 DEF Base, TypeOK, Orden, Cierre, MemoriaViva
<1>3. /\ atencion \in [Conexiones -> LocalesAtencion] /\ a \in LocalesAtencion
      /\ DOMAIN alMemoria = Conexiones /\ DOMAIN alKernel = Conexiones
      /\ DOMAIN hechos = Conexiones /\ DOMAIN hechos[h] = Pedidos(h)
      /\ llenas \in [Conexiones -> Nat] /\ llenas[h] \in Nat
      /\ q \in Seq(Pedidos(h) \cup {JOURNAL}) /\ alKernel[h] \in Seq(Respuestas)
      /\ \A i \in Pedidos(h) : hechos[h][i] \in Nat
      /\ \A i \in 1..e.i - 1 : i \in Pedidos(h)
      /\ e.pc = "recibir" => e.i \in Pedidos(h)
  <2>1. e.i \in 1..Largo[h] + (IF e.pc \in {"cerrar", "fin"} THEN 1 ELSE 0) /\ Largo[h] \in Nat
    BY LosPedidos DEF Base, TypeOK
  <2>2. (\A i \in 1..e.i - 1 : i \in Pedidos(h)) /\ (e.pc = "recibir" => e.i \in Pedidos(h))
    BY <2>1 DEF Pedidos
  <2> QED BY <2>2 DEF Base, TypeOK, Manos
<1>4. /\ a.pc \in Atareada => a.p \in Pedidos(h) \cup {JOURNAL}
      /\ a.pc = "bajarFlag" => a.p = JOURNAL
      /\ a.pc = "responder" => a.r \in Respuestas /\ (a.p = JOURNAL => a.r = JournalR)
      /\ a.luego # "otro" => a.pc \in {"procesar", "bajarFlag", "responder"} /\ a.p = JOURNAL
      /\ a.luego \in {"otro", "cabeza", "fin"}
  BY <1>3 DEF Base, Manos, LocalesAtencion
<1>5. llenas[h] < 2 =>
        /\ ~Ocupada(h) => a.p = Nulo
        /\ a.pc = "responder" /\ a.p # JOURNAL /\ a.r.header # "FULL_R" => hechos[h][a.p] > 0
        /\ conexion[h] = "cerrada" => e.pc = "fin"
        /\ \A i \in 1..e.i - 1 : Cubierta(h, i)
        /\ Perdida(h) \/ Journaleando(h) \/ Retomada(h)
  BY <1>1 DEF Retoma
<1>6. JOURNAL \notin Pedidos(h) /\ Nulo \notin Pedidos(h) /\ Nulo # JOURNAL
  BY LosPedidos
<1>7. q # <<>> => Head(q) \in Pedidos(h) \cup {JOURNAL} /\ ToSet(q) = {Head(q)} \cup ToSet(Tail(q))
  BY <1>3, LoQueHay, JOURNAL \in Pedidos(h) \cup {JOURNAL}

\* The thread takes a request, or goes on with the one it has.
<1>8. ASSUME UNCHANGED <<alKernel, llenas>>,
             \/ UNCHANGED alMemoria
             \/ q # <<>> /\ alMemoria'[h] = Tail(q) /\ b.p = Head(q) /\ ~Ocupada(h),
             \A i \in Pedidos(h) : hechos'[h][i] \in {hechos[h][i], hechos[h][i] + 1},
             ~Ocupada(h)' => b.p = Nulo,
             b.pc = "responder" /\ b.p # JOURNAL /\ b.r.header # "FULL_R" => hechos'[h][b.p] > 0,
             \/ Ocupada(h) /\ b.p = a.p
             \/ q # <<>> /\ b.p = Head(q) /\ ~Ocupada(h)
             \/ conexion[h] = "cerrada" /\ ~Ocupada(h)
      PROVE  Retoma(h)'
  <2>1. llenas[h] < 2
    BY <1>0, <1>8
  <2>2. q = <<>> => alMemoria'[h] = <<>>
    BY <1>8
  <2>3. ToSet(alMemoria'[h]) \subseteq ToSet(q)
    BY <1>7, <1>8
  <2>4. ASSUME NEW i \in Pedidos(h), Cubierta(h, i)
        PROVE  Cubierta(h, i)'
    <3>1. hechos[h][i] > 0 => hechos'[h][i] > 0
      <4>1. hechos[h][i] \in Nat /\ hechos'[h][i] \in {hechos[h][i], hechos[h][i] + 1}
        BY <1>3, <1>8
      <4> QED BY <4>1
    <3>2. a.p = i => b.p = i
      BY <1>5, <1>6, <1>8, <2>1
    <3>3. i \in ToSet(q) => i \in ToSet(alMemoria'[h]) \/ b.p = i
      BY <1>7, <1>8
    <3> QED BY <2>4, <3>1, <3>2, <3>3 DEF Cubierta, EnCamino
  <2>5. Perdida(h) => Perdida(h)'
    BY <1>1, <1>5, <1>8, <2>1, <2>2 DEF Perdida
  <2>6. Journaleando(h) => Journaleando(h)'
    <3>1. CASE e.pc = "journal"
      BY <1>1, <1>5, <1>8, <2>1, <2>2, <3>1 DEF Journaleando
    <3>2. CASE e.pc = "recibirJournal"
      BY <1>1, <1>5, <1>7, <1>8, <2>1, <2>3, <3>2 DEF Journaleando
    <3> QED BY <3>1, <3>2 DEF Journaleando
  <2>7. Retomada(h) => Retomada(h)'
    BY <1>1, <1>3, <1>8, <2>4 DEF Retomada
  <2>8. \A i \in 1..e.i - 1 : Cubierta(h, i)'
    BY <1>3, <1>5, <2>1, <2>4
  <2> QED BY <1>1, <1>5, <1>8, <2>1, <2>5, <2>6, <2>7, <2>8 DEF Retoma
<1>9. CASE Atender(h) \/ AtenderOtro(h)
  <2>1. /\ a.pc \in {"inicio", "otro"} /\ q # <<>>
        /\ b.pc = "cabeza" /\ b.p = Head(q) /\ alMemoria'[h] = Tail(q)
        /\ UNCHANGED <<alKernel, llenas, hechos>>
    BY <1>3, <1>9 DEF Atender, AtenderOtro, LocalesAtencion
  <2> QED BY <1>8, <2>1 DEF Ocupada, Atareada
<1>10. CASE AtenderJournal(h)
  <2>1. /\ a.pc = "otro" /\ q # <<>> /\ Head(q) = JOURNAL
        /\ b.pc = "procesar" /\ b.p = JOURNAL /\ alMemoria'[h] = Tail(q)
        /\ UNCHANGED <<alKernel, llenas, hechos>>
    BY <1>3, <1>10 DEF AtenderJournal, LocalesAtencion
  <2> QED BY <1>8, <2>1 DEF Ocupada, Atareada
<1>11. CASE Compuerta(h) \/ Entrar(h) \/ JournalVaciar(h)
  <2>1. /\ a.pc \in Atareada /\ b.pc \in Atareada \ {"responder"} /\ b.p = a.p
        /\ UNCHANGED <<alMemoria, alKernel, llenas, hechos>>
    BY <1>3, <1>11 DEF Compuerta, Entrar, JournalVaciar, LocalesAtencion, Atareada
  <2> QED BY <1>8, <2>1 DEF Ocupada
<1>12. CASE JournalBajarFlag(h)
  <2>1. /\ a.pc = "bajarFlag" /\ b.pc = "responder" /\ b.p = a.p
        /\ UNCHANGED <<alMemoria, alKernel, llenas, hechos>>
    BY <1>3, <1>12 DEF JournalBajarFlag, LocalesAtencion
  <2> QED BY <1>4, <1>8, <2>1 DEF Ocupada, Atareada
<1>13. CASE VolverACompuerta(h)
  <2>1. /\ a.pc = "responder" /\ b.pc = "cabeza" /\ b.p = a.p
        /\ UNCHANGED <<alMemoria, alKernel, llenas, hechos>>
    BY <1>3, <1>13 DEF VolverACompuerta, LocalesAtencion
  <2> QED BY <1>8, <2>1 DEF Ocupada, Atareada
<1>14. CASE Procesar(h)
  <2>1. /\ a.pc = "procesar" /\ a.p # JOURNAL /\ b.pc = "responder" /\ b.p = a.p
        /\ b.r.header = IF llena THEN "FULL_R" ELSE "OK"
        /\ hechos' = IF llena THEN hechos ELSE [hechos EXCEPT ![h][a.p] = @ + 1]
        /\ UNCHANGED <<alMemoria, alKernel, llenas>>
    BY <1>3, <1>14 DEF Procesar, LocalesAtencion
  <2>2. a.p \in Pedidos(h)
    BY <1>4, <2>1 DEF Atareada
  <2>3. \A i \in Pedidos(h) : hechos'[h][i] \in {hechos[h][i], hechos[h][i] + 1}
    BY <1>3, <2>1, <2>2
  <2>4. ~llena => hechos'[h][a.p] > 0
    BY <1>3, <2>1, <2>2
  <2> QED BY <1>8, <2>1, <2>3, <2>4 DEF Ocupada, Atareada
<1>15. CASE Desconectado(h)
  <2>1. /\ conexion[h] = "cerrada" /\ a.pc \in {"inicio", "otro"}
        /\ \/ b.pc = "fin" /\ b.p = a.p
           \/ b.pc = "procesar" /\ b.p = JOURNAL
        /\ UNCHANGED <<alMemoria, alKernel, llenas, hechos>>
    BY <1>3, <1>15 DEF Desconectado, LocalesAtencion
  <2>2. a.p = Nulo
    BY <1>0, <1>5, <2>1 DEF Ocupada, Atareada
  <2> QED BY <1>8, <2>1, <2>2 DEF Ocupada, Atareada

\* It answers.
<1>16. CASE Responder(h)
  <2>1. /\ a.pc = "responder" /\ b.pc = a.luego
        /\ b.p = IF a.luego = "cabeza" THEN a.p ELSE Nulo
        /\ alKernel'[h] = IF conexion[h] = "abierta" THEN Append(alKernel[h], a.r) ELSE alKernel[h]
        /\ llenas' = IF EsFull(h) THEN [llenas EXCEPT ![h] = @ + 1] ELSE llenas
        /\ UNCHANGED <<alMemoria, hechos>>
    BY <1>3, <1>16 DEF Responder, LocalesAtencion
  <2>2. llenas[h] < 2 /\ (EsFull(h) => llenas[h] = 0)
    BY <1>0, <1>3, <2>1
  <2>3. Ocupada(h) /\ ~Perdida(h)
    BY <2>1 DEF Ocupada, Atareada, Perdida
  <2>4. (Ocupada(h)' => b.p = JOURNAL) /\ (~Ocupada(h)' => b.p = Nulo) /\ b.pc # "responder"
    BY <1>4, <2>1 DEF Ocupada, Atareada
  <2>5. CASE ~EsFull(h)
    <3>1. a.r.header # "FULL_R" /\ llenas' = llenas
      BY <2>1, <2>5 DEF EsFull
    <3>2. \A i \in Pedidos(h) : Cubierta(h, i) => Cubierta(h, i)'
      BY <1>5, <1>6, <2>1, <2>2, <3>1 DEF Cubierta, EnCamino
    <3>3. ToSet(alKernel'[h]) \subseteq ToSet(alKernel[h]) \cup {a.r}
      <4>1. ToSet(Append(alKernel[h], a.r)) = ToSet(alKernel[h]) \cup {a.r}
        BY <1>3, <1>4, <2>1, LoQueHay
      <4> QED BY <2>1, <4>1
    <3>4. Journaleando(h) => Journaleando(h)'
      <4>1. SUFFICES ASSUME Journaleando(h) PROVE Journaleando(h)'
        OBVIOUS
      <4>2. a.p = JOURNAL /\ e.pc = "recibirJournal"
        BY <2>3, <4>1 DEF Journaleando
      <4>3. a.r = JournalR
        BY <1>4, <2>1, <4>2
      <4> QED BY <1>1, <2>1, <2>4, <3>3, <4>1, <4>2, <4>3 DEF Journaleando
    <3>5. Retomada(h) => Retomada(h)'
      BY <1>1, <1>3, <3>1, <3>2, <3>3 DEF Retomada
    <3>6. \A i \in 1..e.i - 1 : Cubierta(h, i)'
      BY <1>3, <1>5, <2>2, <3>2
    <3> QED BY <1>1, <1>5, <2>2, <2>3, <2>4, <3>4, <3>5, <3>6 DEF Retoma
  <2>6. CASE EsFull(h)
    <3>1. llenas[h] = 0 /\ a.r.header = "FULL_R" /\ a.p # JOURNAL
      BY <1>4, <2>1, <2>2, <2>6 DEF EsFull, JournalR
    <3>2. a.luego = "otro"
      BY <1>4, <3>1
    <3>3. conexion[h] = "abierta"
      <4>1. journals[h] = 0
        BY <3>1 DEF Orden, Sola
      <4> QED BY <1>2, <2>1, <3>2, <4>1 DEF Orden, Cierre
    <3>4. /\ e.pc = "recibir" /\ q = <<>> /\ alKernel[h] = <<>> /\ a.p = e.i
      BY <2>1, <3>1, <3>3 DEF Orden, Sola, EnCurso
    <3>5. alKernel'[h] = <<a.r>>
      BY <2>1, <3>3, <3>4
    <3>6. ~Ocupada(h)' /\ b.p = Nulo
      BY <2>1, <2>4, <3>2 DEF Ocupada, Atareada
    <3>7. Perdida(h)'
      BY <1>1, <1>4, <2>1, <3>1, <3>4, <3>5, <3>6 DEF Perdida
    <3>8. ASSUME NEW i \in 1..e.i - 1
          PROVE  Cubierta(h, i)'
      <4>1. Cubierta(h, i) /\ i # a.p
        <5>1. e.i \in Nat
          BY DEF Base, TypeOK, LocalesEjecutor
        <5> QED BY <1>5, <2>2, <3>4, <5>1
      <4>2. i \notin ToSet(q)
        BY <3>4 DEF ToSet
      <4> QED BY <2>1, <4>1, <4>2 DEF Cubierta, EnCamino
    <3> QED BY <1>1, <1>5, <2>2, <2>4, <3>6, <3>7, <3>8 DEF Retoma
  <2> QED BY <2>5, <2>6
<1> QED BY <1>9, <1>10, <1>11, <1>12, <1>13, <1>14, <1>15, <1>16 DEF AtenderRequest

LEMMA RetomaInicial == Init => \A h \in Conexiones : Retoma(h)
<1> SUFFICES ASSUME Init, NEW h \in Conexiones PROVE Retoma(h)
  OBVIOUS
<1>1. /\ ejecutor[h] = [pc |-> "enviar", i |-> 1, tras |-> 0]
      /\ alKernel[h] = <<>> /\ atencion[h] = Ausente /\ conexion[h] = "abierta"
  BY DEF Init
<1>2. Retomada(h)
  BY <1>1 DEF Retomada, ToSet
<1> QED BY <1>1, <1>2 DEF Retoma, Ocupada, Atareada, Ausente

LEMMA RetomaPaso ==
  ASSUME Ordenada, \A h \in Conexiones : Retoma(h), [Next]_vars
  PROVE  \A h \in Conexiones : Retoma(h)'
<1>1. Base /\ \A h \in Conexiones : Orden(h)
  BY DEF Ordenada
<1>2. TAKE g \in Conexiones
<1>3. ASSUME NEW h \in Conexiones, Ejecutar(h) \/ MorirKernel(h) \/ AtenderRequest(h)
      PROVE  Retoma(g)'
  <2>1. CASE g = h
    BY <1>1, <1>3, <2>1, EjecutarRetoma, AtenderRetoma
  <2>2. CASE g # h
    BY <1>1, <1>3, <2>2, Ajenos, RetomaIgual
  <2> QED BY <2>1, <2>2
<1>4. CASE MorirMemoria \/ Matar
  BY <1>4 DEF MorirMemoria, Matar, Morir, Retoma, MemoriaViva
<1>5. CASE Llenar \/ ProcesoJournal \/ UNCHANGED vars
  <2>1. Igual(g)
    BY <1>5 DEF Llenar, ProcesoJournal, vars, red, historia, Igual
  <2> QED BY <2>1, RetomaIgual
<1> QED BY <1>3, <1>4, <1>5 DEF Next

\* For any connections and lengths, one FULL_R in a turn loses no request: as long
\* as the memory lives, what the executor left behind was run or is to be.
THEOREM ElReintentoCubre == Spec => []ReintentoCubre
<1> DEFINE I == Ordenada /\ \A h \in Conexiones : Retoma(h)
<1>1. Init => I
  BY OrdenadaInicial, RetomaInicial
<1>2. I /\ [Next]_vars => I'
  BY OrdenadaPaso, RetomaPaso
<1>3. I => ReintentoCubre
  BY DEF ReintentoCubre, Retoma, Cubierta
<1> QED BY <1>1, <1>2, <1>3, PTL DEF Spec

-----------------------------------------------------------------------------
(* How many times the requests of a turn may run. *)

\* The answers that send a request again, or may.
Otras == {r \in Respuestas : r.header # "OK"}

\* The runs and the answers of that kind that an attention thread has in its hands.
EnMano(h) ==
  LET a == atencion[h] IN
  IF a.pc \notin Atareada THEN 0
  ELSE IF a.p = JOURNAL
  THEN IF a.luego = "cabeza" THEN 2 ELSE IF a.luego = "fin" THEN 0 ELSE 1
  ELSE IF a.pc = "responder" /\ a.r.header = "OK" THEN 0 ELSE 1

PorEnviar(h) == IF ejecutor[h].pc \in {"enviar", "journal"} THEN 1 ELSE 0

\* The runs there were; the requests on their way, with a JOURNAL counted for the
\* two answers it gets; the answers on theirs; and what the turn may run so far.
Corridas(h) == Suma(hechos[h])
EnRed(h) == Len(alMemoria[h]) + Cuantos(alMemoria[h])
DeVuelta(h) == CuantosDe(alKernel[h], Otras)
Margen(h) == ejecutor[h].i + journals[h]

\* The runs there were, and those there may yet be before another JOURNAL is sent
\* or the turn goes on.
Repite(h) ==
  /\ hechos[h] \in [Pedidos(h) -> Nat]
  /\ conexion[h] # "cortada" =>
       Corridas(h) + EnRed(h) + EnMano(h) + DeVuelta(h) + PorEnviar(h) <= Margen(h)

LEMMA TodosNumeros ==
  ASSUME Base, NEW h \in Conexiones, hechos[h] \in [Pedidos(h) -> Nat]
  PROVE  /\ Corridas(h) \in Nat /\ EnRed(h) \in Nat /\ EnMano(h) \in Nat
         /\ DeVuelta(h) \in Nat /\ PorEnviar(h) \in Nat /\ Margen(h) \in Nat
<1>1. IsFiniteSet(Pedidos(h))
  <2>1. 1 \in Int /\ Largo[h] \in Int
    BY LosPedidos
  <2> QED BY <2>1, FS_Interval DEF Pedidos
<1>2. Corridas(h) \in Nat
  BY <1>1, SumaProps DEF Corridas
<1>3. /\ alMemoria[h] \in Seq(Pedidos(h) \cup {JOURNAL}) /\ Pedidos(h) \cup {JOURNAL} \subseteq Int
      /\ alKernel[h] \in Seq(Respuestas) /\ JournalR \in Respuestas
  BY LosPedidos DEF Base, Manos, TypeOK, Respuestas
<1>4. EnRed(h) \in Nat
  <2>1. alMemoria[h] \in Seq(Int) /\ JOURNAL \in Int
    BY <1>3
  <2>2. Len(alMemoria[h]) \in Nat /\ Cuantos(alMemoria[h]) \in Nat
    BY <2>1, CuantosCola
  <2> QED BY <2>2 DEF EnRed
<1>5. DeVuelta(h) \in Nat
  BY <1>3, CuentaEnCola DEF DeVuelta
<1>6. EnMano(h) \in Nat /\ PorEnviar(h) \in Nat
  BY DEF EnMano, PorEnviar
<1>7. Margen(h) \in Nat
  <2>1. ejecutor[h].i \in Nat /\ journals[h] \in Nat
    BY DEF Base, TypeOK, LocalesEjecutor
  <2> QED BY <2>1 DEF Margen
<1> QED BY <1>2, <1>4, <1>5, <1>6, <1>7

\* What a step does to the requests on their way.
LEMMA PasoDeRed ==
  ASSUME Base, NEW h \in Conexiones
  PROVE  /\ EnRed(h) \in Nat
         /\ alMemoria'[h] = alMemoria[h] => EnRed(h)' = EnRed(h)
         /\ alMemoria'[h] = <<>> => EnRed(h)' = 0
         /\ \A n \in Int : alMemoria'[h] = Append(alMemoria[h], n) =>
              EnRed(h)' = EnRed(h) + (IF n = JOURNAL THEN 2 ELSE 1)
         /\ alMemoria[h] # <<>> /\ alMemoria'[h] = Tail(alMemoria[h]) =>
              /\ EnRed(h)' \in Nat
              /\ EnRed(h) = EnRed(h)' + (IF Head(alMemoria[h]) = JOURNAL THEN 2 ELSE 1)
<1>1. alMemoria[h] \in Seq(Int) /\ JOURNAL \in Int
  <2>1. alMemoria[h] \in Seq(Pedidos(h) \cup {JOURNAL}) /\ Pedidos(h) \cup {JOURNAL} \subseteq Int
    BY LosPedidos DEF Base, Manos
  <2> QED BY <2>1
<1>2. Len(alMemoria[h]) \in Nat /\ Cuantos(alMemoria[h]) \in Nat
  BY <1>1, CuantosCola
<1>3. alMemoria'[h] = alMemoria[h] => EnRed(h)' = EnRed(h)
  BY DEF EnRed
<1>4. alMemoria'[h] = <<>> => EnRed(h)' = 0
  <2>1. Cuantos(<<>>) = 0 /\ Len(<<>>) = 0
    BY <1>1, CuantosCola
  <2> QED BY <2>1 DEF EnRed
<1>5. ASSUME NEW n \in Int, alMemoria'[h] = Append(alMemoria[h], n)
      PROVE  EnRed(h)' = EnRed(h) + (IF n = JOURNAL THEN 2 ELSE 1)
  <2>1. Len(Append(alMemoria[h], n)) = Len(alMemoria[h]) + 1
    BY <1>1
  <2>2. Cuantos(Append(alMemoria[h], n)) = Cuantos(alMemoria[h]) + (IF n = JOURNAL THEN 1 ELSE 0)
    BY <1>1, CuantosCola
  <2>3. EnRed(h)' = Len(Append(alMemoria[h], n)) + Cuantos(Append(alMemoria[h], n))
    BY <1>5 DEF EnRed
  <2> QED BY <1>2, <2>1, <2>2, <2>3 DEF EnRed
<1>6. ASSUME alMemoria[h] # <<>>, alMemoria'[h] = Tail(alMemoria[h])
      PROVE  /\ EnRed(h)' \in Nat
             /\ EnRed(h) = EnRed(h)' + (IF Head(alMemoria[h]) = JOURNAL THEN 2 ELSE 1)
  <2>1. /\ Tail(alMemoria[h]) \in Seq(Int) /\ Len(Tail(alMemoria[h])) \in Nat
        /\ Len(alMemoria[h]) = Len(Tail(alMemoria[h])) + 1
    BY <1>1, <1>6
  <2>2. Cuantos(Tail(alMemoria[h])) \in Nat
    BY <1>1, <2>1, CuantosCola
  <2>3. Cuantos(alMemoria[h])
        = Cuantos(Tail(alMemoria[h])) + (IF Head(alMemoria[h]) = JOURNAL THEN 1 ELSE 0)
    BY <1>1, <1>6, CuantosCola
  <2>4. EnRed(h)' = Len(Tail(alMemoria[h])) + Cuantos(Tail(alMemoria[h]))
    BY <1>6 DEF EnRed
  <2> QED BY <2>1, <2>2, <2>3, <2>4 DEF EnRed
<1> QED BY <1>2, <1>3, <1>4, <1>5, <1>6 DEF EnRed

\* The answers other than OK, when one more is put at the end.
LEMMA OtrasAlFinal ==
  ASSUME NEW s \in Seq(Respuestas), NEW r \in Respuestas
  PROVE  CuantosDe(Append(s, r), Otras) = CuantosDe(s, Otras) + (IF r \in Otras THEN 1 ELSE 0)
BY CuentaAlFinal

\* And to the answers on theirs.
LEMMA PasoDeVuelta ==
  ASSUME Base, NEW h \in Conexiones
  PROVE  /\ DeVuelta(h) \in Nat
         /\ alKernel'[h] = alKernel[h] => DeVuelta(h)' = DeVuelta(h)
         /\ alKernel'[h] = <<>> => DeVuelta(h)' = 0
         /\ \A r \in Respuestas : alKernel'[h] = Append(alKernel[h], r) =>
              DeVuelta(h)' = DeVuelta(h) + (IF r.header = "OK" THEN 0 ELSE 1)
         /\ alKernel[h] # <<>> /\ alKernel'[h] = Tail(alKernel[h]) =>
              /\ Head(alKernel[h]) \in Respuestas
              /\ DeVuelta(h)' \in Nat
              /\ DeVuelta(h) = DeVuelta(h)' + (IF Head(alKernel[h]).header = "OK" THEN 0 ELSE 1)
<1>1. alKernel[h] \in Seq(Respuestas) /\ JournalR \in Respuestas
  BY DEF Base, TypeOK, Respuestas
<1>2. DeVuelta(h)' = CuantosDe(alKernel'[h], Otras)
  BY DEF DeVuelta, Otras, Respuestas, Numeros, JournalR, Pedidos
<1>3. alKernel'[h] = alKernel[h] => DeVuelta(h)' = DeVuelta(h)
  BY <1>2 DEF DeVuelta
<1>4. DeVuelta(h) \in Nat /\ CuantosDe(<<>>, Otras) = 0
  BY <1>1, CuentaEnCola DEF DeVuelta
<1>5. \A r \in Respuestas : r \in Otras <=> r.header # "OK"
  BY DEF Otras
<1>6. ASSUME NEW r \in Respuestas, alKernel'[h] = Append(alKernel[h], r)
      PROVE  DeVuelta(h)' = DeVuelta(h) + (IF r.header = "OK" THEN 0 ELSE 1)
  <2>1. CuantosDe(Append(alKernel[h], r), Otras)
        = CuantosDe(alKernel[h], Otras) + (IF r \in Otras THEN 1 ELSE 0)
    BY <1>1, <1>6, OtrasAlFinal
  <2> QED BY <1>2, <1>5, <1>6, <2>1 DEF DeVuelta
<1>7. ASSUME alKernel[h] # <<>>, alKernel'[h] = Tail(alKernel[h])
      PROVE  /\ Head(alKernel[h]) \in Respuestas
             /\ DeVuelta(h)' \in Nat
             /\ DeVuelta(h) = DeVuelta(h)' + (IF Head(alKernel[h]).header = "OK" THEN 0 ELSE 1)
  <2>1. Tail(alKernel[h]) \in Seq(Respuestas) /\ Head(alKernel[h]) \in Respuestas
    BY <1>1, <1>7
  <2>2. CuantosDe(Tail(alKernel[h]), Otras) \in Nat
    BY <1>1, <2>1, CuentaEnCola
  <2>3. CuantosDe(alKernel[h], Otras)
        = CuantosDe(Tail(alKernel[h]), Otras) + (IF Head(alKernel[h]) \in Otras THEN 1 ELSE 0)
    BY <1>1, <1>7, CuentaEnCola
  <2> QED BY <1>2, <1>5, <1>7, <2>1, <2>2, <2>3 DEF DeVuelta
<1> QED BY <1>2, <1>3, <1>4, <1>6, <1>7

LEMMA RepiteIgual ==
  ASSUME Base, NEW h \in Conexiones, Repite(h), Igual(h)
  PROVE  Repite(h)'
<1>1. EnRed(h)' = EnRed(h) /\ DeVuelta(h)' = DeVuelta(h)
  BY PasoDeRed, PasoDeVuelta DEF Igual
<1>2. /\ Corridas(h)' = Corridas(h) /\ Margen(h)' = Margen(h)
      /\ EnMano(h)' = EnMano(h) /\ PorEnviar(h)' = PorEnviar(h)
  BY DEF Igual, EnMano, PorEnviar, Corridas, Margen
<1> QED BY <1>1, <1>2 DEF Igual, Repite, Pedidos

LEMMA EjecutarRepite ==
  ASSUME Base, NEW h \in Conexiones, Repite(h), Ejecutar(h) \/ MorirKernel(h)
  PROVE  Repite(h)'
<1> USE DEF estado, red, historia
<1> DEFINE e == ejecutor[h]
<1>1. /\ ejecutor \in [Conexiones -> LocalesEjecutor] /\ e \in LocalesEjecutor
      /\ DOMAIN alMemoria = Conexiones /\ DOMAIN alKernel = Conexiones
      /\ DOMAIN conexion = Conexiones /\ DOMAIN journals = Conexiones
      /\ e.i \in Nat /\ journals[h] \in Nat
  BY DEF Base, TypeOK, LocalesEjecutor
<1>2. /\ Corridas(h) \in Nat /\ EnRed(h) \in Nat /\ EnMano(h) \in Nat
      /\ DeVuelta(h) \in Nat /\ PorEnviar(h) \in Nat /\ Margen(h) \in Nat
      /\ conexion[h] # "cortada" =>
           Corridas(h) + EnRed(h) + EnMano(h) + DeVuelta(h) + PorEnviar(h) <= Margen(h)
  BY TodosNumeros DEF Repite
<1>3. /\ Corridas(h)' = Corridas(h) /\ EnMano(h)' = EnMano(h)
      /\ hechos'[h] \in [Pedidos(h)' -> Nat]
  <2>1. UNCHANGED <<atencion, hechos>>
    BY DEF Ejecutar, Enviar, EnviarJournal, EnviarTrasCorte, Recibir, RecibirError, Cerrar,
           MorirKernel
  <2> QED BY <2>1 DEF EnMano, Corridas, Repite, Pedidos
<1>4. CASE Enviar(h)
  <2>1. /\ conexion'[h] # "cortada" => conexion[h] # "cortada"
        /\ e.pc = "enviar" /\ ejecutor'[h].pc = "recibir" /\ ejecutor'[h].i = e.i
        /\ alMemoria'[h] = Append(alMemoria[h], e.i)
        /\ UNCHANGED <<alKernel, journals>>
    BY <1>1, <1>4 DEF Enviar, LocalesEjecutor
  <2>2. e.i \in Int /\ e.i # JOURNAL
    BY <2>1, LosPedidos DEF Base, TypeOK, JOURNAL
  <2>3. EnRed(h)' = EnRed(h) + 1 /\ DeVuelta(h)' = DeVuelta(h)
    BY <2>1, <2>2, PasoDeRed, PasoDeVuelta
  <2>4. PorEnviar(h) = 1 /\ PorEnviar(h)' = 0 /\ Margen(h)' = Margen(h)
    BY <2>1 DEF PorEnviar, Margen
  <2> QED BY <1>2, <1>3, <2>1, <2>3, <2>4 DEF Repite
<1>5. CASE EnviarJournal(h)
  <2>1. /\ conexion'[h] # "cortada" => conexion[h] # "cortada"
        /\ e.pc = "journal" /\ ejecutor'[h].pc = "recibirJournal" /\ ejecutor'[h].i = e.i
        /\ alMemoria'[h] = Append(alMemoria[h], JOURNAL) /\ journals'[h] = journals[h] + 1
        /\ UNCHANGED alKernel
    BY <1>1, <1>5 DEF EnviarJournal, LocalesEjecutor
  <2>2. EnRed(h)' = EnRed(h) + 2 /\ DeVuelta(h)' = DeVuelta(h)
    <3>1. JOURNAL \in Int
      BY DEF JOURNAL
    <3>2. EnRed(h)' = EnRed(h) + (IF JOURNAL = JOURNAL THEN 2 ELSE 1)
      BY ONLY Base, <2>1, <3>1, PasoDeRed
    <3>3. EnRed(h) \in Nat
      BY PasoDeRed
    <3>4. EnRed(h)' = EnRed(h) + 2
      BY ONLY <3>2, <3>3
    <3>5. DeVuelta(h)' = DeVuelta(h)
      BY <2>1, PasoDeVuelta
    <3> QED BY <3>4, <3>5
  <2>3. PorEnviar(h) = 1 /\ PorEnviar(h)' = 0
    BY <1>1, <2>1 DEF PorEnviar
  <2>4. Margen(h)' = Margen(h) + 1
    <3>1. e.i \in Int /\ journals[h] \in Int
      BY DEF Base, TypeOK, LocalesEjecutor
    <3> QED BY <2>1, <3>1 DEF Margen
  <2> QED BY <1>2, <1>3, <2>1, <2>2, <2>3, <2>4 DEF Repite
<1>6. CASE Recibir(h)
  <2> DEFINE r == Head(alKernel[h])
  <2>1. /\ conexion'[h] # "cortada" => conexion[h] # "cortada"
        /\ Esperando(h) /\ alKernel[h] # <<>> /\ alKernel'[h] = Tail(alKernel[h])
        /\ ejecutor'[h] = TrasRecibir(h, r.header)
        /\ UNCHANGED <<alMemoria, journals>>
    BY <1>1, <1>6 DEF Recibir
  <2>2. EnRed(h)' = EnRed(h) /\ DeVuelta(h)' \in Nat
    BY <2>1, PasoDeRed, PasoDeVuelta
  <2>3. /\ PorEnviar(h) = 0 /\ PorEnviar(h)' \in {0, 1}
        /\ r.header = "OK" => ejecutor'[h].i = e.i + 1
        /\ ejecutor'[h].i \in {e.i, e.i + 1}
    BY <1>1, <2>1 DEF PorEnviar, Esperando, TrasRecibir, Siguiente, LocalesEjecutor
  <2>4. CASE r.header = "OK"
    <3>1. DeVuelta(h)' = DeVuelta(h)
      BY <1>2, <2>1, <2>4, PasoDeVuelta
    <3>2. Margen(h)' = Margen(h) + 1
      BY <1>1, <2>1, <2>3, <2>4 DEF Margen
    <3> QED BY <1>2, <1>3, <2>1, <2>2, <2>3, <3>1, <3>2 DEF Repite
  <2>5. CASE r.header # "OK"
    <3>1. DeVuelta(h) = DeVuelta(h)' + 1
      BY <2>1, <2>5, PasoDeVuelta
    <3>2. Margen(h)' \in {Margen(h), Margen(h) + 1}
      BY <1>1, <2>1, <2>3 DEF Margen
    <3> QED BY <1>2, <1>3, <2>1, <2>2, <2>3, <3>1, <3>2 DEF Repite
  <2> QED BY <2>4, <2>5
<1>7. CASE Cerrar(h)
  <2>1. /\ conexion'[h] # "cortada" => conexion[h] # "cortada"
        /\ e.pc = "cerrar" /\ ejecutor'[h].pc = "fin" /\ ejecutor'[h].i = e.i
        /\ alKernel'[h] = <<>> /\ UNCHANGED <<alMemoria, journals>>
    BY <1>1, <1>7 DEF Cerrar, LocalesEjecutor
  <2>2. EnRed(h)' = EnRed(h) /\ DeVuelta(h)' = 0
    BY <2>1, PasoDeRed, PasoDeVuelta
  <2>3. PorEnviar(h)' = 0 /\ Margen(h)' = Margen(h)
    BY <2>1 DEF PorEnviar, Margen
  <2> QED BY <1>2, <1>3, <2>1, <2>2, <2>3 DEF Repite
<1>8. CASE EnviarTrasCorte(h) \/ RecibirError(h) \/ MorirKernel(h)
  <2>1. conexion'[h] = "cortada"
    BY <1>8 DEF EnviarTrasCorte, RecibirError, MorirKernel
  <2> QED BY <1>3, <2>1 DEF Repite
<1> QED BY <1>4, <1>5, <1>6, <1>7, <1>8 DEF Ejecutar

LEMMA AtenderRepite ==
  ASSUME Base, NEW h \in Conexiones, Orden(h), Repite(h), AtenderRequest(h)
  PROVE  Repite(h)'
<1> USE DEF estado, red, historia
<1> DEFINE a == atencion[h]
           b == atencion'[h]
<1>1. /\ atencion \in [Conexiones -> LocalesAtencion] /\ a \in LocalesAtencion
      /\ DOMAIN alMemoria = Conexiones /\ DOMAIN alKernel = Conexiones
      /\ DOMAIN hechos = Conexiones
  BY DEF Base, TypeOK
<1>2. /\ Corridas(h) \in Nat /\ EnRed(h) \in Nat /\ EnMano(h) \in Nat
      /\ DeVuelta(h) \in Nat /\ PorEnviar(h) \in Nat /\ Margen(h) \in Nat
      /\ conexion[h] # "cortada" =>
           Corridas(h) + EnRed(h) + EnMano(h) + DeVuelta(h) + PorEnviar(h) <= Margen(h)
  BY TodosNumeros DEF Repite
<1>3. /\ PorEnviar(h)' = PorEnviar(h) /\ Margen(h)' = Margen(h) /\ conexion' = conexion
      /\ Pedidos(h)' = Pedidos(h)
  <2>1. UNCHANGED <<ejecutor, conexion, journals>>
    BY DEF AtenderRequest, Atender, Compuerta, Entrar, Procesar, JournalVaciar, JournalBajarFlag,
           VolverACompuerta, Responder, AtenderOtro, AtenderJournal, Desconectado, Vaciar, BajarFlag
  <2> QED BY <2>1 DEF PorEnviar, Margen, Pedidos
<1>4. hechos[h] \in [Pedidos(h) -> Nat]
  BY DEF Repite
<1>5. hechos' = hechos => Corridas(h)' = Corridas(h) /\ hechos'[h] \in [Pedidos(h)' -> Nat]
  BY <1>3, <1>4 DEF Corridas
<1>6. /\ a.pc \in Atareada => a.p \in Pedidos(h) \cup {JOURNAL}
      /\ a.pc = "bajarFlag" => a.p = JOURNAL
      /\ a.pc = "responder" => a.r \in Respuestas /\ (a.p = JOURNAL => a.r = JournalR)
      /\ a.luego # "otro" => a.pc \in {"procesar", "bajarFlag", "responder"} /\ a.p = JOURNAL
      /\ a.luego \in {"otro", "cabeza", "fin"}
      /\ conexion[h] = "abierta" => a.luego # "fin"
  BY <1>1 DEF Base, Manos, LocalesAtencion, Orden, Cierre

\* The thread takes a request.
<1>7. CASE Atender(h) \/ AtenderOtro(h)
  <2>1. /\ alMemoria[h] # <<>> /\ alMemoria'[h] = Tail(alMemoria[h])
        /\ a.pc \in {"inicio", "otro"} /\ b.pc = "cabeza" /\ b.luego = a.luego
        /\ UNCHANGED <<alKernel, hechos>>
    BY <1>1, <1>7 DEF Atender, AtenderOtro, LocalesAtencion
  <2>2. b.luego = "otro"
    BY <1>6, <2>1
  <2>3. EnMano(h) = 0 /\ EnMano(h)' = 1
    BY <2>1, <2>2 DEF EnMano, Atareada
  <2>4. EnRed(h)' \in Nat /\ EnRed(h)' + 1 <= EnRed(h)
    <3>1. EnRed(h)' \in Nat /\ EnRed(h) = EnRed(h)' + (IF Head(alMemoria[h]) = JOURNAL THEN 2 ELSE 1)
      BY <2>1, PasoDeRed
    <3> QED BY <3>1
  <2>5. DeVuelta(h)' = DeVuelta(h)
    BY <2>1, PasoDeVuelta
  <2> QED BY <1>2, <1>3, <1>5, <2>1, <2>3, <2>4, <2>5 DEF Repite
<1>8. CASE AtenderJournal(h)
  <2>1. /\ alMemoria[h] # <<>> /\ alMemoria'[h] = Tail(alMemoria[h])
        /\ Head(alMemoria[h]) = JOURNAL
        /\ a.pc = "otro" /\ b.pc = "procesar" /\ b.luego = "cabeza" /\ b.p = JOURNAL
        /\ UNCHANGED <<alKernel, hechos>>
    BY <1>1, <1>8 DEF AtenderJournal, LocalesAtencion
  <2>2. EnMano(h) = 0 /\ EnMano(h)' = 2
    BY <2>1 DEF EnMano, Atareada
  <2>3. EnRed(h)' \in Nat /\ EnRed(h) = EnRed(h)' + 2
    BY <2>1, PasoDeRed
  <2>4. DeVuelta(h)' = DeVuelta(h)
    BY <2>1, PasoDeVuelta
  <2> QED BY <1>2, <1>3, <1>5, <2>1, <2>2, <2>3, <2>4 DEF Repite

\* It goes on with the one it has.
<1>9. ASSUME EnMano(h)' = EnMano(h), UNCHANGED <<alMemoria, alKernel, hechos>>
      PROVE  Repite(h)'
  <2>1. EnRed(h)' = EnRed(h) /\ DeVuelta(h)' = DeVuelta(h)
    BY <1>9, PasoDeRed, PasoDeVuelta
  <2> QED BY <1>2, <1>3, <1>5, <1>9, <2>1 DEF Repite
<1>10. CASE Compuerta(h) \/ Entrar(h) \/ JournalVaciar(h)
  <2>1. /\ a.pc \in Atareada \ {"responder"} /\ b.pc \in Atareada \ {"responder"}
        /\ b.p = a.p /\ b.luego = a.luego
        /\ UNCHANGED <<alMemoria, alKernel, hechos>>
    BY <1>1, <1>10 DEF Compuerta, Entrar, JournalVaciar, LocalesAtencion, Atareada
  <2>2. EnMano(h)' = EnMano(h)
    BY <2>1 DEF EnMano
  <2> QED BY <1>9, <2>1, <2>2
<1>11. CASE JournalBajarFlag(h)
  <2>1. /\ a.pc = "bajarFlag" /\ b.pc = "responder" /\ b.p = a.p /\ b.luego = a.luego
        /\ UNCHANGED <<alMemoria, alKernel, hechos>>
    BY <1>1, <1>11 DEF JournalBajarFlag, LocalesAtencion
  <2>2. EnMano(h)' = EnMano(h)
    BY <1>6, <2>1 DEF EnMano, Atareada
  <2> QED BY <1>9, <2>1, <2>2
<1>12. CASE VolverACompuerta(h)
  <2>1. /\ a.pc = "responder" /\ a.r.header = "FULL_R"
        /\ b.pc = "cabeza" /\ b.p = a.p /\ b.luego = a.luego
        /\ UNCHANGED <<alMemoria, alKernel, hechos>>
    BY <1>1, <1>12 DEF VolverACompuerta, OtraVuelta, EsFull, LocalesAtencion
  <2>2. EnMano(h)' = EnMano(h)
    BY <2>1 DEF EnMano, Atareada
  <2> QED BY <1>9, <2>1, <2>2
<1>13. CASE Desconectado(h)
  <2>1. /\ a.pc \in {"inicio", "otro"}
        /\ \/ b.pc = "fin"
           \/ b.pc = "procesar" /\ b.luego = "fin" /\ b.p = JOURNAL
        /\ UNCHANGED <<alMemoria, alKernel, hechos>>
    BY <1>1, <1>13 DEF Desconectado, LocalesAtencion
  <2>2. EnMano(h) = 0 /\ EnMano(h)' = 0
    BY <2>1 DEF EnMano, Atareada
  <2> QED BY <1>9, <2>1, <2>2

\* It runs it.
<1>14. CASE Procesar(h)
  <2>1. /\ a.pc = "procesar" /\ a.p # JOURNAL /\ b.pc = "responder" /\ b.p = a.p
        /\ b.r.header = IF llena THEN "FULL_R" ELSE "OK"
        /\ hechos' = IF llena THEN hechos ELSE [hechos EXCEPT ![h][a.p] = @ + 1]
        /\ UNCHANGED <<alMemoria, alKernel>>
    BY <1>1, <1>14 DEF Procesar, LocalesAtencion
  <2>2. a.p \in Pedidos(h)
    BY <1>6, <2>1 DEF Atareada
  <2>3. EnMano(h) = 1 /\ EnMano(h)' = (IF llena THEN 1 ELSE 0)
    BY <2>1 DEF EnMano, Atareada
  <2>4. CASE llena
    BY <1>9, <2>1, <2>3, <2>4
  <2>5. CASE ~llena
    <3>1. hechos'[h] = [hechos[h] EXCEPT ![a.p] = @ + 1]
      BY <1>1, <2>1, <2>5
    <3>2. IsFiniteSet(Pedidos(h))
      <4>1. 1 \in Int /\ Largo[h] \in Int
        BY LosPedidos
      <4> QED BY <4>1, FS_Interval DEF Pedidos
    <3>3. Corridas(h)' = Corridas(h) + 1
      BY <1>4, <2>2, <3>1, <3>2, SumaProps DEF Corridas
    <3>4. EnRed(h)' = EnRed(h) /\ DeVuelta(h)' = DeVuelta(h)
      BY <2>1, PasoDeRed, PasoDeVuelta
    <3>5. hechos'[h] \in [Pedidos(h)' -> Nat]
      BY <1>3, <1>4, <2>2, <3>1
    <3>6. EnMano(h)' = 0
      BY <2>3, <2>5
    <3> QED BY <1>2, <1>3, <2>3, <3>3, <3>4, <3>5, <3>6 DEF Repite
  <2> QED BY <2>4, <2>5

\* It answers.
<1>15. CASE Responder(h)
  <2>1. /\ a.pc = "responder" /\ b.pc = a.luego /\ b.luego = "otro"
        /\ b.p = IF a.luego = "cabeza" THEN a.p ELSE Nulo
        /\ alKernel'[h] = IF conexion[h] = "abierta" THEN Append(alKernel[h], a.r) ELSE alKernel[h]
        /\ UNCHANGED <<alMemoria, hechos>>
    BY <1>1, <1>15 DEF Responder, LocalesAtencion
  <2>2. EnRed(h)' = EnRed(h)
    BY <2>1, PasoDeRed
  <2>3. a.r \in Respuestas /\ (a.p = JOURNAL => a.r.header # "OK")
    BY <1>6, <2>1 DEF JournalR
  <2>4. /\ EnMano(h)' \in Nat
        /\ EnMano(h)' <= EnMano(h)
        /\ conexion[h] = "abierta" /\ a.r.header # "OK" => EnMano(h)' + 1 <= EnMano(h)
    <3>1. CASE a.luego = "otro"
      <4>1. EnMano(h)' = 0 /\ EnMano(h) = IF a.p # JOURNAL /\ a.r.header = "OK" THEN 0 ELSE 1
        BY <2>1, <3>1 DEF EnMano, Atareada
      <4> QED BY <2>3, <4>1
    <3>2. CASE a.luego = "cabeza"
      <4>1. EnMano(h)' = 1 /\ EnMano(h) = 2
        BY <1>6, <2>1, <3>2 DEF EnMano, Atareada
      <4> QED BY <4>1
    <3>3. CASE a.luego = "fin"
      <4>1. EnMano(h)' = 0 /\ EnMano(h) = 0
        BY <1>6, <2>1, <3>3 DEF EnMano, Atareada
      <4> QED BY <1>6, <3>3, <4>1
    <3> QED BY <1>6, <3>1, <3>2, <3>3
  <2>5. CASE conexion[h] = "abierta" /\ a.r.header # "OK"
    <3>1. DeVuelta(h)' = DeVuelta(h) + 1
      BY <2>1, <2>3, <2>5, PasoDeVuelta
    <3>2. EnMano(h)' \in Nat /\ EnMano(h)' + 1 <= EnMano(h)
      BY <2>4, <2>5
    <3> QED BY <1>2, <1>3, <1>5, <2>1, <2>2, <3>1, <3>2 DEF Repite
  <2>6. CASE ~(conexion[h] = "abierta" /\ a.r.header # "OK")
    <3>1. DeVuelta(h)' = DeVuelta(h)
      <4>1. CASE conexion[h] # "abierta"
        BY <2>1, <4>1, PasoDeVuelta
      <4>2. CASE conexion[h] = "abierta" /\ a.r.header = "OK"
        <5>1. DeVuelta(h)' = DeVuelta(h) + 0
          BY <2>1, <2>3, <4>2, PasoDeVuelta
        <5> QED BY <1>2, <5>1
      <4> QED BY <2>6, <4>1, <4>2
    <3>2. EnMano(h)' \in Nat /\ EnMano(h)' <= EnMano(h)
      BY <2>4
    <3> QED BY <1>2, <1>3, <1>5, <2>1, <2>2, <3>1, <3>2 DEF Repite
  <2> QED BY <2>5, <2>6
<1> QED BY <1>7, <1>8, <1>10, <1>11, <1>12, <1>13, <1>14, <1>15 DEF AtenderRequest

LEMMA MorirRepite ==
  ASSUME Base, NEW h \in Conexiones, Repite(h), NEW motivo, Morir(motivo)
  PROVE  Repite(h)'
<1>1. /\ conexion'[h] = IF conexion[h] = "abierta" THEN "cortada" ELSE conexion[h]
      /\ alMemoria'[h] = <<>> /\ atencion'[h] = Ausente
      /\ UNCHANGED <<ejecutor, alKernel, hechos, journals>>
  BY DEF Morir, historia
<1>2. /\ Corridas(h)' = Corridas(h) /\ PorEnviar(h)' = PorEnviar(h) /\ Margen(h)' = Margen(h)
      /\ hechos'[h] \in [Pedidos(h)' -> Nat]
  BY <1>1 DEF PorEnviar, Corridas, Margen, Repite, Pedidos
<1>3. EnRed(h)' = 0 /\ DeVuelta(h)' = DeVuelta(h)
  BY <1>1, PasoDeRed, PasoDeVuelta
<1>4. EnMano(h)' = 0
  BY <1>1 DEF EnMano, Ausente, Atareada
<1>5. conexion'[h] # "cortada" => conexion[h] # "cortada"
  BY <1>1
<1>6. /\ Corridas(h) \in Nat /\ EnRed(h) \in Nat /\ EnMano(h) \in Nat
      /\ DeVuelta(h) \in Nat /\ PorEnviar(h) \in Nat /\ Margen(h) \in Nat
      /\ conexion[h] # "cortada" =>
           Corridas(h) + EnRed(h) + EnMano(h) + DeVuelta(h) + PorEnviar(h) <= Margen(h)
  BY TodosNumeros DEF Repite
<1> QED BY <1>2, <1>3, <1>4, <1>5, <1>6 DEF Repite

LEMMA RepiteInicial == Init => \A h \in Conexiones : Repite(h)
<1> SUFFICES ASSUME Init, NEW h \in Conexiones PROVE Repite(h)
  OBVIOUS
<1>1. /\ ejecutor[h] = [pc |-> "enviar", i |-> 1, tras |-> 0]
      /\ alMemoria[h] = <<>> /\ alKernel[h] = <<>> /\ atencion[h] = Ausente
      /\ journals[h] = 0 /\ hechos[h] = [i \in Pedidos(h) |-> 0]
  BY DEF Init
<1>2. hechos[h] \in [Pedidos(h) -> Nat] /\ \A i \in Pedidos(h) : hechos[h][i] = 0
  BY <1>1
<1>3. Corridas(h) = 0
  <2>1. 1 \in Int /\ Largo[h] \in Int
    BY LosPedidos
  <2>2. IsFiniteSet(Pedidos(h))
    BY <2>1, FS_Interval DEF Pedidos
  <2> QED BY <1>2, <2>2, SumaProps DEF Corridas
<1>4. EnRed(h) = 0 /\ DeVuelta(h) = 0
  <2>1. <<>> \in Seq(Int) /\ 0 \in Int /\ <<>> \in Seq(Respuestas) /\ JournalR \in Respuestas
    BY DEF Respuestas
  <2>2. Cuantos(<<>>) = 0 /\ CuantosDe(<<>>, Otras) = 0 /\ Len(<<>>) = 0
    BY <2>1, CuantosCola, CuentaEnCola
  <2> QED BY <1>1, <2>2 DEF EnRed, DeVuelta
<1>5. EnMano(h) = 0 /\ PorEnviar(h) = 1 /\ Margen(h) = 1
  BY <1>1 DEF EnMano, PorEnviar, Margen, Ausente, Atareada
<1> QED BY <1>2, <1>3, <1>4, <1>5 DEF Repite

LEMMA RepitePaso ==
  ASSUME Ordenada, \A h \in Conexiones : Repite(h), [Next]_vars
  PROVE  \A h \in Conexiones : Repite(h)'
<1>1. Base /\ \A h \in Conexiones : Orden(h)
  BY DEF Ordenada
<1>2. TAKE g \in Conexiones
<1>3. ASSUME NEW h \in Conexiones, Ejecutar(h) \/ MorirKernel(h) \/ AtenderRequest(h)
      PROVE  Repite(g)'
  <2>1. CASE g = h
    BY <1>1, <1>3, <2>1, EjecutarRepite, AtenderRepite
  <2>2. CASE g # h
    BY <1>1, <1>3, <2>2, Ajenos, RepiteIgual
  <2> QED BY <2>1, <2>2
<1>4. CASE MorirMemoria \/ Matar
  BY <1>1, <1>4, MorirRepite DEF MorirMemoria, Matar
<1>5. CASE Llenar \/ ProcesoJournal \/ UNCHANGED vars
  <2>1. Igual(g)
    BY <1>5 DEF Llenar, ProcesoJournal, vars, red, historia, Igual
  <2> QED BY <1>1, <2>1, RepiteIgual
<1> QED BY <1>3, <1>4, <1>5 DEF Next

\* For any connections and lengths, the requests of a turn run no more times in
\* all than it has requests behind it and JOURNALs sent.
THEOREM LaRepeticionSeAcota == Spec => []RepeticionAcotada
<1> DEFINE I == Ordenada /\ \A h \in Conexiones : Repite(h)
<1>1. Init => I
  BY OrdenadaInicial, RepiteInicial
<1>2. I /\ [Next]_vars => I'
  BY OrdenadaPaso, RepitePaso
<1>3. ASSUME I PROVE RepeticionAcotada
  <2>1. SUFFICES ASSUME NEW h \in Conexiones, conexion[h] # "cortada"
                 PROVE  Corridas(h) <= Margen(h)
    BY DEF RepeticionAcotada, Suma, Corridas, Margen
  <2>2. Base /\ Repite(h)
    BY <1>3 DEF Ordenada
  <2>3. /\ Corridas(h) \in Nat /\ EnRed(h) \in Nat /\ EnMano(h) \in Nat
        /\ DeVuelta(h) \in Nat /\ PorEnviar(h) \in Nat /\ Margen(h) \in Nat
    BY <2>2, TodosNumeros DEF Repite
  <2> QED BY <2>1, <2>2, <2>3 DEF Repite
<1> QED BY <1>1, <1>2, <1>3, PTL DEF Spec
=============================================================================
