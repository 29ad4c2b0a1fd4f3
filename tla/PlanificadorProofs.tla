------------------------- MODULE PlanificadorProofs -------------------------
(***************************************************************************)
(* Proofs about the kernel's planner, for any scripts, tables, memories,   *)
(* executors and quantum: its types, that no executor is lost, that it     *)
(* implements Turnos, that the semaphore of the ready queue never lags     *)
(* behind it, that no script is lost, that the metadata of a table stays   *)
(* whole, and that a script is only abandoned for a reason.                *)
(*                                                                         *)
(* First every action is reduced to what it does to the scripts: an        *)
(* executor goes on with its own (Sigue), takes a request from it (Pide),  *)
(* leaves it (Deja) or puts it back (Devuelve); the other threads move one *)
(* on (Ingresa, Saca, Encola, Lanza) or none (Quieto).  The rest is proved *)
(* of these.  Base says where each thread is and what it then holds;       *)
(* Unidad, that a script is in one place at most, which the operations     *)
(* that meet on queue_listo do not break: they lose scripts, and double    *)
(* none; Orden adds the count of the executors.  Under Orden, who holds a  *)
(* script says what Turnos sees of it (Vista).                             *)
(*                                                                         *)
(* The last part is about what holds until two operations meet on a shared *)
(* list.  Cola: the queue, its semaphore and the executors about to take   *)
(* from it agree.  Estan: every script is somewhere.  Fichas: what the     *)
(* executors hold of the metadata of a table is what is in the list.       *)
(***************************************************************************)
EXTENDS PlanificadorProp, Lemas

-----------------------------------------------------------------------------
(* Queues. *)

SinRepetir(q) == \A i, k \in DOMAIN q : q[i] = q[k] => i = k

\* Append adds one element, and repeats none that was not there.
LEMMA AlFinal ==
  ASSUME NEW Q, NEW q \in Seq(Q), NEW s \in Q
  PROVE  /\ Append(q, s) \in Seq(Q) /\ Len(Append(q, s)) = Len(q) + 1
         /\ \A x : Contains(Append(q, s), x) <=> Contains(q, x) \/ x = s
         /\ SinRepetir(q) /\ ~Contains(q, s) => SinRepetir(Append(q, s))
<1>1. /\ Append(q, s) \in Seq(Q) /\ Len(Append(q, s)) = Len(q) + 1 /\ Len(q) \in Nat
      /\ Append(q, s)[Len(q) + 1] = s
      /\ \A i \in 1..Len(q) : Append(q, s)[i] = q[i]
      /\ DOMAIN Append(q, s) = 1..Len(q) + 1 /\ DOMAIN q = 1..Len(q)
  OBVIOUS
<1>2. \A x : Contains(Append(q, s), x) <=> Contains(q, x) \/ x = s
  BY <1>1 DEF Contains
<1>3. SinRepetir(q) /\ ~Contains(q, s) => SinRepetir(Append(q, s))
  BY <1>1 DEF Contains, SinRepetir
<1> QED BY <1>1, <1>2, <1>3

\* Tail takes the first away.
LEMMA SinElPrimero ==
  ASSUME NEW Q, NEW q \in Seq(Q), q # <<>>
  PROVE  /\ Tail(q) \in Seq(Q) /\ Len(Tail(q)) = Len(q) - 1 /\ Head(q) \in Q
         /\ \A x : Contains(Tail(q), x) => Contains(q, x)
         /\ Contains(q, Head(q))
         /\ SinRepetir(q) => SinRepetir(Tail(q)) /\ ~Contains(Tail(q), Head(q))
<1>1. /\ Tail(q) \in Seq(Q) /\ Len(Tail(q)) = Len(q) - 1 /\ Len(q) \in Nat \ {0}
      /\ Head(q) = q[1] /\ Head(q) \in Q
      /\ \A i \in 1..Len(q) - 1 : Tail(q)[i] = q[i + 1]
      /\ DOMAIN Tail(q) = 1..Len(q) - 1 /\ DOMAIN q = 1..Len(q)
  OBVIOUS
<1>2. \A x : Contains(Tail(q), x) => Contains(q, x)
  <2>1. SUFFICES ASSUME NEW x, NEW i \in 1..Len(q) - 1, Tail(q)[i] = x
                 PROVE  Contains(q, x)
    BY <1>1 DEF Contains
  <2>2. i + 1 \in 1..Len(q) /\ q[i + 1] = x
    BY <1>1, <2>1
  <2> QED BY <2>2 DEF Contains
<1>3. Contains(q, Head(q))
  BY <1>1 DEF Contains
<1>4. ASSUME SinRepetir(q) PROVE SinRepetir(Tail(q)) /\ ~Contains(Tail(q), Head(q))
  BY <1>1, <1>4 DEF Contains, SinRepetir
<1> QED BY <1>1, <1>2, <1>3, <1>4

\* A queue cut after its n-th node has no other elements.
LEMMA HastaElUltimo ==
  ASSUME NEW Q, NEW q \in Seq(Q), NEW n \in 1..Len(q)
  PROVE  /\ SubSeq(q, 1, n) \in Seq(Q)
         /\ \A x : Contains(SubSeq(q, 1, n), x) => Contains(q, x)
         /\ SinRepetir(q) => SinRepetir(SubSeq(q, 1, n))
<1>1. /\ SubSeq(q, 1, n) \in Seq(Q) /\ Len(SubSeq(q, 1, n)) = n
      /\ \A i \in 1..n : SubSeq(q, 1, n)[i] = q[i]
      /\ DOMAIN SubSeq(q, 1, n) = 1..n /\ DOMAIN q = 1..Len(q) /\ 1..n \subseteq 1..Len(q)
      /\ Len(q) \in Nat
  OBVIOUS
<1> QED BY <1>1 DEF Contains, SinRepetir

\* The second half of list_add.
LEMMA TrasEnlazar ==
  ASSUME queue_listo \in Seq(Guiones), NEW u \in Guiones \cup {Nulo}, NEW s \in Guiones
  PROVE  LET q == ColaTrasEnlazar(u, s) IN
         /\ q \in Seq(Guiones)
         /\ \A x : Contains(q, x) => Contains(queue_listo, x) \/ x = s
         /\ SinRepetir(queue_listo) /\ ~Contains(queue_listo, s) => SinRepetir(q)
<1>1. CASE u = Nulo
  <2>1. <<s>> \in Seq(Guiones) /\ (\A x : Contains(<<s>>, x) => x = s) /\ SinRepetir(<<s>>)
    BY DEF Contains, SinRepetir
  <2> QED BY <1>1, <2>1 DEF ColaTrasEnlazar
<1>2. CASE u # Nulo /\ Contains(queue_listo, u)
  <2> DEFINE n == CHOOSE i \in DOMAIN queue_listo : queue_listo[i] = u
             h == SubSeq(queue_listo, 1, n)
  <2>1. n \in 1..Len(queue_listo)
    BY <1>2 DEF Contains
  <2>2. /\ h \in Seq(Guiones)
        /\ \A x : Contains(h, x) => Contains(queue_listo, x)
        /\ SinRepetir(queue_listo) => SinRepetir(h)
    BY <2>1, HastaElUltimo
  <2> HIDE DEF n, h
  <2>3. ColaTrasEnlazar(u, s) = Append(h, s)
    BY <1>2 DEF ColaTrasEnlazar, Hasta, h, n
  <2> QED BY <2>2, <2>3, AlFinal
<1>3. CASE u # Nulo /\ ~Contains(queue_listo, u)
  BY <1>3 DEF ColaTrasEnlazar
<1> QED BY <1>1, <1>2, <1>3

-----------------------------------------------------------------------------
(* The types. *)

\* The assignments of an executor to its locals keep the types.
LEMMA CambiarLocales ==
  ASSUME NEW r \in LocalesEjecutor, NEW pc \in PasosEjecutor
  PROVE  /\ [r EXCEPT !.pc = pc] \in LocalesEjecutor
         /\ \A p \in Pedidos \cup {Nulo} : [r EXCEPT !.p = p, !.pc = pc] \in LocalesEjecutor
         /\ \A v \in BOOLEAN, b \in BOOLEAN, f \in {"no", "llenando", "limpia"} :
              [r EXCEPT !.pc = pc, !.vista = v, !.sabida = b, !.refresco = f] \in LocalesEjecutor
         /\ \A u \in Guiones \cup {Nulo} : [r EXCEPT !.pc = pc, !.ultimo = u] \in LocalesEjecutor
         /\ \A Q \in 0..Len(EnFS) : [r EXCEPT !.pc = pc, !.faltan = Q] \in LocalesEjecutor
         /\ \A Q \in 0..Len(EnFS) : [r EXCEPT !.faltan = Q] \in LocalesEjecutor
         /\ [r EXCEPT !.refresco = "limpia"] \in LocalesEjecutor
         /\ r.quantum > 0 =>
              [r EXCEPT !.pc = pc, !.quantum = @ - 1, !.p = Nulo, !.vista = FALSE,
                        !.refresco = "no", !.sabida = FALSE] \in LocalesEjecutor
<1> DEFINE S == Guiones \cup {Nulo}  P == Pedidos \cup {Nulo}  F == {"no", "llenando", "limpia"}
           TT == 0..Len(EnFS)  QQ == 0..Quantum
           L == [pc : PasosEjecutor, s : S, quantum : QQ, p : P, ultimo : S, vista : BOOLEAN,
                 sabida : BOOLEAN, refresco : F, faltan : TT]
<1>0. LocalesEjecutor = L /\ Nulo \in P /\ "no" \in F /\ "limpia" \in F
  BY DEF LocalesEjecutor
<1>1. r.quantum > 0 => r.quantum - 1 \in QQ
  BY QuantumValido DEF LocalesEjecutor
<1>2. r \in L
  BY <1>0
<1> HIDE DEF S, P, F, TT, QQ
<1>3. [r EXCEPT !.pc = pc] \in L
  BY <1>2
<1>4. ASSUME NEW p \in P PROVE [r EXCEPT !.p = p, !.pc = pc] \in L
  BY <1>2
<1>5. ASSUME NEW v \in BOOLEAN, NEW b \in BOOLEAN, NEW f \in F
      PROVE  [r EXCEPT !.pc = pc, !.vista = v, !.sabida = b, !.refresco = f] \in L
  BY <1>2
<1>6. ASSUME NEW u \in S PROVE [r EXCEPT !.pc = pc, !.ultimo = u] \in L
  BY <1>2
<1>7. ASSUME NEW Q \in TT PROVE [r EXCEPT !.pc = pc, !.faltan = Q] \in L
  BY <1>2
<1>8. ASSUME NEW Q \in TT PROVE [r EXCEPT !.faltan = Q] \in L
  BY <1>2
<1>9. [r EXCEPT !.refresco = "limpia"] \in L
  BY <1>0, <1>2
<1>10. ASSUME r.quantum > 0
       PROVE  [r EXCEPT !.pc = pc, !.quantum = @ - 1, !.p = Nulo, !.vista = FALSE,
                        !.refresco = "no", !.sabida = FALSE] \in L
  BY <1>0, <1>1, <1>2, <1>10
<1> HIDE DEF L
<1> QED BY <1>0, <1>3, <1>4, <1>5, <1>6, <1>7, <1>8, <1>9, <1>10 DEF S, P, F, TT

ConPedido == {"buscar", "buscando", "enviar", "llenar"}

\* The locals of an executor agree with where it is.
Local(e) ==
  /\ ej[e].pc = "libre" <=> ej[e].s = Nulo
  /\ ej[e].pc \in ConPedido <=> ej[e].p # Nulo
  /\ ej[e].p # Nulo => ej[e].quantum > 0
  /\ ej[e].pc = "enlazar" => ej[e].quantum = 0

\* A script that is somewhere.
Puesto(s) ==
  \/ Contains(queue_nuevo, s) \/ Contains(queue_listo, s) \/ nuevos.s = s
  \/ \E e \in Ejecutores : ej[e].s = s

Base ==
  /\ TypeOK
  /\ semaforoNuevo = Len(queue_nuevo)
  /\ nuevos.pc = "esperar" <=> nuevos.s = Nulo
  /\ \A e \in Ejecutores : Local(e)
  /\ \A s \in Guiones : Puesto(s) => guion[s] # Nulo

\* Base holds of the initial states.
LEMMA BaseInicial == Init => Base
<1> SUFFICES ASSUME Init PROVE Base
  OBVIOUS
<1>1. Libre \in LocalesEjecutor
  BY QuantumValido DEF Libre, LocalesEjecutor, PasosEjecutor
<1>2. Cardinality(Ejecutores) \in Nat
  BY EjecutoresFinitos, FS_CardinalityType
<1>3. {Principal} \in (SUBSET Memorias) \ {{}}
  <2>1. {Principal} \subseteq Memorias /\ Principal \in {Principal}
    BY MemoriasValidas
  <2> QED BY <2>1
<1>4. TypeOK
  <2>1. ej \in [Ejecutores -> LocalesEjecutor]
    BY <1>1 DEF Init
  <2>2. guion \in [Guiones -> {Nulo} \cup Seq(Pedidos)]
    BY DEF Init
  <2>3. /\ tabla_gossiping \in ((SUBSET Memorias) \ {{}}) \cup {Nulo}
        /\ mutexMetadata \in Ejecutores \cup {Nadie}
        /\ mutexTablaGossiping \in {"consola", "gossip", Nadie}
    BY <1>3 DEF Init
  <2>4. /\ nuevos \in [pc : {"esperar", "crear", "enlazar"}, s : Guiones \cup {Nulo},
                       ultimo : Guiones \cup {Nulo}]
        /\ fin \in [Guiones -> {"no", "terminado", "destruido"}]
    BY DEF Init
  <2>5. /\ queue_nuevo \in Seq(Guiones) /\ queue_listo \in Seq(Guiones)
        /\ metadata_tablas \in Seq(Tablas) /\ conocidas \subseteq Tablas
        /\ criterio_SC \in Seq(Memorias) /\ criterio_EC \in Seq(Memorias)
    BY DEF Init
  <2>6. /\ semaforoNuevo \in Nat /\ cuenta \in Int
        /\ semaforoListo \in Nat /\ semaforoExecLibre \in Nat
        /\ listos \in {"esperarListo", "esperarExec", "lanzar"}
        /\ ultimaMemoriaCriterioEC \in Nat
    BY <1>2 DEF Init
  <2>7. mutexNuevo \in BOOLEAN
    BY DEF Init
  <2> QED BY <2>1, <2>2, <2>3, <2>4, <2>5, <2>6, <2>7 DEF TypeOK
<1>5. \A e \in Ejecutores : Local(e)
  <2>1. \A e \in Ejecutores : ej[e] = Libre
    BY DEF Init
  <2>2. Libre.pc = "libre" /\ Libre.s = Nulo /\ Libre.p = Nulo
    BY DEF Libre
  <2> QED BY <2>1, <2>2 DEF Local, ConPedido
<1>6. \A s \in Guiones : ~Puesto(s)
  BY NulosValidos DEF Init, Puesto, Libre, Contains
<1> QED BY <1>4, <1>5, <1>6 DEF Base, Init

-----------------------------------------------------------------------------
(* What a step of an executor does to its script. *)

Usos(e) == Quantum - ej[e].quantum + (IF ej[e].p = Nulo THEN 0 ELSE 1)

Igual(x) ==
  /\ ej'[x].pc = ej[x].pc /\ ej'[x].s = ej[x].s
  /\ ej'[x].quantum = ej[x].quantum /\ ej'[x].p = ej[x].p

\* The types of what the scripts do not depend on.
OtrosTipos ==
  /\ mutexNuevo \in BOOLEAN /\ cuenta \in Int /\ semaforoListo \in Nat
  /\ metadata_tablas \in Seq(Tablas) /\ conocidas \subseteq Tablas
  /\ mutexMetadata \in Ejecutores \cup {Nadie}
  /\ criterio_SC \in Seq(Memorias) /\ criterio_EC \in Seq(Memorias)
  /\ ultimaMemoriaCriterioEC \in Nat
  /\ tabla_gossiping \in ((SUBSET Memorias) \ {{}}) \cup {Nulo}
  /\ mutexTablaGossiping \in {"consola", "gossip", Nadie}

\* It goes on with the script, ..
Sigue(e) ==
  /\ ej[e].pc # "libre" /\ ej'[e].pc # "libre" /\ ej'[e].s = ej[e].s
  /\ Usos(e)' = Usos(e)
  /\ Local(e)' /\ (ej'[e].pc = "enlazar" => guion[ej[e].s] # <<>>)
  /\ UNCHANGED <<guion, fin, queue_listo, semaforoExecLibre>>

\* .. takes a request from it, ..
Pide(e) ==
  LET s == ej[e].s IN
  /\ ej[e].pc = "tomar" /\ ej[e].quantum > 0 /\ guion[s] # <<>>
  /\ guion' = [guion EXCEPT ![s] = Tail(@)]
  /\ ej'[e].pc \in ConPedido /\ ej'[e].s = s /\ ej'[e].quantum = ej[e].quantum
  /\ ej'[e].p # Nulo
  /\ UNCHANGED <<fin, queue_listo, semaforoExecLibre>>

\* .. leaves it, ended or given up, ..
Deja(e) ==
  LET s == ej[e].s IN
  /\ ej[e].pc # "libre"
  /\ guion[s] = <<>> \/ ej[e].p # Nulo
  /\ guion' = [guion EXCEPT ![s] = <<>>]
  /\ \E como \in {"terminado", "destruido"} : fin' = [fin EXCEPT ![s] = como]
  /\ ej'[e] = Libre /\ semaforoExecLibre' = semaforoExecLibre + 1
  /\ UNCHANGED queue_listo

\* .. or puts it back.
Devuelve(e) ==
  /\ ej[e].pc = "enlazar"
  /\ queue_listo' = ColaTrasEnlazar(ej[e].ultimo, ej[e].s)
  /\ ej'[e] = Libre /\ semaforoExecLibre' = semaforoExecLibre + 1
  /\ UNCHANGED <<guion, fin>>

Efecto(e) ==
  /\ ej' \in [Ejecutores -> LocalesEjecutor] /\ OtrosTipos'
  /\ \A x \in Ejecutores : x # e => Igual(x)
  /\ UNCHANGED <<queue_nuevo, semaforoNuevo, nuevos, listos>>
  /\ Sigue(e) \/ Pide(e) \/ Deja(e) \/ Devuelve(e)

\* A step that rewrites the locals of one executor leaves the others alone.
LEMMA UnPaso ==
  ASSUME Base, NEW e \in Ejecutores, ej[e].pc # "libre",
         NEW r \in LocalesEjecutor, ej' = [ej EXCEPT ![e] = r],
         r.pc # "libre", r.s = ej[e].s
  PROVE  /\ ej' \in [Ejecutores -> LocalesEjecutor] /\ ej'[e] = r
         /\ \A x \in Ejecutores : x # e => Igual(x)
  BY DEF Base, TypeOK, Igual

\* Of an action that changes only the executor's pc and locals.
LEMMA SoloSigue ==
  ASSUME Base, NEW e \in Ejecutores, ej[e].pc # "libre",
         NEW r \in LocalesEjecutor, ej' = [ej EXCEPT ![e] = r],
         r.pc \notin {"libre", "enlazar"}, r.s = ej[e].s,
         \/ r.pc \in ConPedido /\ ej[e].pc \in ConPedido /\ r.p = ej[e].p /\ r.quantum = ej[e].quantum
         \/ r.pc = "tomar" /\ ej[e].pc \in ConPedido /\ r.p = Nulo /\ r.quantum = ej[e].quantum - 1,
         EnEjecutor, UNCHANGED <<guion, fin, queue_listo, semaforoExecLibre>>,
         OtrosTipos'
  PROVE  Efecto(e)
<1>1. /\ ej' \in [Ejecutores -> LocalesEjecutor] /\ ej'[e] = r
      /\ \A x \in Ejecutores : x # e => Igual(x)
  BY UnPaso
<1>2. Local(e) /\ ej[e].s # Nulo /\ ej[e].quantum \in Int /\ Quantum \in Int
  BY QuantumValido DEF Base, TypeOK, Local, LocalesEjecutor
<1>3. Local(e)'
  BY <1>1, <1>2 DEF Local, ConPedido
<1>4. Usos(e)' = Usos(e)
  BY <1>1, <1>2 DEF Usos, Local, ConPedido
<1> QED BY <1>1, <1>3, <1>4 DEF Efecto, Sigue, EnEjecutor, colaNuevos

\* Every action of an executor is one of the four.
LEMMA EfectoEjecutar ==
  ASSUME Base, NEW e \in Ejecutores, Ejecutar(e)
  PROVE  Efecto(e)
<1> USE DEF colaNuevos, colaListos, tablas, criterios, gossip
<1> DEFINE x == ej[e]
<1>1. /\ ej \in [Ejecutores -> LocalesEjecutor] /\ x \in LocalesEjecutor
      /\ OtrosTipos /\ EnFS \in Seq(Tablas) /\ semaforoListo + 1 \in Nat
      /\ x.quantum \in Int /\ Quantum \in Int /\ queue_listo \in Seq(Guiones)
      /\ x.s \in Guiones \cup {Nulo} /\ x.p \in Pedidos \cup {Nulo}
      /\ x.ultimo \in Guiones \cup {Nulo}
  BY TablasValidas, QuantumValido DEF Base, TypeOK, OtrosTipos, LocalesEjecutor
<1>2. Local(e)
  BY DEF Base
<1>4. /\ "buscando" \in PasosEjecutor /\ "enviar" \in PasosEjecutor /\ "llenar" \in PasosEjecutor
      /\ "tomar" \in PasosEjecutor /\ "buscar" \in PasosEjecutor /\ "enlazar" \in PasosEjecutor
  BY DEF PasosEjecutor
<1>3. /\ \A pc \in PasosEjecutor : [x EXCEPT !.pc = pc] \in LocalesEjecutor
      /\ \A pc \in PasosEjecutor, p \in Pedidos \cup {Nulo} :
           [x EXCEPT !.p = p, !.pc = pc] \in LocalesEjecutor
      /\ \A pc \in PasosEjecutor, v \in BOOLEAN, b \in BOOLEAN, f \in {"no", "llenando", "limpia"} :
           [x EXCEPT !.pc = pc, !.vista = v, !.sabida = b, !.refresco = f] \in LocalesEjecutor
      /\ \A pc \in PasosEjecutor, u \in Guiones \cup {Nulo} :
           [x EXCEPT !.pc = pc, !.ultimo = u] \in LocalesEjecutor
      /\ \A pc \in PasosEjecutor, Q \in 0..Len(EnFS) :
           [x EXCEPT !.pc = pc, !.faltan = Q] \in LocalesEjecutor
      /\ \A Q \in 0..Len(EnFS) : [x EXCEPT !.faltan = Q] \in LocalesEjecutor
  BY <1>1, <1>4, CambiarLocales, ZenonT(60)
<1>5. ASSUME x.pc \in ConPedido
      PROVE  /\ Atendido(e) \in LocalesEjecutor /\ Atendido(e).pc = "tomar"
             /\ Atendido(e).s = x.s /\ Atendido(e).p = Nulo /\ Atendido(e).quantum = x.quantum - 1
  <2>1. x.quantum > 0
    BY <1>2, <1>5 DEF Local
  <2>2. Atendido(e) \in LocalesEjecutor
    BY <1>1, <1>4, <2>1, CambiarLocales DEF Atendido
  <2> QED BY <1>1, <2>2 DEF Atendido, LocalesEjecutor
\* It takes a request with it.
<1>6. CASE TomarPedido(e)
  <2> DEFINE p == Head(guion[x.s])
             pc == IF p.tipo = "TABLA" THEN "buscar" ELSE "enviar"
             r == [x EXCEPT !.p = p, !.pc = pc]
  <2>1. /\ x.pc = "tomar" /\ x.quantum > 0 /\ guion[x.s] # <<>>
        /\ ej' = [ej EXCEPT ![e] = r]
        /\ guion' = [guion EXCEPT ![x.s] = Tail(@)]
        /\ EnEjecutor /\ UNCHANGED <<fin, colaListos, semaforoExecLibre, tablas, ultimaMemoriaCriterioEC>>
    BY <1>1, <1>6 DEF TomarPedido
  <2>2. x.s \in Guiones
    BY <1>1, <1>2, <2>1 DEF Local
  <2>3. guion[x.s] \in Seq(Pedidos)
    <3>1. guion[x.s] \in {Nulo} \cup Seq(Pedidos)
      BY <2>2 DEF Base, TypeOK
    <3>2. guion[x.s] # Nulo
      BY <2>2 DEF Base, Puesto
    <3> QED BY <3>1, <3>2
  <2>4. p \in Pedidos /\ p # Nulo
    BY <2>1, <2>3, NulosValidos
  <2>5. pc \in {"buscar", "enviar"}
    OBVIOUS
  <2> HIDE DEF p, pc
  <2>6. r \in LocalesEjecutor
    BY <1>3, <1>4, <2>4, <2>5
  <2>7. r.pc = pc /\ r.s = x.s /\ r.quantum = x.quantum /\ r.p = p
    BY <1>1 DEF LocalesEjecutor
  <2> HIDE DEF r
  <2>8. /\ ej' \in [Ejecutores -> LocalesEjecutor] /\ ej'[e] = r
        /\ \A y \in Ejecutores : y # e => Igual(y)
    BY <2>1, <2>5, <2>6, <2>7, UnPaso
  <2>9. OtrosTipos'
    BY <1>1, <2>1 DEF OtrosTipos, EnEjecutor
  <2>10. Pide(e)
    BY <2>1, <2>4, <2>5, <2>7, <2>8 DEF Pide, ConPedido
  <2> QED BY <2>1, <2>8, <2>9, <2>10 DEF Efecto, EnEjecutor
\* It goes on with the request it has.
<1>7. CASE BuscarTabla(e)
  <2> DEFINE v == Contains(metadata_tablas, x.p.t)
             b == x.p.t \in conocidas
             f == IF mutexMetadata = Nadie THEN "no" ELSE "llenando"
             r == [x EXCEPT !.pc = "buscando", !.vista = v, !.sabida = b, !.refresco = f]
  <2>1. /\ x.pc = "buscar" /\ ej' = [ej EXCEPT ![e] = r]
        /\ EnEjecutor /\ UNCHANGED <<guion, fin, colaListos, semaforoExecLibre, tablas, ultimaMemoriaCriterioEC>>
    BY <1>1, <1>7 DEF BuscarTabla
  <2>2. v \in BOOLEAN /\ b \in BOOLEAN /\ f \in {"no", "llenando", "limpia"}
    BY DEF Contains
  <2> HIDE DEF v, b, f
  <2>3. r \in LocalesEjecutor
    BY <1>3, <1>4, <2>2
  <2>4. r.pc = "buscando" /\ r.s = x.s /\ r.quantum = x.quantum /\ r.p = x.p
    BY <1>1 DEF LocalesEjecutor
  <2> HIDE DEF r
  <2>5. OtrosTipos'
    BY <1>1, <2>1 DEF OtrosTipos, EnEjecutor
  <2> QED BY <2>1, <2>3, <2>4, <2>5, SoloSigue DEF ConPedido
<1>8. ASSUME x.pc = "buscando", ej' = [ej EXCEPT ![e].pc = "enviar"], EnEjecutor,
             UNCHANGED <<guion, fin, colaListos, semaforoExecLibre, tablas>>,
             ultimaMemoriaCriterioEC' \in Nat
      PROVE  Efecto(e)
  <2> DEFINE r == [x EXCEPT !.pc = "enviar"]
  <2>1. ej' = [ej EXCEPT ![e] = r] /\ r \in LocalesEjecutor
    BY <1>1, <1>3, <1>4, <1>8
  <2>2. r.pc = "enviar" /\ r.s = x.s /\ r.quantum = x.quantum /\ r.p = x.p
    BY <1>1 DEF LocalesEjecutor
  <2> HIDE DEF r
  <2>3. OtrosTipos'
    BY <1>1, <1>8 DEF OtrosTipos, EnEjecutor
  <2> QED BY <1>8, <2>1, <2>2, <2>3, SoloSigue DEF ConPedido
<1>9. ASSUME x.pc = "buscando", DestruirEjecucion(e), EnEjecutor,
             UNCHANGED <<colaListos, tablas>>, ultimaMemoriaCriterioEC' \in Nat
      PROVE  Efecto(e)
  <2>1. Libre \in LocalesEjecutor
    BY QuantumValido DEF Libre, LocalesEjecutor, PasosEjecutor
  <2>2. /\ ej' \in [Ejecutores -> LocalesEjecutor] /\ ej'[e] = Libre
        /\ \A y \in Ejecutores : y # e => Igual(y)
    BY <1>1, <1>9, <2>1 DEF DestruirEjecucion, Igual
  <2>3. OtrosTipos'
    BY <1>1, <1>9 DEF OtrosTipos, EnEjecutor
  <2>4. x.p # Nulo
    BY <1>2, <1>9 DEF Local, ConPedido
  <2>5. Deja(e)
    BY <1>9, <2>2, <2>4 DEF Deja, DestruirEjecucion
  <2> QED BY <1>9, <2>2, <2>3, <2>5 DEF Efecto, EnEjecutor
<1>10. CASE SinTabla(e)
  <2>1. ultimaMemoriaCriterioEC' \in Nat
    BY <1>1, <1>10 DEF SinTabla, OtrosTipos
  <2> QED BY <1>9, <1>10, <2>1 DEF SinTabla
<1>11. CASE ElegirSC(e)
  <2>1. ultimaMemoriaCriterioEC' \in Nat
    BY <1>1, <1>11 DEF ElegirSC, OtrosTipos
  <2> QED BY <1>8, <1>9, <1>11, <2>1 DEF ElegirSC, UsarMemoria, Encontrada
<1>12. CASE ElegirEC(e)
  <2>1. PICK n \in DOMAIN criterio_EC : UsarMemoria(e, criterio_EC[n]) /\ ultimaMemoriaCriterioEC' = n
    BY <1>12 DEF ElegirEC
  <2>2. ultimaMemoriaCriterioEC' \in Nat
    <3>1. criterio_EC \in Seq(Memorias)
      BY <1>1 DEF OtrosTipos
    <3> QED BY <2>1, <3>1
  <2> QED BY <1>8, <1>9, <1>12, <2>1, <2>2 DEF ElegirEC, UsarMemoria, Encontrada
<1>13. CASE ElegirSHC(e)
  <2>1. ultimaMemoriaCriterioEC' \in Nat
    BY <1>1, <1>13 DEF ElegirSHC, OtrosTipos
  <2> QED BY <1>8, <1>9, <1>13, <2>1 DEF ElegirSHC, Encontrada
\* The request is answered.
<1>14. ASSUME x.pc \in ConPedido, ej' = [ej EXCEPT ![e] = Atendido(e)], EnEjecutor,
              UNCHANGED <<guion, fin, queue_listo, semaforoExecLibre>>, OtrosTipos'
       PROVE  Efecto(e)
  <2> DEFINE r == Atendido(e)
  <2>1. /\ r \in LocalesEjecutor /\ r.pc = "tomar" /\ r.s = x.s /\ r.p = Nulo
        /\ r.quantum = x.quantum - 1
    BY <1>5, <1>14
  <2> HIDE DEF r
  <2>2. ej' = [ej EXCEPT ![e] = r] /\ x.pc # "libre"
    BY <1>14 DEF r, ConPedido
  <2> QED BY <1>14, <2>1, <2>2, SoloSigue
<1>15. CASE Responder(e)
  <2>1. OtrosTipos'
    BY <1>1, <1>15 DEF Responder, OtrosTipos, EnEjecutor
  <2> QED BY <1>14, <1>15, <2>1 DEF Responder, ConPedido
<1>16. CASE DescribeUna(e)
  <2>0. x.p.t \in Tablas
    BY <1>1, <1>16 DEF DescribeUna, Contains
  <2>1. AgregarTabla(x.p.t) \in Seq(Tablas)
    BY <1>1, <2>0 DEF AgregarTabla, OtrosTipos
  <2>2. OtrosTipos'
    BY <1>1, <1>16, <2>0, <2>1 DEF DescribeUna, OtrosTipos, EnEjecutor
  <2> QED BY <1>14, <1>16, <2>2 DEF DescribeUna, ConPedido
<1>17. CASE Llena(e)
  <2>0. ToSet(EnFS) \subseteq Tablas
    BY <1>1 DEF ToSet
  <2>1. OtrosTipos'
    BY <1>1, <1>17, <2>0 DEF Llena, OtrosTipos, EnEjecutor
  <2> QED BY <1>14, <1>17, <2>1 DEF Llena, ConPedido
\* recibirMetadata of all the tables.
<1>18. CASE DescribeTodas(e)
  <2> DEFINE r == [x EXCEPT !.pc = "llenar", !.faltan = Len(EnFS)]
  <2>1. /\ r \in LocalesEjecutor /\ r.pc = "llenar" /\ r.s = x.s
        /\ r.quantum = x.quantum /\ r.p = x.p
    <3>1. r.pc = "llenar" /\ r.s = x.s /\ r.quantum = x.quantum /\ r.p = x.p
      BY <1>1 DEF LocalesEjecutor
    <3>2. Len(EnFS) \in 0..Len(EnFS)
      BY <1>1
    <3>3. r \in LocalesEjecutor
      BY <1>3, <1>4, <3>2
    <3> QED BY <3>1, <3>3
  <2> HIDE DEF r
  <2>2. ej' = [y \in Ejecutores |->
                 IF y = e THEN r
                 ELSE IF ej[y].pc = "buscando" THEN [ej[y] EXCEPT !.refresco = "limpia"]
                 ELSE ej[y]]
    BY <1>18 DEF DescribeTodas, r
  <2>3. ASSUME NEW y \in Ejecutores
        PROVE  /\ [ej[y] EXCEPT !.refresco = "limpia"] \in LocalesEjecutor
               /\ [ej[y] EXCEPT !.refresco = "limpia"].pc = ej[y].pc
               /\ [ej[y] EXCEPT !.refresco = "limpia"].s = ej[y].s
               /\ [ej[y] EXCEPT !.refresco = "limpia"].p = ej[y].p
               /\ [ej[y] EXCEPT !.refresco = "limpia"].quantum = ej[y].quantum
    <3>1. ej[y] \in LocalesEjecutor
      BY <1>1
    <3>2. [ej[y] EXCEPT !.refresco = "limpia"] \in LocalesEjecutor
      BY <1>4, <3>1, CambiarLocales
    <3> QED BY <3>1, <3>2 DEF LocalesEjecutor
  <2>4. /\ ej' \in [Ejecutores -> LocalesEjecutor] /\ ej'[e] = r
        /\ \A y \in Ejecutores : y # e => Igual(y)
    BY <1>1, <2>1, <2>2, <2>3 DEF Igual
  <2>5. OtrosTipos'
    BY <1>1, <1>18 DEF DescribeTodas, OtrosTipos, EnEjecutor
  <2>6. x.pc = "enviar" /\ EnEjecutor /\ UNCHANGED <<guion, fin, queue_listo, semaforoExecLibre>>
    BY <1>18 DEF DescribeTodas
  <2>7. Local(e)'
    BY <1>2, <2>1, <2>4, <2>6 DEF Local, ConPedido
  <2>8. Sigue(e)
    BY <2>1, <2>4, <2>6, <2>7 DEF Sigue, Usos
  <2> QED BY <2>4, <2>5, <2>6, <2>8 DEF Efecto, EnEjecutor
<1>19. CASE Llenar(e)
  <2> DEFINE Q == x.faltan - 1
             r == [x EXCEPT !.faltan = Q]
  <2>1. Q \in 0..Len(EnFS)
    BY <1>1, <1>19 DEF Llenar, LocalesEjecutor
  <2> HIDE DEF Q
  <2>2. ej' = [ej EXCEPT ![e] = r] /\ r \in LocalesEjecutor /\ x.pc = "llenar"
    BY <1>1, <1>3, <1>19, <2>1 DEF Llenar, Q
  <2>3. r.pc = x.pc /\ r.s = x.s /\ r.quantum = x.quantum /\ r.p = x.p
    BY <1>1 DEF LocalesEjecutor
  <2> HIDE DEF r
  <2>4. OtrosTipos'
    <3>1. EnFS[Len(EnFS) + 1 - x.faltan] \in Tablas
      BY <1>1, <1>19 DEF Llenar, LocalesEjecutor
    <3> QED BY <1>1, <1>19, <3>1 DEF Llenar, OtrosTipos, EnEjecutor
  <2>5. EnEjecutor /\ UNCHANGED <<guion, fin, queue_listo, semaforoExecLibre>>
    BY <1>19 DEF Llenar
  <2> QED BY <2>2, <2>3, <2>4, <2>5, SoloSigue DEF ConPedido
\* It leaves the script.
<1>20. CASE Terminar(e)
  <2>1. Libre \in LocalesEjecutor
    BY QuantumValido DEF Libre, LocalesEjecutor, PasosEjecutor
  <2>2. /\ ej' \in [Ejecutores -> LocalesEjecutor] /\ ej'[e] = Libre
        /\ \A y \in Ejecutores : y # e => Igual(y)
    BY <1>1, <1>20, <2>1 DEF Terminar, Igual
  <2>3. OtrosTipos'
    BY <1>1, <1>20 DEF Terminar, OtrosTipos, EnEjecutor
  <2>4. guion' = [guion EXCEPT ![x.s] = <<>>]
    <3>1. guion' = guion /\ guion[x.s] = <<>> /\ guion = [s \in Guiones |-> guion[s]]
      BY <1>20 DEF Terminar, Base, TypeOK
    <3> QED BY <3>1
  <2>5. Deja(e)
    BY <1>20, <2>2, <2>4 DEF Terminar, Deja
  <2> QED BY <1>20, <2>2, <2>3, <2>5 DEF Terminar, Efecto, EnEjecutor
<1>21. CASE Devolver(e)
  <2> DEFINE r == [x EXCEPT !.pc = "enlazar", !.ultimo = UltimoNodo]
  <2>1. UltimoNodo \in Guiones \cup {Nulo}
    <3>1. cuenta \in 0..Len(queue_listo)
      BY <1>21 DEF Devolver, BuscarUltimo, HayUltimo
    <3>2. cuenta # 0 => cuenta \in 1..Len(queue_listo)
      BY <1>1, <3>1
    <3> QED BY <1>1, <3>2 DEF UltimoNodo
  <2>2. ej' = [ej EXCEPT ![e] = r] /\ r \in LocalesEjecutor
    BY <1>1, <1>3, <1>4, <1>21, <2>1 DEF Devolver
  <2>3. r.pc = "enlazar" /\ r.s = x.s /\ r.quantum = x.quantum /\ r.p = x.p
    BY <1>1 DEF LocalesEjecutor
  <2> HIDE DEF r
  <2>4. /\ x.pc = "tomar" /\ x.quantum = 0 /\ guion[x.s] # <<>>
        /\ EnEjecutor /\ UNCHANGED <<guion, fin, colaListos, semaforoExecLibre, tablas, ultimaMemoriaCriterioEC>>
    BY <1>21 DEF Devolver, Vuelve
  <2>5. /\ ej' \in [Ejecutores -> LocalesEjecutor] /\ ej'[e] = r
        /\ \A y \in Ejecutores : y # e => Igual(y)
    BY <2>2, <2>3, <2>4, UnPaso
  <2>6. OtrosTipos'
    BY <1>1, <2>4 DEF OtrosTipos, EnEjecutor
  <2>7. Local(e)'
    BY <1>2, <2>3, <2>4, <2>5 DEF Local, ConPedido
  <2>8. Sigue(e)
    BY <2>3, <2>4, <2>5, <2>7 DEF Sigue, Usos
  <2> QED BY <2>4, <2>5, <2>6, <2>8 DEF Efecto, EnEjecutor
<1>22. CASE EncolarDeNuevo(e)
  <2>1. Libre \in LocalesEjecutor
    BY QuantumValido DEF Libre, LocalesEjecutor, PasosEjecutor
  <2>2. /\ ej' \in [Ejecutores -> LocalesEjecutor] /\ ej'[e] = Libre
        /\ \A y \in Ejecutores : y # e => Igual(y)
    BY <1>1, <1>22, <2>1 DEF EncolarDeNuevo, Igual
  <2>3. cuenta' \in Int /\ semaforoListo' \in Nat
    BY <1>1, <1>22 DEF EncolarDeNuevo, Enlazar, CuentaTrasEnlazar, OtrosTipos
  <2>4. OtrosTipos'
    BY <1>1, <1>22, <2>3 DEF EncolarDeNuevo, OtrosTipos, EnEjecutor
  <2>5. Devuelve(e)
    BY <1>22, <2>2 DEF EncolarDeNuevo, Enlazar, Devuelve
  <2> QED BY <1>22, <2>2, <2>4, <2>5 DEF EncolarDeNuevo, Efecto, EnEjecutor
<1> QED BY <1>6, <1>7, <1>10, <1>11, <1>12, <1>13, <1>15, <1>16, <1>17, <1>18, <1>19, <1>20,
           <1>21, <1>22 DEF Ejecutar

-----------------------------------------------------------------------------
(* What a step of the others does to the scripts. *)

LocalesNuevos ==
  [pc : {"esperar", "crear", "enlazar"}, s : Guiones \cup {Nulo}, ultimo : Guiones \cup {Nulo}]

Lanzando == IF listos = "lanzar" THEN 1 ELSE 0

\* Nothing, ..
Quieto ==
  /\ UNCHANGED <<guion, fin, queue_nuevo, semaforoNuevo, queue_listo, ej>>
  /\ nuevos'.s = nuevos.s /\ (nuevos'.pc = "esperar" <=> nuevos.pc = "esperar")
  /\ semaforoExecLibre' \in Nat /\ semaforoExecLibre' + Lanzando' = semaforoExecLibre + Lanzando

\* .. or it moves one on.
Ingresa(s) ==
  /\ guion[s] = Nulo /\ guion' = [guion EXCEPT ![s] = Programa[s]]
  /\ queue_nuevo' = Append(queue_nuevo, s) /\ semaforoNuevo' = semaforoNuevo + 1
  /\ UNCHANGED <<fin, queue_listo, nuevos, listos, ej, semaforoExecLibre>>

Saca ==
  /\ queue_nuevo # <<>> /\ nuevos.s = Nulo
  /\ queue_nuevo' = Tail(queue_nuevo) /\ semaforoNuevo' = semaforoNuevo - 1
  /\ nuevos'.s = Head(queue_nuevo) /\ nuevos'.pc = "crear"
  /\ UNCHANGED <<guion, fin, queue_listo, listos, ej, semaforoExecLibre>>

Encola ==
  /\ nuevos.pc = "enlazar" /\ nuevos.s \in Guiones /\ nuevos.ultimo \in Guiones \cup {Nulo}
  /\ queue_listo' = ColaTrasEnlazar(nuevos.ultimo, nuevos.s)
  /\ nuevos'.s = Nulo /\ nuevos'.pc = "esperar"
  /\ UNCHANGED <<guion, fin, queue_nuevo, semaforoNuevo, listos, ej, semaforoExecLibre>>

Lanza(e) ==
  /\ queue_listo # <<>> /\ queue_listo' = Tail(queue_listo)
  /\ ej[e].pc = "libre"
  /\ ej' = [ej EXCEPT ![e] = [Libre EXCEPT !.pc = "tomar", !.s = Head(queue_listo),
                                           !.quantum = Quantum]]
  /\ listos = "lanzar" /\ listos' = "esperarListo"
  /\ UNCHANGED <<guion, fin, queue_nuevo, semaforoNuevo, nuevos, semaforoExecLibre>>

EfectoAjeno ==
  /\ nuevos' \in LocalesNuevos /\ listos' \in {"esperarListo", "esperarExec", "lanzar"}
  /\ OtrosTipos'
  /\ \/ Quieto
     \/ \E s \in Guiones : Ingresa(s)
     \/ Saca
     \/ Encola
     \/ \E e \in Ejecutores : Lanza(e)

\* Every action of the other threads is one of the five.
LEMMA EfectoOtros ==
  ASSUME Base,
         \/ Consola \/ Respuestas \/ HiloGossip \/ MuerteSegura \/ MorirEjecutando
         \/ AtenderNuevos \/ AtenderListos
  PROVE  EfectoAjeno
<1> USE DEF colaNuevos, colaListos, tablas, criterios, gossip
<1>1. /\ nuevos \in LocalesNuevos /\ listos \in {"esperarListo", "esperarExec", "lanzar"}
      /\ OtrosTipos /\ semaforoExecLibre \in Nat /\ semaforoNuevo = Len(queue_nuevo)
      /\ queue_nuevo \in Seq(Guiones) /\ queue_listo \in Seq(Guiones)
      /\ nuevos.pc = "esperar" <=> nuevos.s = Nulo
  BY DEF Base, TypeOK, OtrosTipos, LocalesNuevos
<1>3. ASSUME UNCHANGED <<guion, fin, queue_nuevo, semaforoNuevo, queue_listo, semaforoExecLibre, nuevos, listos, ej>>,
             OtrosTipos'
      PROVE  EfectoAjeno
  BY <1>1, <1>3 DEF EfectoAjeno, Quieto, Lanzando
\* The console.
<1>4. ASSUME NEW s \in Guiones, Ingresar(s)
      PROVE  EfectoAjeno
  <2>1. OtrosTipos' /\ UNCHANGED <<nuevos, listos>>
    BY <1>1, <1>4 DEF Ingresar, OtrosTipos
  <2> QED BY <1>1, <1>4, <2>1 DEF Ingresar, EfectoAjeno, Ingresa
<1>5. ASSUME NEW a \in Altas, Add(a[1], a[2])
      PROVE  EfectoAjeno
  <2>1. a[1] \in Memorias
    BY MemoriasValidas
  <2>2. criterio_SC' \in Seq(Memorias) /\ criterio_EC' \in Seq(Memorias)
    <3>1. criterio_SC \in Seq(Memorias) /\ criterio_EC \in Seq(Memorias)
      BY <1>1 DEF OtrosTipos
    <3>2. <<a[1]>> \in Seq(Memorias) /\ Append(criterio_EC, a[1]) \in Seq(Memorias)
      BY <2>1, <3>1
    <3> QED BY <1>5, <3>1, <3>2 DEF Add
  <2>3. OtrosTipos'
    BY <1>1, <1>5, <2>2 DEF Add, OtrosTipos
  <2> QED BY <1>3, <1>5, <2>3 DEF Add
\* The gossip table and its mutex.
<1>6. ASSUME NEW quien \in {"consola", "gossip"}, Tomar(quien)
      PROVE  EfectoAjeno
  <2>1. OtrosTipos'
    BY <1>1, <1>6 DEF Tomar, OtrosTipos
  <2> QED BY <1>3, <1>6, <2>1 DEF Tomar
<1>7. ASSUME NEW quien \in {"consola", "gossip"}, Soltar(quien),
             tabla_gossiping' \in ((SUBSET Memorias) \ {{}}) \cup {Nulo}
      PROVE  EfectoAjeno
  <2>1. OtrosTipos'
    BY <1>1, <1>7 DEF Soltar, OtrosTipos
  <2> QED BY <1>3, <1>7, <2>1 DEF Soltar
<1>8. CASE Consola
  BY <1>4, <1>5, <1>6, <1>8 DEF Consola, JournalEnviar
<1>9. CASE Respuestas
  <2>1. CASE JournalRecibir
    BY <1>1, <1>7, <2>1 DEF JournalRecibir, OtrosTipos
  <2>2. CASE GossipRecibir
    BY <1>7, <2>2 DEF GossipRecibir
  <2> QED BY <1>9, <2>1, <2>2 DEF Respuestas
<1>10. CASE HiloGossip
  <2>1. CASE GossipTomar
    BY <1>6, <2>1 DEF GossipTomar
  <2>2. CASE GossipQuitar
    <3>1. tabla_gossiping \in SUBSET Memorias /\ Cardinality(tabla_gossiping) > 1
      BY <1>1, <2>2 DEF GossipQuitar, OtrosTipos
    <3>2. tabla_gossiping \ {Principal} # {}
      <4>1. SUFFICES ASSUME tabla_gossiping \subseteq {Principal} PROVE FALSE
        OBVIOUS
      <4>2. IsFiniteSet({Principal}) /\ Cardinality({Principal}) = 1
        BY FS_Singleton
      <4>3. Cardinality(tabla_gossiping) <= 1 /\ Cardinality(tabla_gossiping) \in Nat
        BY <4>1, <4>2, FS_Subset, FS_CardinalityType
      <4> QED BY <3>1, <4>3
    <3>3. OtrosTipos'
      BY <1>1, <2>2, <3>1, <3>2 DEF GossipQuitar, OtrosTipos
    <3> QED BY <1>3, <2>2, <3>3 DEF GossipQuitar
  <2> QED BY <1>10, <2>1, <2>2 DEF HiloGossip
\* Deaths.
<1>11. CASE MuerteSegura \/ MorirEjecutando
  <2>1. /\ UNCHANGED <<guion, fin, colaNuevos, colaListos, semaforoExecLibre, nuevos, listos,
                       ej, tablas, criterios, gossip>>
    BY <1>11 DEF MuerteSegura, MorirSinTabla, MorirAlEncolar, MorirAlSacar, MorirSinMemoriasEC,
                 MorirEjecutando
  <2>2. OtrosTipos'
    BY <1>1, <2>1 DEF OtrosTipos
  <2> QED BY <1>3, <2>1, <2>2
\* atenderNuevos.
<1>12. CASE SacarNuevo
  <2>1. queue_nuevo # <<>>
    BY <1>1, <1>12 DEF SacarNuevo
  <2>2. Head(queue_nuevo) \in Guiones
    BY <1>1, <2>1
  <2>3. nuevos' \in LocalesNuevos
    BY <1>12, <2>2 DEF SacarNuevo, LocalesNuevos
  <2>4. Saca
    BY <1>1, <1>12, <2>1 DEF SacarNuevo, Saca
  <2>5. OtrosTipos'
    BY <1>1, <1>12 DEF SacarNuevo, OtrosTipos
  <2> QED BY <1>1, <1>12, <2>3, <2>4, <2>5 DEF SacarNuevo, EfectoAjeno
<1>13. CASE CrearEstructura
  <2>1. UltimoNodo \in Guiones \cup {Nulo}
    <3>1. cuenta \in 0..Len(queue_listo)
      BY <1>13 DEF CrearEstructura, BuscarUltimo, HayUltimo
    <3>2. cuenta # 0 => cuenta \in 1..Len(queue_listo)
      BY <1>1, <3>1
    <3> QED BY <1>1, <3>2 DEF UltimoNodo
  <2>2. /\ nuevos' \in LocalesNuevos /\ nuevos'.s = nuevos.s /\ nuevos'.pc = "enlazar"
        /\ nuevos.pc = "crear"
    BY <1>1, <1>13, <2>1 DEF CrearEstructura, LocalesNuevos
  <2>3. OtrosTipos'
    BY <1>1, <1>13 DEF CrearEstructura, OtrosTipos
  <2> QED BY <1>1, <1>13, <2>2, <2>3 DEF CrearEstructura, EfectoAjeno, Quieto, Lanzando
<1>14. CASE EncolarNuevo
  <2>1. nuevos' = [pc |-> "esperar", s |-> Nulo, ultimo |-> Nulo]
    BY <1>14 DEF EncolarNuevo
  <2>2. nuevos.s \in Guiones /\ nuevos.ultimo \in Guiones \cup {Nulo}
    BY <1>1, <1>14 DEF EncolarNuevo, LocalesNuevos
  <2>3. Encola
    BY <1>14, <2>1, <2>2 DEF EncolarNuevo, Enlazar, Encola
  <2>4. cuenta' \in Int /\ semaforoListo' \in Nat
    BY <1>1, <1>14 DEF EncolarNuevo, Enlazar, CuentaTrasEnlazar, OtrosTipos
  <2>5. OtrosTipos'
    BY <1>1, <1>14, <2>4 DEF EncolarNuevo, OtrosTipos
  <2>6. nuevos' \in LocalesNuevos
    BY <2>1 DEF LocalesNuevos
  <2> QED BY <1>1, <1>14, <2>3, <2>5, <2>6 DEF EncolarNuevo, EfectoAjeno
\* atenderListos.
<1>15. CASE EsperarListo
  <2>1. semaforoListo' \in Nat
    BY <1>1, <1>15 DEF EsperarListo, OtrosTipos
  <2>2. OtrosTipos'
    BY <1>1, <1>15, <2>1 DEF EsperarListo, OtrosTipos
  <2> QED BY <1>1, <1>15, <2>2 DEF EsperarListo, EfectoAjeno, Quieto, Lanzando
<1>16. CASE EsperarExec
  <2>1. OtrosTipos'
    BY <1>1, <1>16 DEF EsperarExec, OtrosTipos
  <2>2. semaforoExecLibre' \in Nat /\ semaforoExecLibre' = semaforoExecLibre - 1
    BY <1>1, <1>16 DEF EsperarExec
  <2> QED BY <1>1, <1>16, <2>1, <2>2 DEF EsperarExec, EfectoAjeno, Quieto, Lanzando
<1>17. ASSUME NEW e \in Ejecutores, Lanzar(e)
       PROVE  EfectoAjeno
  <2>1. cuenta' \in Int
    BY <1>1, <1>17 DEF Lanzar, OtrosTipos
  <2>2. OtrosTipos'
    BY <1>1, <1>17, <2>1 DEF Lanzar, OtrosTipos
  <2>3. Lanza(e)
    BY <1>17 DEF Lanzar, Lanza
  <2> QED BY <1>1, <1>17, <2>2, <2>3 DEF Lanzar, EfectoAjeno
<1> QED BY <1>8, <1>9, <1>10, <1>11, <1>12, <1>13, <1>14, <1>15, <1>16, <1>17
        DEF AtenderNuevos, AtenderListos

-----------------------------------------------------------------------------
(* The types are kept. *)

\* The locals of an executor that is free, and of one that starts.
LEMMA ElLibre ==
  /\ Libre \in LocalesEjecutor
  /\ Libre.pc = "libre" /\ Libre.s = Nulo /\ Libre.p = Nulo /\ Libre.quantum = 0
  /\ \A s \in Guiones : LET r == [Libre EXCEPT !.pc = "tomar", !.s = s, !.quantum = Quantum] IN
       /\ r \in LocalesEjecutor
       /\ r.pc = "tomar" /\ r.s = s /\ r.p = Nulo /\ r.quantum = Quantum
<1>1. Libre.pc = "libre" /\ Libre.s = Nulo /\ Libre.p = Nulo /\ Libre.quantum = 0
  BY DEF Libre
<1>2. Libre \in LocalesEjecutor
  BY QuantumValido DEF Libre, LocalesEjecutor, PasosEjecutor
<1>3. ASSUME NEW s \in Guiones
      PROVE  LET r == [Libre EXCEPT !.pc = "tomar", !.s = s, !.quantum = Quantum] IN
             /\ r \in LocalesEjecutor
             /\ r.pc = "tomar" /\ r.s = s /\ r.p = Nulo /\ r.quantum = Quantum
  <2> DEFINE S == Guiones \cup {Nulo}  P == Pedidos \cup {Nulo}  F == {"no", "llenando", "limpia"}
             TT == 0..Len(EnFS)  QQ == 0..Quantum
             L == [pc : PasosEjecutor, s : S, quantum : QQ, p : P, ultimo : S, vista : BOOLEAN,
                   sabida : BOOLEAN, refresco : F, faltan : TT]
  <2>1. LocalesEjecutor = L /\ s \in S
    BY DEF LocalesEjecutor
  <2>2. Quantum \in QQ
    BY QuantumValido
  <2>3. "tomar" \in PasosEjecutor
    BY DEF PasosEjecutor
  <2>4. Libre \in L
    BY <1>2, <2>1
  <2> HIDE DEF S, P, F, TT, QQ
  <2>5. [Libre EXCEPT !.pc = "tomar", !.s = s, !.quantum = Quantum] \in L
    BY <2>1, <2>2, <2>3, <2>4
  <2>6. LET r == [Libre EXCEPT !.pc = "tomar", !.s = s, !.quantum = Quantum] IN
        r.pc = "tomar" /\ r.s = s /\ r.p = Nulo /\ r.quantum = Quantum
    BY DEF Libre
  <2> HIDE DEF L
  <2> QED BY <2>1, <2>5, <2>6
<1> QED BY <1>1, <1>2, <1>3

\* An executor keeps Base.
LEMMA BaseEjecutar ==
  ASSUME Base, NEW e \in Ejecutores, Efecto(e)
  PROVE  Base'
<1>1. /\ guion \in [Guiones -> {Nulo} \cup Seq(Pedidos)] /\ <<>> \in Seq(Pedidos)
      /\ fin \in [Guiones -> {"no", "terminado", "destruido"}]
      /\ queue_nuevo \in Seq(Guiones) /\ semaforoNuevo \in Nat /\ queue_listo \in Seq(Guiones)
      /\ semaforoExecLibre \in Nat /\ ej \in [Ejecutores -> LocalesEjecutor]
      /\ nuevos \in [pc : {"esperar", "crear", "enlazar"}, s : Guiones \cup {Nulo},
                     ultimo : Guiones \cup {Nulo}]
      /\ listos \in {"esperarListo", "esperarExec", "lanzar"}
      /\ Nulo \notin Seq(Pedidos) /\ Nulo \notin Guiones
  BY NulosValidos DEF Base, TypeOK
<1>2. /\ \A x \in Ejecutores : Local(x)
      /\ \A s \in Guiones : Puesto(s) => guion[s] # Nulo
      /\ semaforoNuevo = Len(queue_nuevo)
      /\ nuevos.pc = "esperar" <=> nuevos.s = Nulo
  BY DEF Base
<1>3. ej[e].pc # "libre" => ej[e].s \in Guiones /\ guion[ej[e].s] \in Seq(Pedidos)
  <2>1. ej[e].s \in Guiones \cup {Nulo}
    BY <1>1 DEF LocalesEjecutor
  <2> QED BY <1>1, <1>2, <2>1 DEF Local, Puesto
<1>4. /\ ej' \in [Ejecutores -> LocalesEjecutor] /\ OtrosTipos'
      /\ \A x \in Ejecutores : x # e => Igual(x)
      /\ UNCHANGED <<queue_nuevo, semaforoNuevo, nuevos, listos>>
  BY DEF Efecto
<1>5. \A x \in Ejecutores : x # e => Local(x)'
  BY <1>2, <1>4 DEF Local, Igual
<1>6. ASSUME guion' \in [Guiones -> {Nulo} \cup Seq(Pedidos)],
             fin' \in [Guiones -> {"no", "terminado", "destruido"}],
             queue_listo' \in Seq(Guiones), semaforoExecLibre' \in Nat, Local(e)',
             \A s \in Guiones : guion[s] # Nulo => guion'[s] # Nulo,
             \A s \in Guiones : Contains(queue_listo', s) => Puesto(s),
             ej'[e].s \in {ej[e].s, Nulo}
      PROVE  Base'
  <2>1. TypeOK'
    BY <1>1, <1>4, <1>6 DEF TypeOK, OtrosTipos
  <2>2. \A s \in Guiones : Puesto(s)' => Puesto(s)
    <3>1. SUFFICES ASSUME NEW s \in Guiones, Puesto(s)' PROVE Puesto(s)
      OBVIOUS
    <3>2. CASE \E x \in Ejecutores : ej'[x].s = s
      <4>1. PICK x \in Ejecutores : ej'[x].s = s
        BY <3>2
      <4>2. ej[x].s = s
        BY <1>1, <1>4, <1>6, <4>1 DEF Igual
      <4> QED BY <4>2 DEF Puesto
    <3>3. CASE ~\E x \in Ejecutores : ej'[x].s = s
      BY <1>4, <1>6, <3>1, <3>3 DEF Puesto
    <3> QED BY <3>2, <3>3
  <2>3. \A x \in Ejecutores : Local(x)'
    BY <1>5, <1>6
  <2> QED BY <1>2, <1>4, <1>6, <2>1, <2>2, <2>3 DEF Base
<1>7. CASE Sigue(e)
  <2>1. \A s \in Guiones : Contains(queue_listo, s) => Puesto(s)
    BY DEF Puesto
  <2> QED BY <1>1, <1>6, <1>7, <2>1 DEF Sigue
<1>8. CASE Pide(e)
  <2>1. ej[e].s \in Guiones /\ guion[ej[e].s] \in Seq(Pedidos) /\ guion[ej[e].s] # <<>>
    BY <1>3, <1>8 DEF Pide
  <2>2. Tail(guion[ej[e].s]) \in Seq(Pedidos)
    BY <2>1
  <2>3. /\ guion' \in [Guiones -> {Nulo} \cup Seq(Pedidos)]
        /\ \A s \in Guiones : guion[s] # Nulo => guion'[s] # Nulo
    BY <1>1, <1>8, <2>1, <2>2 DEF Pide
  <2>4. Local(e)'
    <3>1. ej[e].s # Nulo
      BY <1>1, <2>1
    <3> QED BY <1>8, <3>1 DEF Pide, Local, ConPedido
  <2>5. \A s \in Guiones : Contains(queue_listo, s) => Puesto(s)
    BY DEF Puesto
  <2> QED BY <1>1, <1>6, <1>8, <2>3, <2>4, <2>5 DEF Pide
<1>9. CASE Deja(e)
  <2>1. ej[e].s \in Guiones
    BY <1>3, <1>9 DEF Deja
  <2>2. /\ guion' \in [Guiones -> {Nulo} \cup Seq(Pedidos)]
        /\ fin' \in [Guiones -> {"no", "terminado", "destruido"}]
        /\ \A s \in Guiones : guion[s] # Nulo => guion'[s] # Nulo
    BY <1>1, <1>9, <2>1 DEF Deja
  <2>3. Local(e)' /\ ej'[e].s = Nulo
    BY <1>9, ElLibre DEF Deja, Local, ConPedido
  <2>4. \A s \in Guiones : Contains(queue_listo, s) => Puesto(s)
    BY DEF Puesto
  <2>5. semaforoExecLibre' \in Nat
    BY <1>1, <1>9 DEF Deja
  <2> QED BY <1>1, <1>6, <1>9, <2>2, <2>3, <2>4, <2>5 DEF Deja
<1>10. CASE Devuelve(e)
  <2>1. ej[e].s \in Guiones /\ ej[e].ultimo \in Guiones \cup {Nulo}
    BY <1>1, <1>3, <1>10 DEF Devuelve, LocalesEjecutor
  <2>2. /\ queue_listo' \in Seq(Guiones)
        /\ \A s : Contains(queue_listo', s) => Contains(queue_listo, s) \/ s = ej[e].s
    BY <1>1, <1>10, <2>1, TrasEnlazar DEF Devuelve
  <2>3. Local(e)' /\ ej'[e].s = Nulo
    BY <1>10, ElLibre DEF Devuelve, Local, ConPedido
  <2>4. \A s \in Guiones : Contains(queue_listo', s) => Puesto(s)
    BY <2>2 DEF Puesto
  <2>5. semaforoExecLibre' \in Nat
    BY <1>1, <1>10 DEF Devuelve
  <2> QED BY <1>1, <1>6, <1>10, <2>2, <2>3, <2>4, <2>5 DEF Devuelve
<1> QED BY <1>7, <1>8, <1>9, <1>10 DEF Efecto

\* The other threads keep Base.
LEMMA BaseOtros ==
  ASSUME Base, EfectoAjeno
  PROVE  Base'
<1>1. /\ guion \in [Guiones -> {Nulo} \cup Seq(Pedidos)]
      /\ fin \in [Guiones -> {"no", "terminado", "destruido"}]
      /\ queue_nuevo \in Seq(Guiones) /\ semaforoNuevo \in Nat /\ queue_listo \in Seq(Guiones)
      /\ semaforoExecLibre \in Nat /\ ej \in [Ejecutores -> LocalesEjecutor]
      /\ Nulo \notin Seq(Pedidos) /\ Nulo \notin Guiones
  BY NulosValidos DEF Base, TypeOK
<1>2. /\ \A x \in Ejecutores : Local(x)
      /\ \A s \in Guiones : Puesto(s) => guion[s] # Nulo
      /\ semaforoNuevo = Len(queue_nuevo)
      /\ nuevos.pc = "esperar" <=> nuevos.s = Nulo
  BY DEF Base
<1>3. /\ nuevos' \in [pc : {"esperar", "crear", "enlazar"}, s : Guiones \cup {Nulo},
                     ultimo : Guiones \cup {Nulo}]
      /\ listos' \in {"esperarListo", "esperarExec", "lanzar"} /\ OtrosTipos'
  BY DEF EfectoAjeno, LocalesNuevos
<1>4. ASSUME guion' \in [Guiones -> {Nulo} \cup Seq(Pedidos)], fin' = fin,
             queue_nuevo' \in Seq(Guiones), semaforoNuevo' \in Nat, queue_listo' \in Seq(Guiones),
             semaforoExecLibre' \in Nat, ej' \in [Ejecutores -> LocalesEjecutor],
             \A x \in Ejecutores : Local(x)',
             \A s \in Guiones : Puesto(s)' => guion'[s] # Nulo,
             semaforoNuevo' = Len(queue_nuevo'), nuevos'.pc = "esperar" <=> nuevos'.s = Nulo
      PROVE  Base'
  <2>1. TypeOK'
    BY <1>1, <1>3, <1>4 DEF TypeOK, OtrosTipos
  <2> QED BY <1>4, <2>1 DEF Base
<1>5. CASE Quieto
  <2>1. \A x \in Ejecutores : Local(x)'
    BY <1>2, <1>5 DEF Quieto, Local
  <2>2. \A s \in Guiones : Puesto(s)' => guion'[s] # Nulo
    BY <1>2, <1>5 DEF Quieto, Puesto
  <2> QED BY <1>1, <1>2, <1>4, <1>5, <2>1, <2>2 DEF Quieto
<1>6. ASSUME NEW s \in Guiones, Ingresa(s)
      PROVE  Base'
  <2>1. Programa[s] \in Seq(Pedidos)
    BY ProgramaValido
  <2>2. /\ guion' \in [Guiones -> {Nulo} \cup Seq(Pedidos)] /\ guion'[s] # Nulo
        /\ \A z \in Guiones : guion[z] # Nulo => guion'[z] # Nulo
    BY <1>1, <1>6, <2>1 DEF Ingresa
  <2>3. /\ queue_nuevo' \in Seq(Guiones) /\ Len(queue_nuevo') = Len(queue_nuevo) + 1
        /\ \A z : Contains(queue_nuevo', z) => Contains(queue_nuevo, z) \/ z = s
    BY <1>1, <1>6, AlFinal DEF Ingresa
  <2>4. \A x \in Ejecutores : Local(x)'
    BY <1>2, <1>6 DEF Ingresa, Local
  <2>5. \A z \in Guiones : Puesto(z)' => guion'[z] # Nulo
    BY <1>2, <1>6, <2>2, <2>3 DEF Ingresa, Puesto
  <2>6. semaforoNuevo' \in Nat /\ semaforoNuevo' = Len(queue_nuevo')
    BY <1>1, <1>2, <1>6, <2>3 DEF Ingresa
  <2> QED BY <1>1, <1>2, <1>4, <1>6, <2>2, <2>3, <2>4, <2>5, <2>6 DEF Ingresa
<1>7. CASE Saca
  <2>1. /\ queue_nuevo' \in Seq(Guiones) /\ Len(queue_nuevo') = Len(queue_nuevo) - 1
        /\ Len(queue_nuevo) \in Nat \ {0}
        /\ \A z : Contains(queue_nuevo', z) => Contains(queue_nuevo, z)
        /\ Contains(queue_nuevo, nuevos'.s) /\ nuevos'.s \in Guiones
    BY <1>1, <1>7, SinElPrimero DEF Saca
  <2>2. \A x \in Ejecutores : Local(x)'
    BY <1>2, <1>7 DEF Saca, Local
  <2>3. \A z \in Guiones : Puesto(z)' => guion'[z] # Nulo
    BY <1>2, <1>7, <2>1 DEF Saca, Puesto
  <2>4. semaforoNuevo' \in Nat /\ semaforoNuevo' = Len(queue_nuevo')
    BY <1>1, <1>2, <1>7, <2>1 DEF Saca
  <2> QED BY <1>1, <1>2, <1>4, <1>7, <2>1, <2>2, <2>3, <2>4 DEF Saca
<1>8. CASE Encola
  <2>1. /\ queue_listo' \in Seq(Guiones)
        /\ \A z : Contains(queue_listo', z) => Contains(queue_listo, z) \/ z = nuevos.s
    BY <1>1, <1>8, TrasEnlazar DEF Encola
  <2>2. \A x \in Ejecutores : Local(x)'
    BY <1>2, <1>8 DEF Encola, Local
  <2>3. \A z \in Guiones : Puesto(z)' => guion'[z] # Nulo
    BY <1>1, <1>2, <1>8, <2>1 DEF Encola, Puesto
  <2> QED BY <1>1, <1>2, <1>4, <1>8, <2>1, <2>2, <2>3 DEF Encola
<1>9. ASSUME NEW e \in Ejecutores, Lanza(e)
      PROVE  Base'
  <2>1. /\ queue_listo' \in Seq(Guiones)
        /\ \A z : Contains(queue_listo', z) => Contains(queue_listo, z)
        /\ Contains(queue_listo, Head(queue_listo)) /\ Head(queue_listo) \in Guiones
    BY <1>1, <1>9, SinElPrimero DEF Lanza
  <2> DEFINE r == [Libre EXCEPT !.pc = "tomar", !.s = Head(queue_listo), !.quantum = Quantum]
  <2>2. /\ r \in LocalesEjecutor
        /\ r.pc = "tomar" /\ r.s = Head(queue_listo) /\ r.p = Nulo
    BY <2>1, ElLibre
  <2>3. ej' = [ej EXCEPT ![e] = r]
    BY <1>9 DEF Lanza
  <2> HIDE DEF r
  <2>4. /\ ej' \in [Ejecutores -> LocalesEjecutor] /\ ej'[e] = r
        /\ \A x \in Ejecutores : x # e => ej'[x] = ej[x]
    BY <1>1, <2>2, <2>3
  <2>5. ASSUME NEW x \in Ejecutores PROVE Local(x)'
    <3>1. CASE x = e
      BY <1>1, <2>1, <2>2, <2>4, <3>1 DEF Local, ConPedido
    <3>2. CASE x # e
      BY <1>2, <2>4, <3>2 DEF Local
    <3> QED BY <3>1, <3>2
  <2>6. ASSUME NEW z \in Guiones, Puesto(z)' PROVE Puesto(z)
    <3>1. CASE z = Head(queue_listo)
      BY <2>1, <3>1 DEF Puesto
    <3>2. CASE z # Head(queue_listo)
      BY <1>9, <2>1, <2>2, <2>4, <2>6, <3>2 DEF Lanza, Puesto
    <3> QED BY <3>1, <3>2
  <2>7. \A z \in Guiones : Puesto(z)' => guion'[z] # Nulo
    BY <1>2, <1>9, <2>6 DEF Lanza
  <2> QED BY <1>1, <1>2, <1>4, <1>9, <2>1, <2>4, <2>5, <2>7 DEF Lanza
<1> QED BY <1>5, <1>6, <1>7, <1>8, <1>9 DEF EfectoAjeno

\* Every step keeps Base.
LEMMA BasePaso == Base /\ [Next]_vars => Base'
<1> SUFFICES ASSUME Base, [Next]_vars PROVE Base'
  OBVIOUS
<1>1. CASE UNCHANGED vars
  BY <1>1 DEF vars, colaNuevos, colaListos, tablas, criterios, gossip, Base, TypeOK, Local, Puesto
<1>2. ASSUME NEW e \in Ejecutores, Ejecutar(e)
      PROVE  Base'
  BY <1>2, EfectoEjecutar, BaseEjecutar
<1>3. CASE Next /\ ~\E e \in Ejecutores : Ejecutar(e)
  BY <1>3, EfectoOtros, BaseOtros DEF Next
<1> QED BY <1>1, <1>2, <1>3

\* For any scripts, executors and quantum, every variable keeps its type.
THEOREM TiposPlanificador == Spec => []TypeOK
<1>1. Spec => []Base
  BY BaseInicial, BasePaso, PTL DEF Spec
<1>2. Base => TypeOK
  BY DEF Base
<1> QED BY <1>1, <1>2, PTL

-----------------------------------------------------------------------------
(* A script is in one place at most, and it has neither ended nor been     *)
(* given up while it is in one.                                            *)

Llevado(s) == \E e \in Ejecutores : ej[e].s = s

Solo(s) ==
  /\ Contains(queue_nuevo, s) => ~Contains(queue_listo, s) /\ nuevos.s # s /\ ~Llevado(s)
  /\ Contains(queue_listo, s) => nuevos.s # s /\ ~Llevado(s)
  /\ nuevos.s = s => ~Llevado(s)
  /\ \A e, f \in Ejecutores : ej[e].s = s /\ ej[f].s = s => e = f
  /\ Puesto(s) \/ guion[s] = Nulo => fin[s] = "no"

Unidad ==
  /\ SinRepetir(queue_nuevo) /\ SinRepetir(queue_listo)
  /\ \A s \in Guiones : Solo(s)
  /\ \A e \in Ejecutores : ej[e].pc = "enlazar" => guion[ej[e].s] # <<>>

\* Unidad holds of the initial states.
LEMMA UnidadInicial == Init => Unidad
  BY NulosValidos DEF Init, Unidad, Solo, Llevado, Puesto, SinRepetir, Contains, Libre

\* An executor keeps Unidad: the script that it lets go of was nowhere else.
LEMMA UnidadEjecutar ==
  ASSUME Base, Unidad, NEW e \in Ejecutores, Efecto(e)
  PROVE  Unidad'
<1>1. /\ guion \in [Guiones -> {Nulo} \cup Seq(Pedidos)] /\ <<>> \in Seq(Pedidos)
      /\ fin \in [Guiones -> {"no", "terminado", "destruido"}]
      /\ queue_listo \in Seq(Guiones) /\ ej[e].s \in Guiones \cup {Nulo}
      /\ ej[e].ultimo \in Guiones \cup {Nulo}
      /\ Nulo \notin Seq(Pedidos) /\ Nulo \notin Guiones
  BY NulosValidos DEF Base, TypeOK, LocalesEjecutor
<1>2. /\ \A x \in Ejecutores : Igual(x) \/ x = e
      /\ UNCHANGED <<queue_nuevo, nuevos>>
  BY DEF Efecto
<1>3. /\ SinRepetir(queue_nuevo) /\ SinRepetir(queue_listo)
      /\ \A s \in Guiones : Solo(s)
      /\ \A x \in Ejecutores : ej[x].pc = "enlazar" => guion[ej[x].s] # <<>>
      /\ \A x \in Ejecutores : ej[x].pc = "libre" <=> ej[x].s = Nulo
      /\ \A x \in Ejecutores : ej[x].s \in Guiones \cup {Nulo}
      /\ \A s \in Guiones : Puesto(s) => guion[s] # Nulo
  BY DEF Unidad, Base, Local, TypeOK, LocalesEjecutor
<1>4. Libre.s = Nulo /\ Libre.pc = "libre"
  BY ElLibre
\* The others keep theirs.
<1>5. ASSUME \A s \in Guiones : s # ej[e].s => guion'[s] = guion[s]
      PROVE  \A x \in Ejecutores : x # e /\ ej'[x].pc = "enlazar" => guion'[ej'[x].s] # <<>>
  <2>1. SUFFICES ASSUME NEW x \in Ejecutores, x # e, ej'[x].pc = "enlazar"
                 PROVE  guion'[ej'[x].s] # <<>>
    OBVIOUS
  <2>2. ej'[x].s = ej[x].s /\ ej[x].pc = "enlazar"
    BY <1>2, <2>1 DEF Igual
  <2>3. ej[x].s \in Guiones /\ ej[x].s # ej[e].s
    BY <1>1, <1>3, <2>1, <2>2 DEF Solo
  <2> QED BY <1>3, <1>5, <2>2, <2>3
<1>6. CASE Sigue(e) \/ Pide(e)
  <2>1. /\ ej'[e].s = ej[e].s /\ UNCHANGED <<fin, queue_listo>>
        /\ ej'[e].pc = "enlazar" => guion'[ej'[e].s] # <<>>
    BY <1>6 DEF Sigue, Pide, ConPedido
  <2>2. ej[e].s \in Guiones /\ guion[ej[e].s] \in Seq(Pedidos)
    <3>1. ej[e].pc # "libre"
      BY <1>6 DEF Sigue, Pide
    <3>2. ej[e].s \in Guiones
      BY <1>1, <1>3, <3>1
    <3> QED BY <1>1, <1>3, <3>2 DEF Puesto
  <2>3. /\ \A s \in Guiones : s # ej[e].s => guion'[s] = guion[s]
        /\ guion'[ej[e].s] # Nulo
    <3>1. CASE Sigue(e)
      BY <1>1, <2>2, <3>1 DEF Sigue
    <3>2. CASE Pide(e)
      <4>1. Tail(guion[ej[e].s]) \in Seq(Pedidos)
        BY <2>2, <3>2 DEF Pide
      <4> QED BY <1>1, <2>2, <3>2, <4>1 DEF Pide
    <3> QED BY <1>6, <3>1, <3>2
  <2>4. \A x \in Ejecutores : ej'[x].s = ej[x].s
    BY <1>2, <2>1 DEF Igual
  <2>5. \A s \in Guiones : (Puesto(s)' <=> Puesto(s)) /\ (Llevado(s)' <=> Llevado(s))
    BY <1>2, <2>1, <2>4 DEF Puesto, Llevado
  <2>6. ASSUME NEW s \in Guiones PROVE Solo(s)'
    BY <1>2, <1>3, <2>1, <2>2, <2>3, <2>4, <2>5 DEF Solo
  <2> QED BY <1>2, <1>3, <1>5, <2>1, <2>3, <2>6 DEF Unidad
<1>7. CASE Deja(e)
  <2>1. ej[e].s \in Guiones /\ ej'[e].s = Nulo /\ ej'[e].pc = "libre" /\ UNCHANGED queue_listo
    BY <1>1, <1>3, <1>4, <1>7 DEF Deja
  <2>2. /\ \A s \in Guiones : s # ej[e].s => guion'[s] = guion[s] /\ fin'[s] = fin[s]
        /\ guion'[ej[e].s] # Nulo
    BY <1>1, <1>7, <2>1 DEF Deja
  <2>3. \A x \in Ejecutores : x # e => ej'[x].s = ej[x].s
    BY <1>2 DEF Igual
  <2>4. ASSUME NEW s \in Guiones PROVE Solo(s)'
    <3>1. Solo(s)
      BY <1>3
    <3>2. CASE s = ej[e].s
      <4>1. ~Llevado(s)'
        BY <1>1, <2>1, <2>3, <3>1, <3>2 DEF Llevado, Solo
      <4>2. ~Contains(queue_nuevo, s) /\ ~Contains(queue_listo, s) /\ nuevos.s # s
        BY <3>1, <3>2 DEF Solo, Llevado
      <4>3. ~Puesto(s)'
        BY <1>2, <2>1, <4>1, <4>2 DEF Puesto, Llevado
      <4> QED BY <2>2, <3>2, <4>1, <4>3 DEF Solo, Llevado, Puesto
    <3>3. CASE s # ej[e].s
      <4>1. \A x \in Ejecutores : ej'[x].s = s <=> ej[x].s = s
        BY <1>1, <2>1, <2>3, <3>3
      <4>2. (Puesto(s)' <=> Puesto(s)) /\ (Llevado(s)' <=> Llevado(s))
        BY <1>2, <2>1, <4>1 DEF Puesto, Llevado
      <4> QED BY <1>2, <2>1, <2>2, <3>1, <3>3, <4>1, <4>2 DEF Solo
    <3> QED BY <3>2, <3>3
  <2> QED BY <1>2, <1>3, <1>5, <2>1, <2>2, <2>4 DEF Unidad
<1>8. CASE Devuelve(e)
  <2>1. /\ ej[e].s \in Guiones /\ ej'[e].s = Nulo /\ ej'[e].pc = "libre"
        /\ UNCHANGED <<guion, fin>>
    BY <1>1, <1>3, <1>4, <1>8 DEF Devuelve
  <2>2. ~Contains(queue_listo, ej[e].s)
    BY <1>3, <2>1 DEF Solo, Llevado
  <2>3. /\ \A s : Contains(queue_listo', s) => Contains(queue_listo, s) \/ s = ej[e].s
        /\ SinRepetir(queue_listo')
    BY <1>1, <1>3, <1>8, <2>1, <2>2, TrasEnlazar DEF Devuelve
  <2>4. \A x \in Ejecutores : x # e => ej'[x].s = ej[x].s
    BY <1>2 DEF Igual
  <2>5. ASSUME NEW s \in Guiones PROVE Solo(s)'
    <3>1. Solo(s)
      BY <1>3
    <3>2. CASE s = ej[e].s
      <4>1. ~Llevado(s)'
        BY <1>1, <2>1, <2>4, <3>1, <3>2 DEF Llevado, Solo
      <4>2. ~Contains(queue_nuevo, s) /\ nuevos.s # s /\ fin[s] = "no"
        BY <3>1, <3>2 DEF Solo, Llevado, Puesto
      <4> QED BY <1>2, <2>1, <4>1, <4>2 DEF Solo, Llevado, Puesto
    <3>3. CASE s # ej[e].s
      <4>1. \A x \in Ejecutores : ej'[x].s = s <=> ej[x].s = s
        BY <1>1, <2>1, <2>4, <3>3
      <4>2. (Puesto(s)' => Puesto(s)) /\ (Llevado(s)' <=> Llevado(s))
        BY <1>2, <2>3, <3>3, <4>1 DEF Puesto, Llevado
      <4>3. Contains(queue_listo', s) => Contains(queue_listo, s)
        BY <2>3, <3>3
      <4> QED BY <1>2, <2>1, <3>1, <4>1, <4>2, <4>3 DEF Solo
    <3> QED BY <3>2, <3>3
  <2>6. \A x \in Ejecutores : ej'[x].pc = "enlazar" => guion'[ej'[x].s] # <<>>
    BY <1>5, <2>1
  <2> QED BY <1>2, <1>3, <2>3, <2>5, <2>6 DEF Unidad
<1> QED BY <1>6, <1>7, <1>8 DEF Efecto

\* The other threads keep Unidad: what they move they take from where it was.
LEMMA UnidadOtros ==
  ASSUME Base, Unidad, EfectoAjeno
  PROVE  Unidad'
<1>1. /\ guion \in [Guiones -> {Nulo} \cup Seq(Pedidos)] /\ ej \in [Ejecutores -> LocalesEjecutor]
      /\ queue_nuevo \in Seq(Guiones) /\ queue_listo \in Seq(Guiones)
      /\ Nulo \notin Seq(Pedidos) /\ Nulo \notin Guiones
  BY NulosValidos DEF Base, TypeOK
<1>2. /\ SinRepetir(queue_nuevo) /\ SinRepetir(queue_listo)
      /\ \A s \in Guiones : Solo(s)
      /\ \A x \in Ejecutores : ej[x].pc = "enlazar" => guion[ej[x].s] # <<>>
      /\ \A x \in Ejecutores : ej[x].pc = "libre" <=> ej[x].s = Nulo
      /\ \A x \in Ejecutores : ej[x].s \in Guiones \cup {Nulo}
      /\ \A s \in Guiones : Puesto(s) => guion[s] # Nulo
  BY DEF Unidad, Base, Local, TypeOK, LocalesEjecutor
<1>3. CASE Quieto
  BY <1>2, <1>3 DEF Quieto, Unidad, Solo, Puesto, Llevado
<1>4. ASSUME NEW s \in Guiones, Ingresa(s)
      PROVE  Unidad'
  <2>1. Programa[s] \in Seq(Pedidos) /\ guion[s] = Nulo /\ ~Puesto(s) /\ fin[s] = "no"
    BY <1>2, <1>4, ProgramaValido DEF Ingresa, Solo
  <2>2. /\ guion'[s] = Programa[s] /\ guion'[s] # Nulo
        /\ \A z \in Guiones : z # s => guion'[z] = guion[z]
    BY <1>1, <1>4, <2>1 DEF Ingresa
  <2>3. ~Contains(queue_nuevo, s) /\ ~Contains(queue_listo, s) /\ nuevos.s # s /\ ~Llevado(s)
    BY <2>1 DEF Puesto, Llevado
  <2>4. /\ SinRepetir(queue_nuevo')
        /\ \A z : Contains(queue_nuevo', z) <=> Contains(queue_nuevo, z) \/ z = s
    BY <1>1, <1>2, <1>4, <2>3, AlFinal DEF Ingresa
  <2>5. UNCHANGED <<fin, queue_listo, nuevos, ej>>
    BY <1>4 DEF Ingresa
  <2>6. ASSUME NEW z \in Guiones PROVE Solo(z)'
    <3>1. CASE z = s
      BY <2>1, <2>2, <2>3, <2>5, <3>1 DEF Solo, Llevado
    <3>2. CASE z # s
      BY <1>2, <2>2, <2>4, <2>5, <3>2 DEF Solo, Llevado, Puesto
    <3> QED BY <3>1, <3>2
  <2>7. ASSUME NEW x \in Ejecutores, ej'[x].pc = "enlazar" PROVE guion'[ej'[x].s] # <<>>
    <3>1. ej[x].s \in Guiones /\ ej[x].s # s /\ guion[ej[x].s] # <<>>
      BY <1>2, <2>3, <2>5, <2>7 DEF Llevado
    <3> QED BY <2>2, <2>5, <3>1
  <2> QED BY <1>2, <2>4, <2>5, <2>6, <2>7 DEF Unidad
<1>5. CASE Saca
  <2>1. /\ \A z : Contains(queue_nuevo', z) => Contains(queue_nuevo, z)
        /\ Contains(queue_nuevo, nuevos'.s) /\ ~Contains(queue_nuevo', nuevos'.s)
        /\ SinRepetir(queue_nuevo')
    BY <1>1, <1>2, <1>5, SinElPrimero DEF Saca
  <2>2. nuevos.s = Nulo /\ UNCHANGED <<guion, fin, queue_listo, ej>>
    BY <1>5 DEF Saca
  <2>3. ASSUME NEW z \in Guiones PROVE Solo(z)'
    <3>1. Solo(z) /\ nuevos.s # z
      BY <1>1, <1>2, <2>2
    <3>2. Puesto(z)' => Puesto(z)
      BY <2>1, <2>2 DEF Puesto
    <3> QED BY <2>1, <2>2, <3>1, <3>2 DEF Solo, Llevado
  <2> QED BY <1>2, <2>1, <2>2, <2>3 DEF Unidad
<1>6. CASE Encola
  <2>1. nuevos.s \in Guiones /\ ~Contains(queue_listo, nuevos.s)
    BY <1>2, <1>6 DEF Encola, Solo
  <2>2. /\ \A z : Contains(queue_listo', z) => Contains(queue_listo, z) \/ z = nuevos.s
        /\ SinRepetir(queue_listo')
    BY <1>1, <1>2, <1>6, <2>1, TrasEnlazar DEF Encola
  <2>3. nuevos'.s = Nulo /\ UNCHANGED <<guion, fin, queue_nuevo, ej>>
    BY <1>6 DEF Encola
  <2>4. ASSUME NEW z \in Guiones PROVE Solo(z)'
    <3>1. Solo(z) /\ nuevos'.s # z
      BY <1>1, <1>2, <2>3
    <3>2. Puesto(z)' => Puesto(z)
      BY <1>1, <2>2, <2>3 DEF Puesto
    <3> QED BY <2>2, <2>3, <3>1, <3>2 DEF Solo, Llevado
  <2> QED BY <1>2, <2>2, <2>3, <2>4 DEF Unidad
<1>7. ASSUME NEW e \in Ejecutores, Lanza(e)
      PROVE  Unidad'
  <2> DEFINE s == Head(queue_listo)
             r == [Libre EXCEPT !.pc = "tomar", !.s = s, !.quantum = Quantum]
  <2>1. /\ \A z : Contains(queue_listo', z) => Contains(queue_listo, z)
        /\ Contains(queue_listo, s) /\ ~Contains(queue_listo', s) /\ s \in Guiones
        /\ SinRepetir(queue_listo')
    BY <1>1, <1>2, <1>7, SinElPrimero DEF Lanza
  <2>2. r.pc = "tomar" /\ r.s = s
    BY <2>1, ElLibre
  <2>3. ej' = [ej EXCEPT ![e] = r] /\ ej[e].s = Nulo
    BY <1>2, <1>7 DEF Lanza
  <2> HIDE DEF r, s
  <2>4. ej'[e] = r /\ \A x \in Ejecutores : x # e => ej'[x] = ej[x]
    BY <1>1, <2>3
  <2>5. UNCHANGED <<guion, fin, queue_nuevo, nuevos>>
    BY <1>7 DEF Lanza
  <2>6. ASSUME NEW z \in Guiones PROVE Solo(z)'
    <3>1. Solo(z)
      BY <1>2
    <3>2. CASE z = s
      <4>1. ~Contains(queue_nuevo, z) /\ nuevos.s # z /\ ~Llevado(z) /\ fin[z] = "no"
        BY <2>1, <3>1, <3>2 DEF Solo, Puesto
      <4>2. \A x \in Ejecutores : ej'[x].s = z => x = e
        BY <2>4, <4>1 DEF Llevado
      <4> QED BY <2>1, <2>5, <3>2, <4>1, <4>2 DEF Solo
    <3>3. CASE z # s
      <4>1. \A x \in Ejecutores : ej'[x].s = z <=> ej[x].s = z
        BY <1>1, <2>2, <2>3, <2>4, <3>3
      <4>2. (Puesto(z)' => Puesto(z)) /\ (Llevado(z)' <=> Llevado(z))
        BY <2>1, <2>5, <4>1 DEF Puesto, Llevado
      <4> QED BY <2>1, <2>5, <3>1, <4>1, <4>2 DEF Solo
    <3> QED BY <3>2, <3>3
  <2>7. \A x \in Ejecutores : ej'[x].pc = "enlazar" => guion'[ej'[x].s] # <<>>
    BY <1>2, <2>2, <2>4, <2>5
  <2> QED BY <1>2, <2>1, <2>5, <2>6, <2>7 DEF Unidad
<1> QED BY <1>3, <1>4, <1>5, <1>6, <1>7 DEF EfectoAjeno

-----------------------------------------------------------------------------
(* The executors. *)

\* The executors that run are finitely many.
LEMMA OcupadosFinitos ==
  IsFiniteSet(Ocupados) /\ Cardinality(Ocupados) \in Nat
<1>1. Ocupados \subseteq Ejecutores
  BY DEF Ocupados
<1> QED BY <1>1, EjecutoresFinitos, FS_Subset, FS_CardinalityType

\* All the executors are free at the start.
LEMMA JustosInicial == Init => EjecutoresJustos
<1> SUFFICES ASSUME Init PROVE EjecutoresJustos
  OBVIOUS
<1>1. Ocupados = {}
  BY DEF Init, Ocupados, Libre
<1>2. Cardinality(Ocupados) = 0 /\ Cardinality(Ejecutores) \in Nat
  BY <1>1, FS_EmptySet, EjecutoresFinitos, FS_CardinalityType
<1> DEFINE c == Cardinality(Ocupados)  n == Cardinality(Ejecutores)
<1>3. semaforoExecLibre = n /\ listos = "esperarListo" /\ c = 0 /\ n \in Nat
  BY <1>2 DEF Init
<1> HIDE DEF c, n
<1>4. semaforoExecLibre + c + (IF listos = "lanzar" THEN 1 ELSE 0) = n
  BY <1>3
<1> QED BY <1>4 DEF EjecutoresJustos, c, n

\* An executor is counted when it is freed, and not when it starts.
LEMMA JustosPaso ==
  ASSUME Base, EjecutoresJustos,
         EfectoAjeno \/ \E e \in Ejecutores : Efecto(e)
  PROVE  EjecutoresJustos'
<1> DEFINE c == Cardinality(Ocupados)  n == Cardinality(Ejecutores)
<1>1. /\ c \in Nat /\ n \in Nat /\ semaforoExecLibre \in Nat
      /\ semaforoExecLibre + c + Lanzando = n /\ Lanzando \in Nat
  BY OcupadosFinitos, EjecutoresFinitos, FS_CardinalityType
     DEF Base, TypeOK, EjecutoresJustos, Lanzando
<1>2. c' \in Nat
  <2>1. Ocupados' \subseteq Ejecutores
    BY DEF Ocupados
  <2> QED BY <2>1, EjecutoresFinitos, FS_Subset, FS_CardinalityType
<1>3. SUFFICES /\ semaforoExecLibre' \in Nat /\ Lanzando' \in Nat
               /\ semaforoExecLibre' + c' + Lanzando' = n
  BY DEF EjecutoresJustos, Lanzando
<1>4. Libre.pc = "libre"
  BY ElLibre
<1>5. IsFiniteSet(Ocupados)
  BY OcupadosFinitos
\* An executor that is freed.
<1>6. ASSUME NEW e \in Ejecutores, Efecto(e), Deja(e) \/ Devuelve(e)
      PROVE  /\ semaforoExecLibre' \in Nat /\ Lanzando' \in Nat
             /\ semaforoExecLibre' + c' + Lanzando' = n
  <2>1. /\ ej[e].pc # "libre" /\ ej'[e] = Libre /\ semaforoExecLibre' = semaforoExecLibre + 1
        /\ \A x \in Ejecutores : x # e => ej'[x].pc = ej[x].pc
        /\ listos' = listos
    BY <1>6 DEF Efecto, Deja, Devuelve, Igual
  <2>2. Ocupados' = Ocupados \ {e} /\ e \in Ocupados
    BY <1>4, <2>1 DEF Ocupados
  <2>3. c' = c - 1 /\ Lanzando' = Lanzando
    BY <1>5, <2>1, <2>2, FS_RemoveElement DEF Lanzando
  <2> HIDE DEF c, n
  <2> QED BY <1>1, <1>2, <2>1, <2>3
<1>7. ASSUME NEW e \in Ejecutores, Efecto(e), Sigue(e) \/ Pide(e)
      PROVE  /\ semaforoExecLibre' \in Nat /\ Lanzando' \in Nat
             /\ semaforoExecLibre' + c' + Lanzando' = n
  <2>1. /\ ej[e].pc # "libre" /\ ej'[e].pc # "libre" /\ semaforoExecLibre' = semaforoExecLibre
        /\ \A x \in Ejecutores : x # e => ej'[x].pc = ej[x].pc
        /\ listos' = listos
    BY <1>7 DEF Efecto, Sigue, Pide, Igual, ConPedido
  <2>2. Ocupados' = Ocupados
    BY <2>1 DEF Ocupados
  <2> QED BY <1>1, <2>1, <2>2 DEF Lanzando
<1>8. ASSUME NEW e \in Ejecutores, Lanza(e)
      PROVE  /\ semaforoExecLibre' \in Nat /\ Lanzando' \in Nat
             /\ semaforoExecLibre' + c' + Lanzando' = n
  <2>1. queue_listo \in Seq(Guiones) /\ ej \in [Ejecutores -> LocalesEjecutor]
    BY DEF Base, TypeOK
  <2>2. Head(queue_listo) \in Guiones
    BY <1>8, <2>1, SinElPrimero DEF Lanza
  <2> DEFINE r == [Libre EXCEPT !.pc = "tomar", !.s = Head(queue_listo), !.quantum = Quantum]
  <2>3. r.pc = "tomar"
    BY <2>2, ElLibre
  <2>4. ej' = [ej EXCEPT ![e] = r]
    BY <1>8 DEF Lanza
  <2> HIDE DEF r
  <2>5. ej'[e] = r /\ \A x \in Ejecutores : x # e => ej'[x] = ej[x]
    BY <2>1, <2>4
  <2>6. Ocupados' = Ocupados \cup {e} /\ e \notin Ocupados
    BY <1>8, <2>3, <2>5 DEF Ocupados, Lanza
  <2>7. c' = c + 1
    BY <1>5, <2>6, FS_AddElement
  <2>8. semaforoExecLibre' = semaforoExecLibre /\ Lanzando = 1 /\ Lanzando' = 0
    BY <1>8 DEF Lanza, Lanzando
  <2> HIDE DEF c, n
  <2> QED BY <1>1, <1>2, <2>7, <2>8
<1>9. CASE Quieto
  <2>1. c' = c
    BY <1>9 DEF Quieto, Ocupados
  <2>2. /\ semaforoExecLibre' \in Nat
        /\ semaforoExecLibre' + Lanzando' = semaforoExecLibre + Lanzando
    BY <1>9 DEF Quieto
  <2>3. Lanzando' \in Nat
    BY DEF Lanzando
  <2> HIDE DEF c, n
  <2>4. semaforoExecLibre' + c + Lanzando' = n
    <3>1. ASSUME NEW a \in Nat, NEW b \in Nat, NEW x \in Nat, NEW y \in Nat,
                 x + c + a = n, y + b = x + a
          PROVE  y + c + b = n
      BY <1>1, <3>1
    <3>2. PICK a \in Nat : a = Lanzando
      BY <1>1
    <3>3. PICK b \in Nat : b = Lanzando'
      BY <2>3
    <3>4. PICK x \in Nat : x = semaforoExecLibre
      BY <1>1
    <3>5. PICK y \in Nat : y = semaforoExecLibre'
      BY <2>2
    <3>6. x + c + a = n /\ y + b = x + a
      BY <1>1, <2>2, <3>2, <3>3, <3>4, <3>5
    <3>7. y + c + b = n
      BY <3>1, <3>6
    <3> QED BY <3>3, <3>5, <3>7
  <2> QED BY <2>1, <2>2, <2>3, <2>4
<1>10. CASE Saca \/ Encola \/ \E s \in Guiones : Ingresa(s)
  <2>1. UNCHANGED <<listos, ej, semaforoExecLibre>>
    BY <1>10 DEF Saca, Encola, Ingresa
  <2>2. c' = c /\ Lanzando' = Lanzando
    BY <2>1 DEF Ocupados, Lanzando
  <2> QED BY <1>1, <2>1, <2>2
<1> QED BY <1>6, <1>7, <1>8, <1>9, <1>10 DEF EfectoAjeno, Efecto

-----------------------------------------------------------------------------
Orden == Base /\ Unidad /\ EjecutoresJustos

\* Orden is inductive.
LEMMA OrdenPaso == Orden /\ [Next]_vars => Orden'
<1> SUFFICES ASSUME Orden, [Next]_vars PROVE Orden'
  OBVIOUS
<1>1. Base /\ Unidad /\ EjecutoresJustos
  BY DEF Orden
<1>2. Base'
  BY <1>1, BasePaso
<1>3. CASE UNCHANGED vars
  <2>1. Unidad'
    BY <1>1, <1>3 DEF vars, colaNuevos, colaListos, Unidad, Solo, Llevado, Puesto
  <2>2. EjecutoresJustos'
    BY <1>1, <1>3 DEF vars, EjecutoresJustos, Ocupados
  <2> QED BY <1>2, <2>1, <2>2 DEF Orden
<1>4. ASSUME NEW e \in Ejecutores, Ejecutar(e)
      PROVE  Orden'
  BY <1>1, <1>2, <1>4, EfectoEjecutar, UnidadEjecutar, JustosPaso DEF Orden
<1>5. CASE Next /\ ~\E e \in Ejecutores : Ejecutar(e)
  BY <1>1, <1>2, <1>5, EfectoOtros, UnidadOtros, JustosPaso DEF Orden, Next
<1> QED BY <1>3, <1>4, <1>5

\* Orden holds of every reachable state.
LEMMA SiempreOrden == Spec => []Orden
<1>1. Init => Orden
  BY BaseInicial, UnidadInicial, JustosInicial DEF Orden
<1> QED BY <1>1, OrdenPaso, PTL DEF Spec

\* For any scripts, executors and quantum, whatever meets on queue_listo,
\* semaforoExecLibre counts the executors that are not running: no way out of
\* ejecutar loses one, and no more than MULTIPROCESAMIENTO scripts ever run.
THEOREM NingunEjecutorSePierde == Spec => []EjecutoresJustos
<1>1. Orden => EjecutoresJustos
  BY DEF Orden
<1> QED BY <1>1, SiempreOrden, PTL

-----------------------------------------------------------------------------
(* The planner implements Turnos. *)

\* What Turnos sees of a script, by who holds it.
VistaDe(s) ==
  /\ Llevado(s) => Fase(s) = "corre"
  /\ ~Llevado(s) => Usados(s) = 0
  /\ ~Llevado(s) /\ guion[s] = Nulo => Fase(s) = "afuera"
  /\ ~Llevado(s) /\ guion[s] # Nulo /\ fin[s] # "no" => Fase(s) = "fin"
  /\ ~Llevado(s) /\ guion[s] # Nulo /\ fin[s] = "no" => Fase(s) = "espera"
  /\ \A e \in Ejecutores : ej[e].s = s => Usados(s) = Usos(e)

LEMMA Vista == Orden => \A s \in Guiones : VistaDe(s)
<1> SUFFICES ASSUME Orden, NEW s \in Guiones PROVE VistaDe(s)
  OBVIOUS
<1>1. /\ \A e \in Ejecutores : ej[e].pc = "libre" <=> ej[e].s = Nulo
      /\ Solo(s) /\ (Puesto(s) => guion[s] # Nulo) /\ s # Nulo
  BY NulosValidos DEF Orden, Base, Unidad, Local
<1>2. \A e \in Ejecutores : e \in Ocupados /\ ej[e].s = s <=> ej[e].s = s
  BY <1>1 DEF Ocupados
<1>3. Corre(s) <=> Llevado(s)
  BY <1>2 DEF Corre, Llevado, Ocupados
<1>4. Llevado(s) => guion[s] # Nulo /\ fin[s] = "no"
  BY <1>1 DEF Solo, Puesto, Llevado
<1>5. /\ Llevado(s) => Fase(s) = "corre"
      /\ ~Llevado(s) /\ guion[s] = Nulo => Fase(s) = "afuera"
      /\ ~Llevado(s) /\ guion[s] # Nulo /\ fin[s] # "no" => Fase(s) = "fin"
      /\ ~Llevado(s) /\ guion[s] # Nulo /\ fin[s] = "no" => Fase(s) = "espera"
  BY <1>3, <1>4 DEF Fase
<1>6. ~Llevado(s) => Usados(s) = 0
  BY <1>3 DEF Usados
<1>7. ASSUME NEW e \in Ejecutores, ej[e].s = s
      PROVE  Usados(s) = Usos(e)
  <2> DEFINE c == CHOOSE x \in Ocupados : ej[x].s = s
  <2>1. e \in Ocupados /\ \A x \in Ocupados : ej[x].s = s => x = e
    BY <1>1, <1>2, <1>7 DEF Solo, Ocupados
  <2>2. c = e
    BY <1>7, <2>1
  <2>3. Corre(s)
    BY <1>3, <1>7 DEF Llevado
  <2>4. Usados(s) = Quantum - ej[c].quantum + (IF ej[c].p = Nulo THEN 0 ELSE 1)
    BY <2>3 DEF Usados
  <2> HIDE DEF c
  <2> QED BY <2>2, <2>4 DEF Usos
<1> QED BY <1>5, <1>6, <1>7 DEF VistaDe

\* The same of the next state.
LEMMA VistaPrima == Orden' => (\A s \in Guiones : VistaDe(s))'
BY Vista, PTL

\* A script that a step does not touch.
LEMMA SinTocar ==
  ASSUME Orden, Orden', NEW s \in Guiones, guion'[s] = guion[s], fin'[s] = fin[s],
         \A e \in Ejecutores : ej'[e].s = s <=> ej[e].s = s,
         \A e \in Ejecutores : ej[e].s = s => Usos(e)' = Usos(e)
  PROVE  Fase(s)' = Fase(s) /\ Usados(s)' = Usados(s)
<1>1. Llevado(s)' <=> Llevado(s)
  BY DEF Llevado
<1>2. CASE Llevado(s)
  <2>1. PICK e \in Ejecutores : ej[e].s = s
    BY <1>2 DEF Llevado
  <2>2. Usados(s) = Usos(e) /\ Usados(s)' = Usos(e)'
    BY <2>1, Vista, VistaPrima DEF VistaDe
  <2>3. Fase(s) = "corre" /\ Fase(s)' = "corre"
    BY <1>1, <1>2, Vista, VistaPrima DEF VistaDe
  <2> QED BY <2>1, <2>2, <2>3
<1>3. CASE ~Llevado(s)
  <2>1. Usados(s) = 0 /\ Usados(s)' = 0
    BY <1>1, <1>3, Vista, VistaPrima DEF VistaDe
  <2>2. Fase(s)' = Fase(s)
    BY <1>1, <1>3, Vista, VistaPrima DEF VistaDe
  <2> QED BY <2>1, <2>2
<1> QED BY <1>2, <1>3

fases == [s \in Guiones |-> Fase(s)]
usos == [s \in Guiones |-> Usados(s)]

\* A step that touches one script.
LEMMA Imagen ==
  ASSUME NEW s \in Guiones,
         \A z \in Guiones : z # s => Fase(z)' = Fase(z) /\ Usados(z)' = Usados(z)
  PROVE  /\ fases' = [fases EXCEPT ![s] = Fase(s)'] /\ fases[s] = Fase(s)
         /\ usos' = [usos EXCEPT ![s] = Usados(s)'] /\ usos[s] = Usados(s)
         /\ Fase(s)' = Fase(s) => fases' = fases
         /\ Usados(s)' = Usados(s) => usos' = usos
  BY DEF fases, usos

\* A step of an executor is one of Turnos: Pedir, Terminar, Abandonar, Ceder,
\* or none.
LEMMA TurnoEjecutar ==
  ASSUME Orden, Orden', NEW e \in Ejecutores, Efecto(e)
  PROVE  [T!Next]_T!vars
<1>1. /\ guion \in [Guiones -> {Nulo} \cup Seq(Pedidos)] /\ <<>> \in Seq(Pedidos)
      /\ fin \in [Guiones -> {"no", "terminado", "destruido"}]
      /\ ej[e].quantum \in 0..Quantum /\ Quantum \in Nat \ {0}
      /\ Nulo \notin Seq(Pedidos) /\ Nulo \notin Guiones
  <2>1. ej[e] \in LocalesEjecutor
    BY DEF Orden, Base, TypeOK
  <2>2. ej[e].quantum \in 0..Quantum
    BY <2>1 DEF LocalesEjecutor
  <2>3. /\ guion \in [Guiones -> {Nulo} \cup Seq(Pedidos)]
        /\ fin \in [Guiones -> {"no", "terminado", "destruido"}]
    BY DEF Orden, Base, TypeOK
  <2> QED BY <2>2, <2>3, NulosValidos, QuantumValido
<1>2. Local(e) /\ Libre.s = Nulo
  BY ElLibre DEF Orden, Base
<1>3. PICK s \in Guiones : s = ej[e].s /\ guion[s] \in Seq(Pedidos)
  <2>1. ej[e].pc # "libre"
    BY DEF Efecto, Sigue, Pide, Deja, Devuelve
  <2>2. ej[e].s \in Guiones \cup {Nulo}
    BY DEF Orden, Base, TypeOK, LocalesEjecutor
  <2>3. ej[e].s \in Guiones
    BY <1>2, <2>1, <2>2 DEF Local
  <2>4. guion[ej[e].s] # Nulo
    BY <2>3 DEF Orden, Base, Puesto
  <2> QED BY <1>1, <2>3, <2>4
<1>4. /\ Llevado(s) /\ Fase(s) = "corre" /\ Usados(s) = Usos(e) /\ fin[s] = "no"
      /\ \A x \in Ejecutores : x # e => ej[x].s # s /\ ej'[x].s = ej[x].s
      /\ \A x \in Ejecutores : x # e => Usos(x)' = Usos(x)
  <2>1. Llevado(s) /\ Solo(s)
    BY <1>3 DEF Llevado, Orden, Unidad
  <2>2. Fase(s) = "corre" /\ Usados(s) = Usos(e)
    BY <1>3, <2>1, Vista DEF VistaDe
  <2>3. \A x \in Ejecutores : x # e => ej[x].s # s
    BY <1>3, <2>1 DEF Solo
  <2>4. \A x \in Ejecutores : x # e => ej'[x].s = ej[x].s /\ Usos(x)' = Usos(x)
    BY DEF Efecto, Igual, Usos
  <2>5. fin[s] = "no"
    BY <1>3, <2>1 DEF Solo, Puesto, Llevado
  <2> QED BY <2>1, <2>2, <2>3, <2>4, <2>5
\* The scripts that the executor does not hold.
<1>5. ASSUME ej'[e].s \in {s, Nulo}, NEW z \in Guiones, z # s,
             guion'[z] = guion[z], fin'[z] = fin[z]
      PROVE  Fase(z)' = Fase(z) /\ Usados(z)' = Usados(z)
  <2>1. \A x \in Ejecutores : ej'[x].s = z <=> ej[x].s = z
    BY <1>1, <1>3, <1>4, <1>5
  <2>2. \A x \in Ejecutores : ej[x].s = z => Usos(x)' = Usos(x)
    BY <1>3, <1>4, <1>5
  <2> QED BY <1>5, <2>1, <2>2, SinTocar
<1>6. CASE Sigue(e)
  <2>1. /\ ej'[e].s = s /\ Usos(e)' = Usos(e) /\ UNCHANGED <<guion, fin>>
    BY <1>3, <1>6 DEF Sigue
  <2>2. \A z \in Guiones : z # s => Fase(z)' = Fase(z) /\ Usados(z)' = Usados(z)
    BY <1>5, <2>1
  <2>3. Fase(s)' = Fase(s) /\ Usados(s)' = Usados(s)
    <3>1. \A x \in Ejecutores : ej'[x].s = s <=> ej[x].s = s
      BY <1>3, <1>4, <2>1
    <3>2. \A x \in Ejecutores : Usos(x)' = Usos(x)
      BY <1>3, <1>4, <2>1
    <3> QED BY <1>3, <2>1, <3>1, <3>2, SinTocar
  <2>4. fases' = fases /\ usos' = usos /\ guion' = guion
    BY <1>3, <2>1, <2>2, <2>3, Imagen
  <2> QED BY <2>4 DEF T!vars, fases, usos
<1>7. CASE Pide(e)
  <2>1. /\ guion[s] # <<>> /\ guion' = [guion EXCEPT ![s] = Tail(@)] /\ fin' = fin
        /\ ej'[e].s = s /\ ej'[e].quantum = ej[e].quantum /\ ej[e].quantum > 0
        /\ ej'[e].p # Nulo /\ ej[e].p = Nulo
    BY <1>2, <1>3, <1>7 DEF Pide, Local, ConPedido
  <2>2. \A z \in Guiones : z # s => Fase(z)' = Fase(z) /\ Usados(z)' = Usados(z)
    BY <1>1, <1>5, <2>1
  <2>3. Fase(s)' = "corre" /\ Usados(s)' = Usos(e)'
    <3>1. Llevado(s)'
      BY <2>1 DEF Llevado
    <3> QED BY <1>3, <2>1, <3>1, VistaPrima DEF VistaDe
  <2>4. Usos(e)' = Usos(e) + 1 /\ Usos(e) < Quantum
    BY <1>1, <2>1 DEF Usos
  <2>5. /\ fases[s] = "corre" /\ fases' = fases
        /\ usos[s] < Quantum /\ usos' = [usos EXCEPT ![s] = usos[s] + 1]
    BY <1>3, <1>4, <2>2, <2>3, <2>4, Imagen
  <2>6. T!Pedir(s)
    BY <2>1, <2>5 DEF T!Pedir, fases, usos
  <2> QED BY <1>3, <2>6 DEF T!Next
<1>8. CASE Deja(e) \/ Devuelve(e)
  <2>1. /\ ej'[e].s = Nulo
        /\ \A z \in Guiones : z # s => guion'[z] = guion[z] /\ fin'[z] = fin[z]
    BY <1>1, <1>2, <1>3, <1>8 DEF Deja, Devuelve
  <2>2. \A z \in Guiones : z # s => Fase(z)' = Fase(z) /\ Usados(z)' = Usados(z)
    BY <1>5, <2>1
  <2>3. ~Llevado(s)'
    BY <1>1, <1>3, <1>4, <2>1 DEF Llevado
  <2>4. Usados(s)' = 0
    BY <1>3, <2>3, VistaPrima DEF VistaDe
  <2>5. /\ fases[s] = "corre" /\ fases' = [fases EXCEPT ![s] = Fase(s)']
        /\ usos[s] = Usos(e) /\ usos' = [usos EXCEPT ![s] = 0]
    BY <1>3, <1>4, <2>2, <2>4, Imagen
  <2>6. CASE Deja(e)
    <3>1. /\ guion' = [guion EXCEPT ![s] = <<>>] /\ fin'[s] # "no"
          /\ guion[s] = <<>> \/ ej[e].p # Nulo
      BY <1>1, <1>3, <2>6 DEF Deja
    <3>2. guion'[s] # Nulo
      BY <1>1, <1>3, <3>1
    <3>3. Fase(s)' = "fin"
      BY <1>3, <2>3, <3>1, <3>2, VistaPrima DEF VistaDe
    <3>4. CASE guion[s] = <<>>
      <4>1. guion' = guion
        BY <1>1, <1>3, <3>1, <3>4
      <4>2. T!Terminar(s)
        BY <2>5, <3>3, <3>4, <4>1 DEF T!Terminar, fases, usos
      <4> QED BY <1>3, <4>2 DEF T!Next
    <3>5. CASE ej[e].p # Nulo
      <4>1. Usos(e) > 0
        BY <1>1, <3>5 DEF Usos
      <4>2. T!Abandonar(s)
        BY <2>5, <3>1, <3>3, <4>1 DEF T!Abandonar, fases, usos
      <4> QED BY <1>3, <4>2 DEF T!Next
    <3> QED BY <3>1, <3>4, <3>5
  <2>7. CASE Devuelve(e)
    <3>1. /\ UNCHANGED <<guion, fin>> /\ ej[e].pc = "enlazar"
      BY <2>7 DEF Devuelve
    <3>2. guion[s] # <<>> /\ guion[s] # Nulo /\ guion'[s] # Nulo /\ fin'[s] = "no"
      BY <1>1, <1>3, <1>4, <3>1 DEF Orden, Unidad
    <3>3. Fase(s)' = "espera"
      BY <1>3, <2>3, <3>2, VistaPrima DEF VistaDe
    <3>4. ej[e].quantum = 0 /\ ej[e].p = Nulo
      BY <1>2, <3>1 DEF Local, ConPedido
    <3>5. Usos(e) = Quantum
      BY <1>1, <3>4 DEF Usos
    <3>6. T!Ceder(s)
      BY <2>5, <3>1, <3>2, <3>3, <3>5 DEF T!Ceder, fases, usos
    <3> QED BY <1>3, <3>6 DEF T!Next
  <2> QED BY <1>8, <2>6, <2>7
<1> QED BY <1>6, <1>7, <1>8 DEF Efecto

\* The script that an executor is given finds a place among those that run.
LEMMA HayLugar ==
  ASSUME Orden, NEW e \in Ejecutores, ej[e].pc = "libre"
  PROVE  Cardinality(T!Corren) < Cardinality(Ejecutores)
<1> DEFINE C == {s \in Guiones : Llevado(s)}  O == Ejecutores \ {e}
           f == [s \in C |-> CHOOSE x \in Ejecutores : ej[x].s = s]
<1>1. T!Corren = C
  <2>1. \A s \in Guiones : Fase(s) = "corre" <=> Llevado(s)
    BY Vista DEF VistaDe
  <2> QED BY <2>1 DEF T!Corren
<1>2. \A s \in C : f[s] \in O /\ ej[f[s]].s = s
  <2>1. ej[e].s = Nulo /\ Nulo \notin Guiones
    BY NulosValidos DEF Orden, Base, Local
  <2> QED BY <2>1 DEF Llevado
<1>3. IsFiniteSet(O) /\ Cardinality(O) = Cardinality(Ejecutores) - 1
  BY EjecutoresFinitos, FS_RemoveElement
<1> HIDE DEF f, C, O
<1>4. f \in [C -> O]
  <2>1. f = [s \in C |-> f[s]]
    BY DEF f
  <2> QED BY <1>2, <2>1
<1>5. f \in Injection(C, O)
  BY <1>2, <1>4 DEF Injection, IsInjective
<1>6. IsFiniteSet(C) /\ Cardinality(C) <= Cardinality(O)
  BY <1>3, <1>5, FS_Injection
<1> DEFINE c == Cardinality(C)  o == Cardinality(O)  n == Cardinality(Ejecutores)
<1>7. c \in Nat /\ o \in Nat /\ n \in Nat /\ c <= o /\ o = n - 1
  BY <1>3, <1>6, EjecutoresFinitos, FS_CardinalityType
<1> HIDE DEF c, o, n
<1>8. c < n
  BY <1>7
<1> QED BY <1>1, <1>8 DEF c, n

\* A step of the others is Llegar, Empezar or none.
LEMMA TurnoOtros ==
  ASSUME Orden, Orden', EfectoAjeno
  PROVE  [T!Next]_T!vars
<1>1. /\ guion \in [Guiones -> {Nulo} \cup Seq(Pedidos)] /\ ej \in [Ejecutores -> LocalesEjecutor]
      /\ queue_listo \in Seq(Guiones) /\ Nulo \notin Seq(Pedidos) /\ Nulo \notin Guiones
  BY NulosValidos DEF Orden, Base, TypeOK
<1>2. CASE Quieto \/ Saca \/ Encola
  <2>1. UNCHANGED <<guion, fin, ej>>
    BY <1>2 DEF Quieto, Saca, Encola
  <2>2. \A z \in Guiones : Fase(z)' = Fase(z) /\ Usados(z)' = Usados(z)
    BY <2>1, SinTocar DEF Usos
  <2>3. fases' = fases /\ usos' = usos
    BY <2>2 DEF fases, usos
  <2> QED BY <2>1, <2>3 DEF T!vars, fases, usos
<1>3. ASSUME NEW s \in Guiones, Ingresa(s)
      PROVE  [T!Next]_T!vars
  <2>1. /\ guion[s] = Nulo /\ guion' = [guion EXCEPT ![s] = Programa[s]]
        /\ UNCHANGED <<fin, ej>>
    BY <1>3 DEF Ingresa
  <2>2. ~Puesto(s) /\ fin[s] = "no"
    BY <2>1 DEF Orden, Base, Unidad, Solo
  <2>3. ~Llevado(s) /\ ~Llevado(s)'
    BY <2>1, <2>2 DEF Puesto, Llevado
  <2>4. guion'[s] # Nulo
    BY <1>1, <2>1, ProgramaValido
  <2>5. Fase(s) = "afuera" /\ Usados(s) = 0
    BY <2>1, <2>3, Vista DEF VistaDe
  <2>6. Fase(s)' = "espera" /\ Usados(s)' = 0
    BY <2>1, <2>2, <2>3, <2>4, VistaPrima DEF VistaDe
  <2>7. \A z \in Guiones : z # s => Fase(z)' = Fase(z) /\ Usados(z)' = Usados(z)
    <3>1. \A z \in Guiones : z # s => guion'[z] = guion[z]
      BY <1>1, <2>1
    <3> QED BY <2>1, <3>1, SinTocar DEF Usos
  <2>8. fases[s] = "afuera" /\ fases' = [fases EXCEPT ![s] = "espera"] /\ usos' = usos
    BY <2>5, <2>6, <2>7, Imagen
  <2>9. T!Llegar(s)
    BY <2>1, <2>8 DEF T!Llegar, fases, usos
  <2> QED BY <2>9 DEF T!Next
<1>4. ASSUME NEW e \in Ejecutores, Lanza(e)
      PROVE  [T!Next]_T!vars
  <2>1. PICK s \in Guiones : s = Head(queue_listo) /\ Contains(queue_listo, s)
    BY <1>1, <1>4, SinElPrimero DEF Lanza
  <2> DEFINE r == [Libre EXCEPT !.pc = "tomar", !.s = s, !.quantum = Quantum]
  <2>2. r.s = s /\ r.p = Nulo /\ r.quantum = Quantum
    BY ElLibre
  <2>3. ej' = [ej EXCEPT ![e] = r] /\ ej[e].pc = "libre" /\ UNCHANGED <<guion, fin>>
    BY <1>4, <2>1 DEF Lanza
  <2> HIDE DEF r
  <2>4. ej'[e] = r /\ \A x \in Ejecutores : x # e => ej'[x] = ej[x]
    BY <1>1, <2>3
  <2>5. guion[s] # Nulo /\ fin[s] = "no" /\ ~Llevado(s)
    BY <2>1 DEF Orden, Base, Unidad, Solo, Puesto
  <2>6. Fase(s) = "espera" /\ Usados(s) = 0
    BY <2>5, Vista DEF VistaDe
  <2>7. Llevado(s)' /\ ej'[e].s = s
    BY <2>2, <2>4 DEF Llevado
  <2>8. Usos(e)' = 0
    BY <2>2, <2>4, QuantumValido DEF Usos
  <2>9. Fase(s)' = "corre" /\ Usados(s)' = 0
    BY <2>7, <2>8, VistaPrima DEF VistaDe
  <2>10. ASSUME NEW z \in Guiones, z # s
         PROVE  Fase(z)' = Fase(z) /\ Usados(z)' = Usados(z)
    <3>1. ej[e].s # z
      BY <1>1, <2>3 DEF Orden, Base, Local
    <3>2. \A x \in Ejecutores : ej'[x].s = z <=> ej[x].s = z
      BY <2>2, <2>4, <2>10, <3>1
    <3>3. \A x \in Ejecutores : ej[x].s = z => Usos(x)' = Usos(x)
      BY <2>4, <3>1 DEF Usos
    <3> QED BY <2>3, <3>2, <3>3, SinTocar
  <2>11. fases[s] = "espera" /\ fases' = [fases EXCEPT ![s] = "corre"] /\ usos' = usos
    BY <2>6, <2>9, <2>10, Imagen
  <2>12. Cardinality(T!Corren) < Cardinality(Ejecutores)
    BY <2>3, HayLugar
  <2>13. T!Empezar(s)
    <3>1. fases[s] = "espera" /\ fases' = [fases EXCEPT ![s] = "corre"]
          /\ UNCHANGED <<guion, usos>>
      BY <2>3, <2>11
    <3>2. T!Cardinality(T!Corren) = Cardinality(T!Corren)
      BY DEF T!Cardinality, Cardinality
    <3> QED BY <2>12, <3>1, <3>2 DEF T!Empezar, fases, usos
  <2> QED BY <2>13 DEF T!Next
<1> QED BY <1>2, <1>3, <1>4 DEF EfectoAjeno

\* Every step is a step of Turnos or none.
LEMMA TurnoPaso == Orden /\ Orden' /\ [Next]_vars => [T!Next]_T!vars
<1> SUFFICES ASSUME Orden, Orden', [Next]_vars PROVE [T!Next]_T!vars
  OBVIOUS
<1>1. CASE UNCHANGED vars
  <2>1. UNCHANGED <<guion, fin, ej>>
    BY <1>1 DEF vars
  <2>2. \A z \in Guiones : Fase(z)' = Fase(z) /\ Usados(z)' = Usados(z)
    BY <2>1, SinTocar DEF Usos
  <2>3. fases' = fases /\ usos' = usos
    BY <2>2 DEF fases, usos
  <2> QED BY <2>1, <2>3 DEF T!vars, fases, usos
<1>2. ASSUME NEW e \in Ejecutores, Ejecutar(e)
      PROVE  [T!Next]_T!vars
  BY <1>2, EfectoEjecutar, TurnoEjecutar DEF Orden
<1>3. CASE Next /\ ~\E e \in Ejecutores : Ejecutar(e)
  BY <1>3, EfectoOtros, TurnoOtros DEF Next, Orden
<1> QED BY <1>1, <1>2, <1>3

\* The initial states are initial states of Turnos.
LEMMA TurnoInicial == Init => T!Init
<1> SUFFICES ASSUME Init PROVE T!Init
  OBVIOUS
<1>1. \A s \in Guiones : guion[s] = Nulo /\ ~Llevado(s)
  BY NulosValidos DEF Init, Llevado, Libre
<1>2. Orden
  BY BaseInicial, UnidadInicial, JustosInicial DEF Orden
<1>3. \A s \in Guiones : Fase(s) = "afuera" /\ Usados(s) = 0
  BY <1>1, <1>2, Vista DEF VistaDe
<1>4. guion = [s \in Guiones |-> Nulo]
  BY DEF Init
<1> QED BY <1>3, <1>4 DEF T!Init

\* For any scripts, executors and quantum, the planner implements Turnos: a
\* script runs in one executor at a time, its requests are taken in order and
\* none twice, no more than a quantum of them in a turn, and it goes back only
\* with its quantum over and something left, even when two operations meet on
\* queue_listo and lose scripts that were waiting.
THEOREM ImplementaTurnos == Spec => TomanTurnos
<1>1. Init => T!Init
  BY TurnoInicial
<1>2. Orden /\ Orden' /\ [Next]_vars => [T!Next]_T!vars
  BY TurnoPaso
<1> QED BY <1>1, <1>2, SiempreOrden, PTL DEF Spec, TomanTurnos, T!Spec

-----------------------------------------------------------------------------
(* queue_listo, until two operations on it meet. *)

EnMano == IF listos = "esperarListo" THEN 0 ELSE 1

\* The count and semaforoListo are right, one push at most is half way, and it
\* has the last node.
Cola ==
  cruces = {} =>
    /\ Len(queue_listo) = semaforoListo + EnMano /\ cuenta = Len(queue_listo)
    /\ \A x, y \in Enlazando : x = y
    /\ nuevos.pc = "enlazar" => nuevos.ultimo = UltimoNodo
    /\ \A e \in Ejecutores : ej[e].pc = "enlazar" => ej[e].ultimo = UltimoNodo
    /\ caida \notin {"sacarDeVacia", "cuentaDeMas"}

\* An operation on the queue starts only when no push is half way.
LEMMA NadieAMedias ==
  ASSUME NEW quien, Cruzar(quien), cruces' = {}
  PROVE  cruces = {} /\ Enlazando \subseteq {quien}
<1>1. \A x \in Enlazando \ {quien} : {x, quien} \in cruces'
  BY DEF Cruzar
<1> QED BY <1>1 DEF Cruzar

\* A push that nothing has met puts the script after the last node.
LEMMA EnlazarAlFinal ==
  ASSUME Base, Unidad, cuenta = Len(queue_listo), NEW s \in Guiones
  PROVE  ColaTrasEnlazar(UltimoNodo, s) = Append(queue_listo, s)
<1>1. /\ queue_listo \in Seq(Guiones) /\ SinRepetir(queue_listo) /\ Nulo \notin Guiones
      /\ Len(queue_listo) \in Nat /\ DOMAIN queue_listo = 1..Len(queue_listo)
  BY NulosValidos DEF Base, TypeOK, Unidad
<1>2. CASE cuenta = 0
  <2>1. queue_listo = <<>> /\ UltimoNodo = Nulo
    BY <1>1, <1>2 DEF UltimoNodo
  <2>2. Append(<<>>, s) = <<s>>
    OBVIOUS
  <2> QED BY <2>1, <2>2 DEF ColaTrasEnlazar
<1>3. CASE cuenta # 0
  <2> DEFINE n == Len(queue_listo)  u == queue_listo[n]
  <2>1. n \in 1..Len(queue_listo) /\ u \in Guiones /\ UltimoNodo = u
    BY <1>1, <1>3 DEF UltimoNodo
  <2>2. (CHOOSE i \in DOMAIN queue_listo : queue_listo[i] = u) = n
    BY <1>1, <2>1 DEF SinRepetir
  <2>3. SubSeq(queue_listo, 1, n) = queue_listo
    BY <1>1, SubSeqFull
  <2>4. Contains(queue_listo, u)
    BY <1>1, <2>1 DEF Contains
  <2> HIDE DEF n, u
  <2>5. Hasta(u) = queue_listo
    BY <2>2, <2>3 DEF Hasta
  <2> QED BY <1>1, <2>1, <2>4, <2>5 DEF ColaTrasEnlazar
<1> QED BY <1>2, <1>3

\* A step starts no push and ends none, ..
SinCola ==
  /\ UNCHANGED <<queue_listo, cuenta, cruces>>
  /\ semaforoListo' + EnMano' = semaforoListo + EnMano
  /\ nuevos'.pc = "enlazar" => nuevos.pc = "enlazar" /\ nuevos'.ultimo = nuevos.ultimo
  /\ \A e \in Ejecutores :
       ej'[e].pc = "enlazar" => ej[e].pc = "enlazar" /\ ej'[e].ultimo = ej[e].ultimo

\* .. starts one, ..
Busca(quien) ==
  /\ Cruzar(quien)
  /\ UNCHANGED <<queue_listo, cuenta, semaforoListo, listos>>
  /\ Enlazando' \subseteq Enlazando \cup {quien}
  /\ \A e \in Ejecutores : ej'[e].pc = "enlazar" => ej'[e].ultimo = IF e = quien THEN UltimoNodo ELSE ej[e].ultimo
  /\ nuevos'.pc = "enlazar" => nuevos'.ultimo = IF quien = "nuevos" THEN UltimoNodo ELSE nuevos.ultimo

\* .. ends one, ..
Termina(quien, ultimo, s) ==
  /\ quien \in Enlazando /\ s \in Guiones
  /\ cruces = {} => ultimo = UltimoNodo
  /\ Enlazar(quien, ultimo, s)
  /\ Enlazando' \subseteq Enlazando \ {quien}
  /\ UNCHANGED <<listos, cruces>>

\* .. or pops.
Quita ==
  /\ listos = "lanzar" /\ listos' = "esperarListo" /\ queue_listo # <<>>
  /\ queue_listo' = Tail(queue_listo) /\ cuenta' = cuenta - 1 /\ UNCHANGED semaforoListo
  /\ Cruzar("listos")
  /\ Enlazando' = Enlazando

EnCola ==
  \/ SinCola
  \/ \E quien \in Ejecutores \cup {"nuevos"} : Busca(quien) \/ \E u \in Guiones \cup {Nulo}, s \in Guiones : Termina(quien, u, s)
  \/ Quita

\* These keep Cola.
LEMMA ColaSigue ==
  ASSUME Base, Base', Unidad, Cola, EnCola, caida = "no", caida' = "no"
  PROVE  Cola'
<1> SUFFICES ASSUME cruces' = {} PROVE Cola'
  BY DEF Cola
<1>1. /\ queue_listo \in Seq(Guiones) /\ Len(queue_listo) \in Nat /\ semaforoListo \in Nat
      /\ "listos" \notin Ejecutores /\ "nuevos" \notin Ejecutores
      /\ Enlazando \subseteq Ejecutores \cup {"nuevos"} /\ EnMano \in Int
  BY NulosValidos DEF Base, TypeOK, Enlazando, EnMano
<1>2. cruces = {}
  BY NadieAMedias DEF EnCola, SinCola, Busca, Termina, Quita
<1>3. /\ Len(queue_listo) = semaforoListo + EnMano /\ cuenta = Len(queue_listo)
      /\ \A x, y \in Enlazando : x = y
      /\ nuevos.pc = "enlazar" => nuevos.ultimo = UltimoNodo
      /\ \A e \in Ejecutores : ej[e].pc = "enlazar" => ej[e].ultimo = UltimoNodo
  BY <1>2 DEF Cola
<1>4. CASE SinCola
  <2>1. Enlazando' \subseteq Enlazando /\ UltimoNodo' = UltimoNodo
    BY <1>4 DEF SinCola, Enlazando, UltimoNodo
  <2>2. Len(queue_listo') = semaforoListo' + EnMano' /\ cuenta' = Len(queue_listo')
    BY <1>3, <1>4 DEF SinCola
  <2>3. \A x, y \in Enlazando' : x = y
    BY <1>3, <2>1
  <2>4. /\ nuevos'.pc = "enlazar" => nuevos'.ultimo = UltimoNodo'
        /\ \A e \in Ejecutores : ej'[e].pc = "enlazar" => ej'[e].ultimo = UltimoNodo'
    BY <1>3, <1>4, <2>1 DEF SinCola
  <2> QED BY <2>2, <2>3, <2>4 DEF Cola
<1>5. ASSUME NEW quien \in Ejecutores \cup {"nuevos"}, Busca(quien)
      PROVE  Cola'
  <2>1. Enlazando \subseteq {quien}
    BY <1>5, NadieAMedias DEF Busca
  <2>2. UltimoNodo' = UltimoNodo /\ EnMano' = EnMano
    BY <1>5 DEF Busca, UltimoNodo, EnMano
  <2>3. \A x, y \in Enlazando' : x = y
    BY <1>5, <2>1 DEF Busca
  <2>4. nuevos'.pc = "enlazar" => nuevos'.ultimo = UltimoNodo
    <3>1. nuevos'.pc = "enlazar" => "nuevos" \in Enlazando'
      BY DEF Enlazando
    <3> QED BY <1>5, <2>1, <3>1 DEF Busca
  <2>5. ASSUME NEW e \in Ejecutores, ej'[e].pc = "enlazar" PROVE ej'[e].ultimo = UltimoNodo
    <3>1. e \in Enlazando'
      BY <2>5 DEF Enlazando
    <3> QED BY <1>5, <2>1, <2>5, <3>1 DEF Busca
  <2> QED BY <1>3, <1>5, <2>2, <2>3, <2>4, <2>5 DEF Busca, Cola
<1>6. ASSUME NEW quien \in Ejecutores \cup {"nuevos"}, NEW u \in Guiones \cup {Nulo},
             NEW s \in Guiones, Termina(quien, u, s)
      PROVE  Cola'
  <2>1. Enlazando' = {}
    BY <1>3, <1>6 DEF Termina
  <2>2. queue_listo' = Append(queue_listo, s)
    BY <1>2, <1>3, <1>6, EnlazarAlFinal DEF Termina, Enlazar
  <2>3. Len(queue_listo') = Len(queue_listo) + 1
    BY <1>1, <2>2
  <2>4. cuenta' = cuenta + 1 /\ semaforoListo' = semaforoListo + 1 /\ EnMano' = EnMano
    BY <1>2, <1>6 DEF Termina, Enlazar, CuentaTrasEnlazar, EnMano
  <2>5. nuevos'.pc # "enlazar" /\ \A e \in Ejecutores : ej'[e].pc # "enlazar"
    BY <2>1 DEF Enlazando
  <2> QED BY <1>1, <1>3, <2>1, <2>3, <2>4, <2>5 DEF Cola
<1>7. CASE Quita
  <2>1. Enlazando = {} /\ Enlazando' = {}
    BY <1>1, <1>7, NadieAMedias DEF Quita
  <2>2. Len(queue_listo') = Len(queue_listo) - 1
    BY <1>1, <1>7, SinElPrimero DEF Quita
  <2>3. nuevos'.pc # "enlazar" /\ \A e \in Ejecutores : ej'[e].pc # "enlazar"
    BY <2>1 DEF Enlazando
  <2> QED BY <1>1, <1>3, <1>7, <2>1, <2>2, <2>3 DEF Quita, EnMano, Cola
<1> QED BY <1>4, <1>5, <1>6, <1>7 DEF EnCola

CamposEj == {"pc", "s", "quantum", "p", "ultimo", "vista", "sabida", "refresco", "faltan"}

\* Every action of an executor is one of these, ..
LEMMA ColaEjecutar ==
  ASSUME Base, NEW e \in Ejecutores, Ejecutar(e)
  PROVE  caida = "no" /\ caida' = "no" /\ (Cola => EnCola)
<1> USE DEF colaNuevos, colaListos, tablas, criterios, gossip, CamposEj
<1>1. /\ DOMAIN ej = Ejecutores /\ "nuevos" \notin Ejecutores
      /\ \A x \in Ejecutores : /\ DOMAIN ej[x] = CamposEj /\ ej[x] = [f \in CamposEj |-> ej[x][f]]
                               /\ ej[x].s \in Guiones \cup {Nulo} /\ ej[x].ultimo \in Guiones \cup {Nulo}
  BY NulosValidos DEF Base, TypeOK, LocalesEjecutor, CamposEj
<1>2. caida = "no" /\ caida' = "no"
  BY DEF Ejecutar, TomarPedido, BuscarTabla, SinTabla, ElegirSC, ElegirEC, ElegirSHC, Responder,
         DescribeUna, DescribeTodas, Llenar, Llena, Terminar, Devolver, EncolarDeNuevo, Vivo
<1> SUFFICES ASSUME Cola PROVE EnCola
  BY <1>2
<1>3. ASSUME UNCHANGED <<colaListos, listos, nuevos, cruces>>, ej'[e].pc # "enlazar",
             \A x \in Ejecutores : x # e /\ ej'[x].pc = "enlazar" =>
               ej[x].pc = "enlazar" /\ ej'[x].ultimo = ej[x].ultimo
      PROVE  EnCola
  BY <1>3 DEF EnCola, SinCola, EnMano
<1>4. ASSUME UNCHANGED <<colaListos, listos, nuevos, cruces>>,
             NEW r, ej' = [ej EXCEPT ![e] = r], r.pc # "enlazar"
      PROVE  EnCola
  BY <1>1, <1>3, <1>4
<1>5. Libre.pc # "enlazar" /\ Atendido(e).pc # "enlazar"
  BY <1>1 DEF Libre, Atendido
<1>6. CASE TomarPedido(e)
  <2>1. UNCHANGED <<colaListos, listos, nuevos, cruces>>
    BY <1>6 DEF TomarPedido, EnEjecutor
  <2> DEFINE s == ej[e].s
             r == [ej[e] EXCEPT !.p = Head(guion[s]), !.pc = IF Head(guion[s]).tipo = "TABLA" THEN "buscar" ELSE "enviar"]
  <2>2. ej' = [ej EXCEPT ![e] = r] /\ r.pc # "enlazar"
    BY <1>1, <1>6 DEF TomarPedido
  <2> QED BY <1>4, <2>1, <2>2
<1>7. CASE BuscarTabla(e)
  <2>1. UNCHANGED <<colaListos, listos, nuevos, cruces>>
    BY <1>7 DEF BuscarTabla, EnEjecutor
  <2>2. ej'[e].pc = "buscando" /\ \A x \in Ejecutores : x # e => ej'[x] = ej[x]
    BY <1>1, <1>7 DEF BuscarTabla
  <2> QED BY <1>3, <2>1, <2>2
<1>8. CASE SinTabla(e)
  BY <1>4, <1>5, <1>8 DEF SinTabla, DestruirEjecucion, EnEjecutor
<1>9. ASSUME NEW m, UsarMemoria(e, m), UNCHANGED <<colaListos, listos, nuevos, cruces>>
      PROVE  EnCola
  <2>1. CASE ej' = [ej EXCEPT ![e] = Libre]
    BY <1>4, <1>5, <1>9, <2>1
  <2>2. CASE ej' = [ej EXCEPT ![e].pc = "enviar"]
    <3>1. ej'[e].pc = "enviar" /\ \A x \in Ejecutores : x # e => ej'[x] = ej[x]
      BY <1>1, <2>2
    <3> QED BY <1>3, <1>9, <3>1
  <2> QED BY <1>9, <2>1, <2>2 DEF UsarMemoria, DestruirEjecucion
<1>10. CASE ElegirSC(e) \/ ElegirEC(e)
  BY <1>9, <1>10 DEF ElegirSC, ElegirEC, EnEjecutor
<1>11. CASE ElegirSHC(e)
  <2>1. CASE ej' = [ej EXCEPT ![e] = Libre]
    BY <1>4, <1>5, <1>11, <2>1 DEF ElegirSHC, EnEjecutor
  <2>2. CASE ej' = [ej EXCEPT ![e].pc = "enviar"]
    <3>1. ej'[e].pc = "enviar" /\ \A x \in Ejecutores : x # e => ej'[x] = ej[x]
      BY <1>1, <2>2
    <3> QED BY <1>3, <1>11, <3>1 DEF ElegirSHC, EnEjecutor
  <2> QED BY <1>11, <2>1, <2>2 DEF ElegirSHC, DestruirEjecucion
<1>12. CASE Responder(e) \/ DescribeUna(e) \/ Llena(e)
  BY <1>4, <1>5, <1>12 DEF Responder, DescribeUna, Llena, EnEjecutor
<1>13. CASE DescribeTodas(e)
  <2>1. UNCHANGED <<colaListos, listos, nuevos, cruces>>
    BY <1>13 DEF DescribeTodas, EnEjecutor
  <2>2. /\ ej'[e].pc = "llenar"
        /\ \A x \in Ejecutores : x # e => ej'[x] = IF ej[x].pc = "buscando" THEN [ej[x] EXCEPT !.refresco = "limpia"]
              ELSE ej[x]
    BY <1>1, <1>13 DEF DescribeTodas
  <2>3. \A x \in Ejecutores : [ej[x] EXCEPT !.refresco = "limpia"].pc = ej[x].pc
    BY <1>1
  <2> QED BY <1>3, <2>1, <2>2, <2>3
<1>14. CASE Llenar(e)
  <2>1. UNCHANGED <<colaListos, listos, nuevos, cruces>>
    BY <1>14 DEF Llenar, EnEjecutor
  <2>2. ej'[e].pc = "llenar" /\ \A x \in Ejecutores : x # e => ej'[x] = ej[x]
    BY <1>1, <1>14 DEF Llenar
  <2> QED BY <1>3, <2>1, <2>2
<1>15. CASE Terminar(e)
  BY <1>4, <1>5, <1>15 DEF Terminar, EnEjecutor
<1>16. CASE Devolver(e)
  <2>1. /\ Cruzar(e) /\ UNCHANGED <<queue_listo, cuenta, semaforoListo, listos, nuevos>>
    BY <1>16 DEF Devolver, BuscarUltimo, EnEjecutor
  <2>2. ej'[e].ultimo = UltimoNodo /\ \A x \in Ejecutores : x # e => ej'[x] = ej[x]
    BY <1>1, <1>16 DEF Devolver
  <2>3. Enlazando' \subseteq Enlazando \cup {e}
    BY <2>1, <2>2 DEF Enlazando
  <2>4. Busca(e)
    BY <1>1, <2>1, <2>2, <2>3 DEF Busca
  <2> QED BY <2>4 DEF EnCola
<1>17. CASE EncolarDeNuevo(e)
  <2>1. /\ Enlazar(e, ej[e].ultimo, ej[e].s) /\ UNCHANGED <<listos, cruces, nuevos>>
        /\ ej' = [ej EXCEPT ![e] = Libre] /\ ej[e].pc = "enlazar"
    BY <1>17 DEF EncolarDeNuevo, EnEjecutor
  <2>2. ej[e].s \in Guiones /\ ej[e].ultimo \in Guiones \cup {Nulo}
    BY <1>1, <2>1 DEF Base, Local
  <2>3. ej'[e].pc # "enlazar" /\ \A x \in Ejecutores : x # e => ej'[x] = ej[x]
    BY <1>1, <1>5, <2>1
  <2>4. Enlazando' \subseteq Enlazando \ {e} /\ e \in Enlazando
    BY <1>1, <2>1, <2>3 DEF Enlazando
  <2>5. cruces = {} => ej[e].ultimo = UltimoNodo
    BY <2>1 DEF Cola
  <2>6. Termina(e, ej[e].ultimo, ej[e].s)
    BY <2>1, <2>2, <2>4, <2>5 DEF Termina
  <2> QED BY <2>2, <2>6 DEF EnCola
<1> QED BY <1>6, <1>7, <1>8, <1>10, <1>11, <1>12, <1>13, <1>14, <1>15, <1>16, <1>17
        DEF Ejecutar

\* .. and so is every other step that leaves the process alive.
LEMMA ColaOtros ==
  ASSUME Base, Cola, Consola \/ Respuestas \/ HiloGossip \/ AtenderNuevos \/ AtenderListos
  PROVE  caida = "no" /\ caida' = "no" /\ EnCola
<1> USE DEF colaNuevos, colaListos, tablas, criterios, gossip
<1>1. /\ "nuevos" \notin Ejecutores /\ semaforoListo \in Nat /\ EnMano \in Int
      /\ nuevos.s \in Guiones \cup {Nulo} /\ nuevos.ultimo \in Guiones \cup {Nulo}
      /\ nuevos.pc = "esperar" <=> nuevos.s = Nulo
  BY NulosValidos DEF Base, TypeOK, EnMano
<1>2. CASE Consola \/ Respuestas \/ HiloGossip
  <2>1. /\ caida = "no" /\ caida' = "no" /\ UNCHANGED <<colaListos, listos, nuevos, ej, cruces>>
    BY <1>2 DEF Consola, Respuestas, HiloGossip, Ingresar, Add, JournalEnviar, JournalRecibir, Tomar,
                Soltar, GossipRecibir, GossipTomar, GossipQuitar, Vivo
  <2> QED BY <2>1 DEF EnCola, SinCola, EnMano
<1>3. CASE AtenderNuevos
  <2>1. caida = "no" /\ caida' = "no" /\ UNCHANGED <<listos, ej>>
    BY <1>3 DEF AtenderNuevos, SacarNuevo, CrearEstructura, EncolarNuevo, Vivo
  <2>2. CASE SacarNuevo
    <3>1. nuevos'.pc # "enlazar" /\ UNCHANGED <<colaListos, cruces>>
      BY <2>2 DEF SacarNuevo
    <3> QED BY <2>1, <3>1 DEF EnCola, SinCola, EnMano
  <2>3. CASE CrearEstructura
    <3>1. Cruzar("nuevos") /\ UNCHANGED colaListos /\ nuevos'.ultimo = UltimoNodo
      BY <2>3 DEF CrearEstructura, BuscarUltimo, Base, TypeOK
    <3>2. Enlazando' \subseteq Enlazando \cup {"nuevos"}
      BY <2>1 DEF Enlazando
    <3>3. \A e \in Ejecutores : ej'[e].pc = "enlazar" =>
            ej'[e].ultimo = IF e = "nuevos" THEN UltimoNodo ELSE ej[e].ultimo
      BY <1>1, <2>1
    <3>4. Busca("nuevos")
      BY <2>1, <3>1, <3>2, <3>3 DEF Busca
    <3> QED BY <2>1, <3>4 DEF EnCola
  <2>4. CASE EncolarNuevo
    <3>1. /\ Enlazar("nuevos", nuevos.ultimo, nuevos.s) /\ nuevos.pc = "enlazar"
          /\ nuevos'.pc = "esperar" /\ UNCHANGED cruces
      BY <2>4 DEF EncolarNuevo
    <3>2. Enlazando' \subseteq Enlazando \ {"nuevos"} /\ "nuevos" \in Enlazando
      BY <1>1, <2>1, <3>1 DEF Enlazando
    <3>3. cruces = {} => nuevos.ultimo = UltimoNodo
      BY <3>1 DEF Cola
    <3>4. Termina("nuevos", nuevos.ultimo, nuevos.s)
      BY <1>1, <2>1, <3>1, <3>2, <3>3 DEF Termina
    <3> QED BY <1>1, <2>1, <3>1, <3>4 DEF EnCola
  <2> QED BY <1>3, <2>2, <2>3, <2>4 DEF AtenderNuevos
<1>4. CASE EsperarListo \/ EsperarExec
  <2>1. /\ caida = "no" /\ caida' = "no" /\ UNCHANGED <<queue_listo, cuenta, nuevos, ej, cruces>>
    BY <1>4 DEF EsperarListo, EsperarExec, Vivo
  <2>2. semaforoListo' + EnMano' = semaforoListo + EnMano
    BY <1>1, <1>4 DEF EsperarListo, EsperarExec, EnMano
  <2> QED BY <2>1, <2>2 DEF EnCola, SinCola
<1>5. ASSUME NEW e \in Ejecutores, Lanzar(e)
      PROVE  caida = "no" /\ caida' = "no" /\ EnCola
  <2>1. /\ caida = "no" /\ caida' = "no" /\ UNCHANGED <<semaforoListo, nuevos>>
        /\ listos = "lanzar" /\ listos' = "esperarListo" /\ queue_listo # <<>>
        /\ queue_listo' = Tail(queue_listo) /\ cuenta' = cuenta - 1 /\ Cruzar("listos")
    BY <1>5 DEF Lanzar, Vivo
  <2>2. /\ ej[e].pc = "libre" /\ ej'[e].pc = "tomar"
        /\ \A x \in Ejecutores : x # e => ej'[x] = ej[x]
    <3>1. DOMAIN ej = Ejecutores
      BY DEF Base, TypeOK
    <3>2. [Libre EXCEPT !.pc = "tomar", !.s = Head(queue_listo), !.quantum = Quantum].pc = "tomar"
      BY DEF Libre
    <3> QED BY <1>5, <3>1, <3>2 DEF Lanzar
  <2>3. Enlazando' = Enlazando
    BY <2>1, <2>2 DEF Enlazando
  <2> QED BY <2>1, <2>3 DEF EnCola, Quita
<1> QED BY <1>2, <1>3, <1>4, <1>5 DEF AtenderListos

\* A death before two operations meet is not one of the list's.
LEMMA ColaMuerte ==
  ASSUME Base, Cola, MuerteSegura \/ MorirEjecutando
  PROVE  Cola'
<1> USE DEF colaNuevos, colaListos, tablas, criterios, gossip
<1>1. UNCHANGED <<colaListos, listos, nuevos, ej, cruces>>
  BY DEF MuerteSegura, MorirSinTabla, MorirAlEncolar, MorirAlSacar, MorirSinMemoriasEC, MorirEjecutando
<1>2. Len(queue_listo) \in Nat /\ semaforoListo \in Nat
  BY DEF Base, TypeOK
<1>3. ASSUME cruces = {} PROVE caida' \notin {"sacarDeVacia", "cuentaDeMas"}
  <2>1. cuenta = Len(queue_listo) /\ Len(queue_listo) = semaforoListo + EnMano
    BY <1>3 DEF Cola
  <2>2. ~MorirAlEncolar
    BY <1>2, <2>1 DEF MorirAlEncolar, HayUltimo
  <2>3. ~MorirAlSacar
    BY <1>2, <2>1 DEF MorirAlSacar, EnMano
  <2> QED BY <2>2, <2>3 DEF MuerteSegura, MorirSinTabla, MorirSinMemoriasEC, MorirEjecutando
<1>4. Enlazando' = Enlazando /\ UltimoNodo' = UltimoNodo /\ EnMano' = EnMano
  BY <1>1 DEF Enlazando, UltimoNodo, EnMano
<1> QED BY <1>1, <1>3, <1>4 DEF Cola

\* What was ready to run before it is still there.
LEMMA NadieMas ==
  ASSUME NEW Q, NEW q \in Seq(Q), q # <<>>, NEW x, Contains(q, x)
  PROVE  Contains(Tail(q), x) \/ x = Head(q)
<1>1. /\ Len(q) \in Nat \ {0} /\ Head(q) = q[1]
      /\ \A i \in 1..Len(q) - 1 : Tail(q)[i] = q[i + 1]
      /\ DOMAIN Tail(q) = 1..Len(q) - 1 /\ DOMAIN q = 1..Len(q)
  OBVIOUS
<1>2. PICK i \in 1..Len(q) : q[i] = x
  BY <1>1 DEF Contains
<1>3. CASE i # 1
  <2>1. i - 1 \in 1..Len(q) - 1 /\ Tail(q)[i - 1] = x
    BY <1>1, <1>2, <1>3
  <2> QED BY <1>1, <2>1 DEF Contains
<1> QED BY <1>1, <1>2, <1>3

\* No script that was queued is missing, until two operations meet.
Estan == cruces = {} => \A s \in Guiones : guion[s] # Nulo /\ fin[s] = "no" => Puesto(s)

LEMMA EstanEjecutar ==
  ASSUME Base, Unidad, Cola, Estan, EnCola, NEW e \in Ejecutores, Efecto(e)
  PROVE  Estan'
<1> SUFFICES ASSUME cruces' = {}, NEW s \in Guiones, guion'[s] # Nulo, fin'[s] = "no"
             PROVE  Puesto(s)'
  BY DEF Estan
<1>1. cruces = {}
  BY NadieAMedias DEF EnCola, SinCola, Busca, Termina, Quita
<1>2. /\ DOMAIN guion = Guiones /\ DOMAIN fin = Guiones /\ queue_listo \in Seq(Guiones)
      /\ ej[e].s \in Guiones \cup {Nulo} /\ (ej[e].pc = "libre" <=> ej[e].s = Nulo)
      /\ \A z \in Guiones : Puesto(z) => guion[z] # Nulo
  BY DEF Base, TypeOK, Local, LocalesEjecutor
<1>3. /\ \A z \in Guiones : guion[z] # Nulo /\ fin[z] = "no" => Puesto(z)
      /\ cuenta = Len(queue_listo) /\ (ej[e].pc = "enlazar" => ej[e].ultimo = UltimoNodo)
  BY <1>1 DEF Estan, Cola
<1>4. /\ \A x \in Ejecutores : x # e => ej'[x].s = ej[x].s
      /\ UNCHANGED <<queue_nuevo, nuevos>>
  BY DEF Efecto, Igual
<1>5. CASE Sigue(e) \/ Pide(e)
  <2>1. ej'[e].s = ej[e].s /\ UNCHANGED <<fin, queue_listo>>
    BY <1>5 DEF Sigue, Pide
  <2>2. guion[s] # Nulo
    BY <1>2, <1>5 DEF Sigue, Pide, Puesto, ConPedido
  <2>3. Puesto(s)
    BY <1>3, <2>1, <2>2
  <2> QED BY <1>4, <2>1, <2>3 DEF Puesto
<1>6. CASE Deja(e)
  <2>1. s # ej[e].s
    BY <1>2, <1>6 DEF Deja
  <2>2. guion[s] # Nulo /\ fin[s] = "no" /\ queue_listo' = queue_listo
    BY <1>2, <1>6, <2>1 DEF Deja
  <2>3. Puesto(s)
    BY <1>3, <2>2
  <2> QED BY <1>4, <2>1, <2>2, <2>3 DEF Puesto
<1>7. CASE Devuelve(e)
  <2>1. ej[e].s \in Guiones /\ queue_listo' = Append(queue_listo, ej[e].s) /\ UNCHANGED <<guion, fin>>
    BY <1>2, <1>3, <1>7, EnlazarAlFinal DEF Devuelve
  <2>2. \A x : Contains(queue_listo', x) <=> Contains(queue_listo, x) \/ x = ej[e].s
    BY <1>2, <2>1, AlFinal
  <2>3. Puesto(s)
    BY <1>3, <2>1
  <2> QED BY <1>4, <2>1, <2>2, <2>3 DEF Puesto
<1> QED BY <1>5, <1>6, <1>7 DEF Efecto

LEMMA EstanOtros ==
  ASSUME Base, Unidad, Cola, Estan, EnCola, EfectoAjeno
  PROVE  Estan'
<1> SUFFICES ASSUME cruces' = {}, NEW s \in Guiones, guion'[s] # Nulo, fin'[s] = "no"
             PROVE  Puesto(s)'
  BY DEF Estan
<1>1. cruces = {}
  BY NadieAMedias DEF EnCola, SinCola, Busca, Termina, Quita
<1>2. /\ DOMAIN guion = Guiones /\ queue_listo \in Seq(Guiones) /\ queue_nuevo \in Seq(Guiones)
      /\ DOMAIN ej = Ejecutores /\ Nulo \notin Guiones
      /\ nuevos.pc = "esperar" <=> nuevos.s = Nulo
      /\ \A x \in Ejecutores : ej[x].pc = "libre" <=> ej[x].s = Nulo
  BY NulosValidos DEF Base, TypeOK, Local
<1>3. /\ \A z \in Guiones : guion[z] # Nulo /\ fin[z] = "no" => Puesto(z)
      /\ cuenta = Len(queue_listo) /\ (nuevos.pc = "enlazar" => nuevos.ultimo = UltimoNodo)
  BY <1>1 DEF Estan, Cola
<1>4. CASE Quieto
  BY <1>3, <1>4 DEF Quieto, Puesto
<1>5. ASSUME NEW z \in Guiones, Ingresa(z)
      PROVE  Puesto(s)'
  <2>1. \A x : Contains(queue_nuevo', x) <=> Contains(queue_nuevo, x) \/ x = z
    BY <1>2, <1>5, AlFinal DEF Ingresa
  <2>2. CASE s = z
    BY <2>1, <2>2 DEF Puesto
  <2>3. CASE s # z
    <3>1. Puesto(s)
      BY <1>2, <1>3, <1>5, <2>3 DEF Ingresa
    <3> QED BY <1>5, <2>1, <3>1 DEF Ingresa, Puesto
  <2> QED BY <2>2, <2>3
<1>6. CASE Saca
  <2>1. Puesto(s) /\ s # nuevos.s
    BY <1>2, <1>3, <1>6 DEF Saca
  <2>2. Contains(queue_nuevo, s) => Contains(queue_nuevo', s) \/ s = nuevos'.s
    BY <1>2, <1>6, NadieMas DEF Saca
  <2> QED BY <1>6, <2>1, <2>2 DEF Saca, Puesto
<1>7. CASE Encola
  <2>1. Puesto(s)
    BY <1>3, <1>7 DEF Encola
  <2>2. nuevos.ultimo = UltimoNodo
    BY <1>3, <1>7 DEF Encola
  <2>3. queue_listo' = Append(queue_listo, nuevos.s) /\ nuevos.s \in Guiones
    BY <1>3, <1>7, <2>2, EnlazarAlFinal DEF Encola
  <2>4. \A x : Contains(queue_listo', x) <=> Contains(queue_listo, x) \/ x = nuevos.s
    BY <1>2, <2>3, AlFinal
  <2> QED BY <1>7, <2>1, <2>4 DEF Encola, Puesto
<1>8. ASSUME NEW e \in Ejecutores, Lanza(e)
      PROVE  Puesto(s)'
  <2>1. Puesto(s) /\ UNCHANGED <<queue_nuevo, nuevos>> /\ ej[e].s = Nulo
    BY <1>2, <1>3, <1>8 DEF Lanza
  <2>2. /\ ej'[e].s = Head(queue_listo)
        /\ \A x \in Ejecutores : x # e => ej'[x] = ej[x]
    <3>1. [Libre EXCEPT !.pc = "tomar", !.s = Head(queue_listo), !.quantum = Quantum].s = Head(queue_listo)
      BY DEF Libre
    <3> QED BY <1>2, <1>8, <3>1 DEF Lanza
  <2>3. Contains(queue_listo, s) => Contains(queue_listo', s) \/ s = Head(queue_listo)
    BY <1>2, <1>8, NadieMas DEF Lanza
  <2> QED BY <1>2, <2>1, <2>2, <2>3 DEF Puesto
<1> QED BY <1>4, <1>5, <1>6, <1>7, <1>8 DEF EfectoAjeno

\* Cola and Estan, with the order of the scripts, are inductive.
LEMMA EnOrdenPaso ==
  Orden /\ Cola /\ Estan /\ [Next]_vars => Cola' /\ Estan'
<1> SUFFICES ASSUME Orden, Cola, Estan, [Next]_vars PROVE Cola' /\ Estan'
  OBVIOUS
<1>1. Base /\ Unidad /\ Base'
  BY OrdenPaso DEF Orden
<1>2. CASE UNCHANGED vars
  <2>1. UNCHANGED <<queue_nuevo, queue_listo, cuenta, semaforoListo, listos, nuevos, ej, guion, fin, cruces, caida>>
    BY <1>2 DEF vars, colaNuevos, colaListos
  <2>2. Enlazando' = Enlazando /\ UltimoNodo' = UltimoNodo /\ EnMano' = EnMano
    BY <2>1 DEF Enlazando, UltimoNodo, EnMano
  <2>3. \A s \in Guiones : Puesto(s)' <=> Puesto(s)
    BY <2>1 DEF Puesto
  <2> QED BY <2>1, <2>2, <2>3 DEF Cola, Estan
<1>3. ASSUME NEW e \in Ejecutores, Ejecutar(e)
      PROVE  Cola' /\ Estan'
  BY <1>1, <1>3, ColaEjecutar, ColaSigue, EfectoEjecutar, EstanEjecutar
<1>4. CASE Consola \/ Respuestas \/ HiloGossip \/ AtenderNuevos \/ AtenderListos
  BY <1>1, <1>4, ColaOtros, ColaSigue, EfectoOtros, EstanOtros
<1>5. CASE MuerteSegura \/ MorirEjecutando
  <2>1. Cola'
    BY <1>1, <1>5, ColaMuerte
  <2>2. UNCHANGED <<queue_nuevo, queue_listo, nuevos, ej, guion, fin, cruces>>
    BY <1>5 DEF MuerteSegura, MorirSinTabla, MorirAlEncolar, MorirAlSacar, MorirSinMemoriasEC,
                MorirEjecutando, colaNuevos, colaListos
  <2>3. \A s \in Guiones : Puesto(s)' <=> Puesto(s)
    BY <2>2 DEF Puesto
  <2> QED BY <2>1, <2>2, <2>3 DEF Estan
<1> QED BY <1>2, <1>3, <1>4, <1>5 DEF Next

\* They hold of the initial states.
LEMMA EnOrdenInicial == Init => Cola /\ Estan
BY DEF Init, Cola, Estan, Enlazando, EnMano, Libre

LEMMA SiempreEnOrden == Spec => [](Orden /\ Cola /\ Estan)
<1>1. Init => Orden
  BY BaseInicial, UnidadInicial, JustosInicial DEF Orden
<1> QED BY <1>1, OrdenPaso, EnOrdenInicial, EnOrdenPaso, PTL DEF Spec

\* For any scripts, executors and quantum: while no two operations on
\* queue_listo have met, semaforoListo and elements_count say what is in it
\* and atenderListos never pops an empty list (atenderListos, queue_push).
THEOREM SemaforoDeListos == Spec => []ColaJusta
<1>1. Cola => ColaJusta
  BY DEF Cola, ColaJusta, EnMano
<1> QED BY <1>1, SiempreEnOrden, PTL

\* How many times a queue without repetitions has an element.
LEMMA VecesEnCola ==
  ASSUME NEW Q, NEW q \in Seq(Q), SinRepetir(q), NEW x
  PROVE  Cardinality({i \in DOMAIN q : q[i] = x}) = IF Contains(q, x) THEN 1 ELSE 0
<1> DEFINE I == {i \in DOMAIN q : q[i] = x}
<1>1. DOMAIN q = 1..Len(q)
  OBVIOUS
<1>2. CASE Contains(q, x)
  <2>1. PICK i \in DOMAIN q : q[i] = x
    BY <1>1, <1>2 DEF Contains
  <2>2. I = {i}
    BY <2>1 DEF SinRepetir
  <2> QED BY <1>2, <2>2, FS_Singleton
<1>3. CASE ~Contains(q, x)
  <2>1. I = {}
    BY <1>1, <1>3 DEF Contains
  <2> QED BY <1>3, <2>1, FS_EmptySet
<1> QED BY <1>2, <1>3

\* The same of the executors.
LEMMA VecesEnEjecutores ==
  ASSUME Unidad, NEW s \in Guiones
  PROVE  Cardinality({e \in Ejecutores : ej[e].s = s}) = IF Llevado(s) THEN 1 ELSE 0
<1> DEFINE E == {e \in Ejecutores : ej[e].s = s}
<1>1. CASE Llevado(s)
  <2>1. PICK e \in Ejecutores : ej[e].s = s
    BY <1>1 DEF Llevado
  <2>2. E = {e}
    BY <2>1 DEF Unidad, Solo
  <2> QED BY <1>1, <2>2, FS_Singleton
<1>2. CASE ~Llevado(s)
  <2>1. E = {}
    BY <1>2 DEF Llevado
  <2> QED BY <1>2, <2>1, FS_EmptySet
<1> QED BY <1>1, <1>2

\* For any scripts, executors and quantum: while no two operations on
\* queue_listo have met, every script that was queued and has neither ended nor
\* been given up is in exactly one place, and no other is in any.
THEOREM CadaGuionEnUnLugar == Spec => []NingunGuionSePierde
<1>1. ASSUME Orden, Cola, Estan PROVE NingunGuionSePierde
  <2>1. SUFFICES ASSUME cruces = {}, NEW s \in Guiones
                 PROVE  Veces(s) = IF guion[s] # Nulo /\ fin[s] = "no" THEN 1 ELSE 0
    BY DEF NingunGuionSePierde
  <2>2. /\ queue_nuevo \in Seq(Guiones) /\ queue_listo \in Seq(Guiones)
        /\ SinRepetir(queue_nuevo) /\ SinRepetir(queue_listo) /\ Unidad /\ Solo(s)
        /\ (Puesto(s) => guion[s] # Nulo)
    BY <1>1 DEF Orden, Base, TypeOK, Unidad
  <2>3. Puesto(s) <=> guion[s] # Nulo /\ fin[s] = "no"
    BY <1>1, <2>1, <2>2 DEF Estan, Solo
  <2>4. Puesto(s) <=> Contains(queue_nuevo, s) \/ Contains(queue_listo, s) \/ nuevos.s = s \/ Llevado(s)
    BY DEF Puesto, Llevado
  <2>5. /\ Contains(queue_nuevo, s) => ~Contains(queue_listo, s) /\ nuevos.s # s /\ ~Llevado(s)
        /\ Contains(queue_listo, s) => nuevos.s # s /\ ~Llevado(s)
        /\ nuevos.s = s => ~Llevado(s)
    BY <2>2 DEF Solo
  <2>6. Veces(s) = (IF Contains(queue_nuevo, s) THEN 1 ELSE 0) + (IF Contains(queue_listo, s) THEN 1 ELSE 0)
                   + (IF nuevos.s = s THEN 1 ELSE 0) + (IF Llevado(s) THEN 1 ELSE 0)
    BY <2>2, VecesEnCola, VecesEnEjecutores DEF Veces
  <2> QED BY <2>3, <2>4, <2>5, <2>6
<1> QED BY <1>1, SiempreEnOrden, PTL

-----------------------------------------------------------------------------
(* metadata_tablas. *)

\* How often a table is in what is being filled, and in what is full.
LasDeFS == \A t \in Tablas : Apariciones(metadata_tablas, t) <= Apariciones(EnFS, t)

\* As far as it has arrived, the list is that of the file system.
Recibido(faltan) ==
  /\ Len(metadata_tablas) + faltan = Len(EnFS)
  /\ \A i \in DOMAIN metadata_tablas : metadata_tablas[i] = EnFS[i]

\* Whoever fills the list has the mutex, and what is missing is still to come;
\* and who has looked with no DESCRIBE on its way has seen what was known.
Fichas ==
  /\ LasDeFS
  /\ mutexMetadata = Nadie => conocidas = ToSet(metadata_tablas)
  /\ \A e \in Ejecutores :
       /\ ej[e].pc = "llenar" <=> mutexMetadata = e
       /\ ej[e].pc = "llenar" => Recibido(ej[e].faltan)
       /\ ej[e].pc = "buscando" /\ ej[e].sabida /\ ej[e].refresco = "no" => ej[e].vista

\* Contains, as a set.
LEMMA EnElConjunto ==
  ASSUME NEW Q, NEW q \in Seq(Q), NEW x
  PROVE  x \in ToSet(q) <=> Contains(q, x)
<1>1. DOMAIN q = 1..Len(q)
  OBVIOUS
<1> QED BY <1>1 DEF ToSet, Contains

\* How often an element is in a sequence: a natural, at least one where it is
\* there; no more in a sequence than in one that goes on from it; and one where
\* it was not and is appended.
LEMMA LasApariciones ==
  ASSUME NEW Q, NEW q \in Seq(Q), NEW x
  PROVE  /\ Apariciones(q, x) \in Nat
         /\ Contains(q, x) => Apariciones(q, x) >= 1
         /\ \A p \in Seq(Q) :
              (Len(p) <= Len(q) /\ \A i \in DOMAIN p : p[i] = q[i])
                => Apariciones(p, x) <= Apariciones(q, x)
<1> DEFINE D(p) == {i \in DOMAIN p : p[i] = x}
<1>1. \A p \in Seq(Q) : IsFiniteSet(D(p)) /\ Cardinality(D(p)) \in Nat
  <2> TAKE p \in Seq(Q)
  <2>1. D(p) \subseteq 1..Len(p) /\ Len(p) \in Int
    OBVIOUS
  <2>2. IsFiniteSet(1..Len(p))
    BY <2>1, FS_Interval
  <2> QED BY <2>1, <2>2, FS_Subset, FS_CardinalityType
<1>2. ASSUME Contains(q, x)
      PROVE  Cardinality(D(q)) >= 1
  <2>1. D(q) # {}
    BY <1>2 DEF Contains
  <2> HIDE DEF D
  <2>2. Cardinality(D(q)) # 0
    BY <1>1, <2>1, FS_EmptySet
  <2> QED BY <1>1, <2>2
<1>3. ASSUME NEW p \in Seq(Q), Len(p) <= Len(q), \A i \in DOMAIN p : p[i] = q[i]
      PROVE  Cardinality(D(p)) <= Cardinality(D(q))
  <2>1. D(p) \subseteq D(q)
    BY <1>3
  <2> HIDE DEF D
  <2> QED BY <1>1, <2>1, FS_Subset
<1> QED BY <1>1, <1>2, <1>3 DEF Apariciones

LEMMA UnaMas ==
  ASSUME NEW Q, NEW q \in Seq(Q), NEW t \in Q, ~Contains(q, t), NEW x
  PROVE  Apariciones(Append(q, t), x) = IF x = t THEN 1 ELSE Apariciones(q, x)
<1> DEFINE D(p) == {i \in DOMAIN p : p[i] = x}
<1>1. /\ DOMAIN Append(q, t) = 1..Len(q) + 1 /\ DOMAIN q = 1..Len(q) /\ Len(q) \in Nat
      /\ Append(q, t)[Len(q) + 1] = t
      /\ \A i \in 1..Len(q) : Append(q, t)[i] = q[i]
  OBVIOUS
<1>2. CASE x = t
  <2>1. D(Append(q, t)) = {Len(q) + 1}
    BY <1>1, <1>2 DEF Contains
  <2> HIDE DEF D
  <2>2. Cardinality(D(Append(q, t))) = 1
    BY <2>1, FS_Singleton
  <2> QED BY <1>2, <2>2 DEF Apariciones, D
<1>3. CASE x # t
  <2>1. D(Append(q, t)) = D(q)
    BY <1>1, <1>3
  <2> QED BY <1>3, <2>1 DEF Apariciones
<1> QED BY <1>2, <1>3

\* A step that has nothing to do with the list.
SinFichas ==
  /\ UNCHANGED <<metadata_tablas, mutexMetadata, conocidas>>
  /\ \A x \in Ejecutores :
       /\ ej'[x].pc = "llenar" <=> ej[x].pc = "llenar"
       /\ ej'[x].pc = "llenar" => ej'[x].faltan = ej[x].faltan
       /\ ej'[x].pc = "buscando" => ej'[x] = ej[x]

LEMMA FichasQuietas == Fichas /\ SinFichas => Fichas'
BY DEF Fichas, SinFichas, LasDeFS, Recibido, Apariciones

\* The executor keeps Fichas.
LEMMA FichasEjecutar ==
  ASSUME Base, Fichas, NEW e \in Ejecutores, Ejecutar(e)
  PROVE  Fichas'
<1> USE DEF tablas, CamposEj
<1>1. /\ DOMAIN ej = Ejecutores /\ Nadie \notin Ejecutores
      /\ \A x \in Ejecutores : DOMAIN ej[x] = CamposEj
      /\ metadata_tablas \in Seq(Tablas) /\ EnFS \in Seq(Tablas)
      /\ <<>> \in Seq(Tablas) /\ \A x : x \notin ToSet(<<>>)
      /\ ej[e].p \in Pedidos \cup {Nulo}
  BY NulosValidos, TablasValidas DEF Base, TypeOK, LocalesEjecutor, ToSet
<1>2. /\ LasDeFS
      /\ mutexMetadata = Nadie => conocidas = ToSet(metadata_tablas)
      /\ \A x \in Ejecutores :
           /\ ej[x].pc = "llenar" <=> mutexMetadata = x
           /\ ej[x].pc = "llenar" => Recibido(ej[x].faltan)
           /\ ej[x].pc = "buscando" /\ ej[x].sabida /\ ej[x].refresco = "no" => ej[x].vista
  BY DEF Fichas
<1>3. ASSUME NEW r, ej' = [ej EXCEPT ![e] = r], r.pc \notin {"llenar", "buscando"},
             ej[e].pc # "llenar", UNCHANGED tablas
      PROVE  Fichas'
  <2>1. ej'[e] = r /\ \A x \in Ejecutores : x # e => ej'[x] = ej[x]
    BY <1>1, <1>3
  <2> QED BY <1>3, <2>1, FichasQuietas DEF SinFichas
<1>4. Libre.pc = "libre" /\ Atendido(e).pc = "tomar"
  BY <1>1 DEF Libre, Atendido
<1>5. CASE TomarPedido(e)
  <2> DEFINE s == ej[e].s
             r == [ej[e] EXCEPT !.p = Head(guion[s]), !.pc = IF Head(guion[s]).tipo = "TABLA" THEN "buscar" ELSE "enviar"]
  <2>1. ej' = [ej EXCEPT ![e] = r] /\ r.pc \in {"buscar", "enviar"} /\ ej[e].pc # "llenar" /\ UNCHANGED tablas
    BY <1>1, <1>5 DEF TomarPedido
  <2> HIDE DEF r
  <2> QED BY <1>3, <2>1
<1>6. CASE BuscarTabla(e)
  <2> DEFINE y == ej'[e]
  <2>1. /\ y.pc = "buscando" /\ y.vista = Contains(metadata_tablas, ej[e].p.t)
        /\ y.sabida = (ej[e].p.t \in conocidas)
        /\ y.refresco = IF mutexMetadata = Nadie THEN "no" ELSE "llenando"
        /\ \A x \in Ejecutores : x # e => ej'[x] = ej[x]
    BY <1>1, <1>6 DEF BuscarTabla
  <2>2. y.sabida /\ y.refresco = "no" => y.vista
    BY <1>1, <1>2, <2>1, EnElConjunto
  <2>3. UNCHANGED tablas /\ ej[e].pc = "buscar"
    BY <1>6 DEF BuscarTabla
  <2> HIDE DEF y
  <2>4. \A x \in Ejecutores :
           /\ ej'[x].pc = "llenar" <=> ej[x].pc = "llenar"
           /\ ej'[x].pc = "llenar" => ej'[x] = ej[x]
           /\ ej'[x].pc = "buscando" /\ ej'[x].sabida /\ ej'[x].refresco = "no" => ej'[x].vista
    <3> TAKE x \in Ejecutores
    <3>1. CASE x = e
      BY <2>1, <2>2, <2>3, <3>1 DEF y
    <3>2. CASE x # e
      BY <1>2, <2>1, <3>2
    <3> QED BY <3>1, <3>2
  <2>5. LasDeFS' /\ (\A x \in Ejecutores : ej'[x].pc = "llenar" => Recibido(ej[x].faltan)')
    BY <1>2, <2>3, <2>4 DEF LasDeFS, Recibido
  <2> QED BY <1>2, <2>3, <2>4, <2>5 DEF Fichas
<1>7. CASE SinTabla(e)
  BY <1>3, <1>4, <1>7 DEF SinTabla, DestruirEjecucion
<1>8. ASSUME UNCHANGED tablas, ej[e].pc = "buscando",
             ej' = [ej EXCEPT ![e] = Libre] \/ ej' = [ej EXCEPT ![e].pc = "enviar"]
      PROVE  Fichas'
  <2>1. CASE ej' = [ej EXCEPT ![e] = Libre]
    BY <1>3, <1>4, <1>8, <2>1
  <2>2. CASE ej' = [ej EXCEPT ![e].pc = "enviar"]
    <3> DEFINE r == [ej[e] EXCEPT !.pc = "enviar"]
    <3>1. ej' = [ej EXCEPT ![e] = r] /\ r.pc = "enviar"
      BY <1>1, <2>2
    <3> HIDE DEF r
    <3> QED BY <1>3, <1>8, <3>1
  <2> QED BY <1>8, <2>1, <2>2
<1>9. CASE ElegirSC(e) \/ ElegirEC(e) \/ ElegirSHC(e)
  BY <1>8, <1>9 DEF ElegirSC, ElegirEC, ElegirSHC, Encontrada, UsarMemoria, DestruirEjecucion
<1>10. CASE Responder(e)
  BY <1>3, <1>4, <1>10 DEF Responder
<1>11. CASE DescribeUna(e)
  <2> DEFINE t == ej[e].p.t
  <2>1. /\ mutexMetadata = Nadie /\ UNCHANGED mutexMetadata /\ Contains(EnFS, t) /\ t \in Tablas
        /\ metadata_tablas' = IF Contains(metadata_tablas, t) THEN metadata_tablas ELSE Append(metadata_tablas, t)
        /\ conocidas' = conocidas \cup {t} /\ ej' = [ej EXCEPT ![e] = Atendido(e)]
    BY <1>1, <1>11 DEF DescribeUna, AgregarTabla, Contains
  <2> HIDE DEF t
  <2>2. /\ metadata_tablas' \in Seq(Tablas)
        /\ \A x : Contains(metadata_tablas', x) <=> Contains(metadata_tablas, x) \/ x = t
    BY <1>1, <2>1, AlFinal
  <2>3. \A x : x \in ToSet(metadata_tablas') <=> x \in ToSet(metadata_tablas) \/ x = t
    BY <1>1, <2>2, EnElConjunto
  <2>4. conocidas' = ToSet(metadata_tablas')
    BY <1>2, <2>1, <2>3
  <2>5. /\ ej'[e].pc = "tomar" /\ \A x \in Ejecutores : x # e => ej'[x] = ej[x]
    BY <1>1, <1>4, <2>1
  <2>6. \A x \in Ejecutores : ej'[x].pc # "llenar" /\ mutexMetadata' # x
    BY <1>1, <1>2, <2>1, <2>5
  <2>7. \A x \in Ejecutores : ej'[x].pc = "buscando" /\ ej'[x].sabida /\ ej'[x].refresco = "no" => ej'[x].vista
    BY <1>2, <2>5
  <2>8. LasDeFS'
    <3>1. ASSUME NEW x \in Tablas
          PROVE  Apariciones(metadata_tablas', x) <= Apariciones(EnFS, x)
      <4>1. CASE Contains(metadata_tablas, t)
        BY <1>2, <2>1, <4>1 DEF LasDeFS
      <4>2. CASE ~Contains(metadata_tablas, t)
        <5>1. Apariciones(metadata_tablas', x) = IF x = t THEN 1 ELSE Apariciones(metadata_tablas, x)
          BY <1>1, <2>1, <4>2, UnaMas
        <5>2. Apariciones(EnFS, t) >= 1
          BY <1>1, <2>1, LasApariciones
        <5>3. Apariciones(metadata_tablas, x) <= Apariciones(EnFS, x)
          BY <1>2 DEF LasDeFS
        <5> QED BY <5>1, <5>2, <5>3
      <4> QED BY <4>1, <4>2
    <3> QED BY <3>1 DEF LasDeFS
  <2> QED BY <2>4, <2>6, <2>7, <2>8 DEF Fichas
<1>12. CASE DescribeTodas(e)
  <2>1. /\ mutexMetadata = Nadie /\ mutexMetadata' = e /\ metadata_tablas' = <<>>
        /\ ej'[e] = [ej[e] EXCEPT !.pc = "llenar", !.faltan = Len(EnFS)]
        /\ \A x \in Ejecutores : x # e => ej'[x] = IF ej[x].pc = "buscando" THEN [ej[x] EXCEPT !.refresco = "limpia"] ELSE ej[x]
    BY <1>12 DEF DescribeTodas
  <2>2. ej'[e].pc = "llenar" /\ ej'[e].faltan = Len(EnFS)
    BY <1>1, <2>1
  <2>3. ASSUME NEW x \in Ejecutores, x # e
        PROVE  ej'[x].pc # "llenar" /\ (ej'[x].pc = "buscando" => ej'[x].refresco # "no")
    <3>1. ej[x].pc # "llenar"
      BY <1>1, <1>2, <2>1
    <3>2. CASE ej[x].pc = "buscando"
      <4>1. ej'[x] = [ej[x] EXCEPT !.refresco = "limpia"]
        BY <2>1, <2>3, <3>2, Zenon
      <4>2. DOMAIN ej[x] = CamposEj
        BY <1>1
      <4> QED BY <3>1, <4>1, <4>2 DEF CamposEj
    <3>3. CASE ej[x].pc # "buscando"
      <4>1. ej'[x] = ej[x]
        BY <2>1, <2>3, <3>3, Zenon
      <4> QED BY <3>1, <3>3, <4>1
    <3> QED BY <3>2, <3>3
  <2>4. LasDeFS' /\ Recibido(Len(EnFS))' /\ mutexMetadata' # Nadie
    <3>1. /\ Len(metadata_tablas') = 0 /\ DOMAIN metadata_tablas' = {} /\ Len(EnFS) \in Nat
          /\ metadata_tablas' \in Seq(Tablas)
      BY <1>1, <2>1
    <3>2. /\ EnFS \in Seq(Tablas) /\ metadata_tablas' \in Seq(Tablas)
          /\ Len(metadata_tablas') <= Len(EnFS)
          /\ \A i \in DOMAIN metadata_tablas' : metadata_tablas'[i] = EnFS[i]
      BY <1>1, <3>1
    <3>3. ASSUME NEW t \in Tablas
          PROVE  Apariciones(metadata_tablas', t) <= Apariciones(EnFS, t)
      BY <3>2, LasApariciones
    <3> QED BY <1>1, <2>1, <3>1, <3>3 DEF LasDeFS, Recibido
  <2>5. \A x \in Ejecutores :
          /\ ej'[x].pc = "llenar" <=> mutexMetadata' = x
          /\ ej'[x].pc = "llenar" => ej'[x].faltan = Len(EnFS)
          /\ ej'[x].pc = "buscando" => ej'[x].refresco # "no"
    <3> TAKE x \in Ejecutores
    <3>1. mutexMetadata' = e
      BY <2>1
    <3>2. CASE x = e
      <4>1. ej'[x].pc = "llenar" /\ ej'[x].pc # "buscando" /\ ej'[x].faltan = Len(EnFS)
        BY <2>2, <3>2
      <4> QED BY <2>4, <3>1, <3>2, <4>1
    <3>3. CASE x # e
      <4>1. ej'[x].pc # "llenar" /\ (ej'[x].pc = "buscando" => ej'[x].refresco # "no")
        BY <2>3, <3>3
      <4> QED BY <3>1, <3>3, <4>1
    <3> QED BY <3>2, <3>3
  <2>6. ASSUME NEW x \in Ejecutores, ej'[x].pc = "llenar" PROVE Recibido(ej[x].faltan)'
    BY <2>4, <2>5, <2>6 DEF Recibido
  <2> QED BY <2>4, <2>5, <2>6 DEF Fichas
<1>13. CASE Llenar(e)
  <2> DEFINE k == Len(EnFS) + 1 - ej[e].faltan
  <2>1. /\ ej[e].pc = "llenar" /\ ej[e].faltan > 0 /\ metadata_tablas' = Append(metadata_tablas, EnFS[k])
        /\ UNCHANGED <<mutexMetadata, conocidas>>
    BY <1>13 DEF Llenar
  <2>2. /\ ej'[e].pc = "llenar" /\ ej'[e].faltan = ej[e].faltan - 1
        /\ \A x \in Ejecutores : x # e => ej'[x] = ej[x]
    BY <1>1, <1>13 DEF Llenar
  <2>3. mutexMetadata = e /\ Recibido(ej[e].faltan)
    BY <1>2, <2>1
  <2>4. ej[e].faltan \in 0..Len(EnFS) /\ Len(EnFS) \in Nat /\ Len(metadata_tablas) \in Nat
    BY <1>1 DEF Base, TypeOK, LocalesEjecutor
  <2>5. k = Len(metadata_tablas) + 1 /\ k \in 1..Len(EnFS)
    BY <2>1, <2>3, <2>4 DEF Recibido
  <2> HIDE DEF k
  <2>6. /\ metadata_tablas' \in Seq(Tablas) /\ Len(metadata_tablas') = k
        /\ \A i \in DOMAIN metadata_tablas' : metadata_tablas'[i] = EnFS[i]
    <3>1. EnFS[k] \in Tablas
      BY <1>1, <2>5
    <3>2. /\ metadata_tablas' \in Seq(Tablas) /\ Len(metadata_tablas') = k
          /\ DOMAIN metadata_tablas' = 1..k /\ DOMAIN metadata_tablas = 1..Len(metadata_tablas)
          /\ metadata_tablas'[k] = EnFS[k]
          /\ \A i \in 1..Len(metadata_tablas) : metadata_tablas'[i] = metadata_tablas[i]
      BY <1>1, <2>1, <2>4, <2>5, <3>1
    <3> QED BY <2>3, <2>4, <2>5, <3>2 DEF Recibido
  <2>7. LasDeFS'
    <3>1. ASSUME NEW x \in Tablas
          PROVE  Apariciones(metadata_tablas', x) <= Apariciones(EnFS, x)
      BY <1>1, <2>4, <2>5, <2>6, LasApariciones
    <3> QED BY <3>1 DEF LasDeFS
  <2>8. Recibido(ej[e].faltan)'
    BY <2>2, <2>3, <2>4, <2>5, <2>6 DEF Recibido
  <2>9. ASSUME NEW x \in Ejecutores
        PROVE  /\ ej'[x].pc = "llenar" <=> mutexMetadata' = x
               /\ ej'[x].pc = "llenar" => Recibido(ej[x].faltan)'
               /\ ej'[x].pc = "buscando" /\ ej'[x].sabida /\ ej'[x].refresco = "no" => ej'[x].vista
    <3>1. CASE x = e
      BY <2>1, <2>2, <2>3, <2>8, <3>1
    <3>2. CASE x # e
      BY <1>2, <2>1, <2>2, <2>3, <3>2
    <3> QED BY <3>1, <3>2
  <2>10. mutexMetadata' # Nadie
    BY <1>1, <2>1, <2>3
  <2> QED BY <2>7, <2>9, <2>10 DEF Fichas
<1>14. CASE Llena(e)
  <2>1. /\ ej[e].pc = "llenar" /\ ej[e].faltan = 0 /\ mutexMetadata' = Nadie /\ conocidas' = ToSet(EnFS)
        /\ UNCHANGED metadata_tablas /\ ej' = [ej EXCEPT ![e] = Atendido(e)]
    BY <1>14 DEF Llena
  <2>2. ej'[e].pc = "tomar" /\ \A x \in Ejecutores : x # e => ej'[x] = ej[x]
    BY <1>1, <1>4, <2>1
  <2>3. mutexMetadata = e /\ Recibido(0)
    BY <1>2, <2>1
  <2>4. metadata_tablas = EnFS
    BY <1>1, <2>3 DEF Recibido
  <2>5. \A x \in Ejecutores :
          /\ ej'[x].pc # "llenar" /\ mutexMetadata' # x
          /\ ej'[x].pc = "buscando" /\ ej'[x].sabida /\ ej'[x].refresco = "no" => ej'[x].vista
    BY <1>1, <1>2, <2>1, <2>2, <2>3
  <2>6. LasDeFS'
    BY <1>2, <2>1 DEF LasDeFS
  <2> QED BY <2>1, <2>4, <2>5, <2>6 DEF Fichas
<1>15. CASE Terminar(e)
  BY <1>3, <1>4, <1>15 DEF Terminar
<1>16. CASE Devolver(e)
  <2> DEFINE r == [ej[e] EXCEPT !.pc = "enlazar", !.ultimo = UltimoNodo]
  <2>1. ej' = [ej EXCEPT ![e] = r] /\ r.pc = "enlazar" /\ ej[e].pc = "tomar" /\ UNCHANGED tablas
    BY <1>1, <1>16 DEF Devolver, Vuelve
  <2> HIDE DEF r
  <2> QED BY <1>3, <2>1
<1>17. CASE EncolarDeNuevo(e)
  BY <1>3, <1>4, <1>17 DEF EncolarDeNuevo
<1> QED BY <1>5, <1>6, <1>7, <1>9, <1>10, <1>11, <1>12, <1>13, <1>14, <1>15, <1>16, <1>17
        DEF Ejecutar

\* So does every step.
LEMMA FichasPaso == Base /\ Fichas /\ [Next]_vars => Fichas'
<1> SUFFICES ASSUME Base, Fichas, [Next]_vars PROVE Fichas'
  OBVIOUS
<1>1. CASE UNCHANGED vars
  BY <1>1, FichasQuietas DEF vars, tablas, SinFichas
<1>2. ASSUME NEW e \in Ejecutores, Ejecutar(e)
      PROVE  Fichas'
  BY <1>2, FichasEjecutar
<1>3. ASSUME NEW e \in Ejecutores, Lanzar(e)
      PROVE  Fichas'
  <2>1. /\ ej[e].pc = "libre" /\ ej'[e].pc = "tomar"
        /\ \A x \in Ejecutores : x # e => ej'[x] = ej[x]
    <3>1. DOMAIN ej = Ejecutores
      BY DEF Base, TypeOK
    <3>2. [Libre EXCEPT !.pc = "tomar", !.s = Head(queue_listo), !.quantum = Quantum].pc = "tomar"
      BY DEF Libre
    <3> QED BY <1>3, <3>1, <3>2 DEF Lanzar
  <2>2. UNCHANGED tablas
    BY <1>3 DEF Lanzar
  <2> QED BY <2>1, <2>2, FichasQuietas DEF tablas, SinFichas
<1>4. CASE /\ Next /\ ~\E e \in Ejecutores : Ejecutar(e)
           /\ ~\E e \in Ejecutores : Lanzar(e)
  <2>1. UNCHANGED <<tablas, ej>>
    BY <1>4 DEF Next, Consola, Respuestas, HiloGossip, MuerteSegura, MorirEjecutando, AtenderNuevos,
                AtenderListos, Ingresar, Add, JournalEnviar, JournalRecibir, Tomar, Soltar,
                GossipRecibir, GossipTomar, GossipQuitar, MorirSinTabla, MorirAlEncolar, MorirAlSacar,
                MorirSinMemoriasEC, SacarNuevo, CrearEstructura, EncolarNuevo, EsperarListo, EsperarExec
  <2> QED BY <2>1, FichasQuietas DEF tablas, SinFichas
<1> QED BY <1>1, <1>2, <1>3, <1>4

LEMMA FichasInicial == Init => Fichas
<1> SUFFICES ASSUME Init PROVE Fichas
  OBVIOUS
<1>1. /\ EnFS \in Seq(Tablas) /\ metadata_tablas \in Seq(Tablas)
      /\ Len(metadata_tablas) <= Len(EnFS) /\ DOMAIN metadata_tablas = {}
  <2>1. metadata_tablas = <<>> /\ EnFS \in Seq(Tablas)
    BY TablasValidas DEF Init
  <2>2. <<>> \in Seq(Tablas) /\ Len(<<>>) = 0 /\ DOMAIN <<>> = {} /\ Len(EnFS) \in Nat
    BY <2>1
  <2> QED BY <2>1, <2>2
<1>2. ASSUME NEW t \in Tablas
      PROVE  Apariciones(metadata_tablas, t) <= Apariciones(EnFS, t)
  BY <1>1, LasApariciones
<1> QED BY <1>2, NulosValidos DEF Init, Fichas, LasDeFS, ToSet, Libre

LEMMA SiempreFichas == Spec => [](Base /\ Fichas)
BY BaseInicial, BasePaso, FichasInicial, FichasPaso, PTL DEF Spec

\* For any list of tables of the file system, executors and DESCRIBEs, whoever
\* walks the list meanwhile: no table is in metadata_tablas more often than the
\* file system sends it, and none that was brought is missing when nobody fills
\* it (recibirMetadata).
THEOREM MetadataCompleta == Spec => []MetadataEntera
<1>1. Fichas => MetadataEntera
  BY DEF Fichas, LasDeFS, MetadataEntera
<1> QED BY <1>1, SiempreFichas, PTL

\* The reasons that a script may be given up for.
Motivo(e) ==
  LET t == ej[e].p.t IN
  \/ ~ej[e].sabida
  \/ ej[e].pc = "buscando" /\ ej[e].refresco # "no"
  \/ Encuentra(e) /\
       \/ "SHC" \in Consistencia[t]
       \/ /\ "SC" \in Consistencia[t]
          /\ criterio_SC = <<>> \/ criterio_SC[1] \notin tabla_gossiping
       \/ "EC" \in Consistencia[t] /\ ~(ToSet(criterio_EC) \subseteq tabla_gossiping)

LEMMA ConMotivo ==
  ASSUME Base, Fichas, NEW e \in Ejecutores, Ejecutar(e), fin' # fin
  PROVE  /\ fin'[ej[e].s] = "destruido" => Motivo(e)
         /\ \A x \in Ejecutores : x # e => ej'[x] = ej[x]
<1>1. /\ DOMAIN ej = Ejecutores /\ DOMAIN fin = Guiones /\ Nulo \notin Guiones
      /\ criterio_EC \in Seq(Memorias)
      /\ ej[e].s \in Guiones \cup {Nulo} /\ (ej[e].pc = "libre" <=> ej[e].s = Nulo)
      /\ ej[e].pc = "buscando" /\ ej[e].sabida /\ ej[e].refresco = "no" => ej[e].vista
  BY NulosValidos DEF Base, TypeOK, LocalesEjecutor, Local, Fichas
<1>2. CASE SinTabla(e)
  <2>1. ej' = [ej EXCEPT ![e] = Libre]
    BY <1>2 DEF SinTabla, DestruirEjecucion
  <2> QED BY <1>1, <1>2, <2>1 DEF SinTabla, NoEncuentra, Motivo
<1>3. ASSUME NEW m, UsarMemoria(e, m)
      PROVE  /\ m \notin tabla_gossiping /\ ej' = [ej EXCEPT ![e] = Libre]
             /\ \A x \in Ejecutores : x # e => ej'[x] = ej[x]
  BY <1>1, <1>3 DEF UsarMemoria, DestruirEjecucion
<1>4. CASE ElegirSC(e)
  BY <1>3, <1>4 DEF ElegirSC, Encontrada, Motivo
<1>5. CASE ElegirEC(e)
  <2>1. PICK n \in DOMAIN criterio_EC : UsarMemoria(e, criterio_EC[n])
    BY <1>5 DEF ElegirEC
  <2>2. criterio_EC[n] \in ToSet(criterio_EC)
    BY DEF ToSet
  <2> QED BY <1>3, <1>5, <2>1, <2>2 DEF ElegirEC, Encontrada, Motivo
<1>6. CASE ElegirSHC(e)
  <2>1. ej' = [ej EXCEPT ![e] = Libre]
    BY <1>6 DEF ElegirSHC, DestruirEjecucion
  <2> QED BY <1>1, <1>6, <2>1 DEF ElegirSHC, Encontrada, Motivo
<1>7. CASE Terminar(e)
  <2>1. ej[e].s \in Guiones /\ fin'[ej[e].s] = "terminado" /\ ej' = [ej EXCEPT ![e] = Libre]
    BY <1>1, <1>7 DEF Terminar
  <2> QED BY <1>1, <2>1
<1> QED BY <1>2, <1>4, <1>5, <1>6, <1>7
        DEF Ejecutar, TomarPedido, BuscarTabla, Responder, DescribeUna, DescribeTodas, Llenar,
            Llena, Devolver, EncolarDeNuevo

\* For any scripts, tables, criteria and memories: a script is given up only
\* for one of the reasons above (buscarTabla, obtenerMemoria).
THEOREM SoloConMotivo == Spec => AbandonoJustificado
<1>1. ASSUME Base, Fichas, [Next]_vars
      PROVE  [\A e \in Ejecutores :
                fin' # fin /\ ej[e].pc # "libre" /\ ej'[e].pc = "libre" /\ fin'[ej[e].s] = "destruido" => Motivo(e)]_vars
  <2>1. SUFFICES ASSUME NEW e \in Ejecutores, fin' # fin, ej[e].pc # "libre", ej'[e].pc = "libre",
                        fin'[ej[e].s] = "destruido", Next
                 PROVE  Motivo(e)
    BY <1>1 DEF vars
  <2>2. PICK x \in Ejecutores : Ejecutar(x)
    BY <2>1 DEF Next, Consola, Respuestas, HiloGossip, MuerteSegura, MorirEjecutando, AtenderNuevos,
                AtenderListos, Ingresar, Add, JournalEnviar, JournalRecibir, Tomar, Soltar,
                GossipRecibir, GossipTomar, GossipQuitar, MorirSinTabla, MorirAlEncolar, MorirAlSacar,
                MorirSinMemoriasEC, SacarNuevo, CrearEstructura, EncolarNuevo, EsperarListo, EsperarExec,
                Lanzar
  <2> QED BY <1>1, <2>1, <2>2, ConMotivo
<1> QED BY <1>1, SiempreFichas, PTL DEF Spec, AbandonoJustificado, Motivo
=============================================================================
