---------------------------- MODULE GossipProofs ----------------------------
(***************************************************************************)
(* Proofs about the gossip tables, for any memories, seeds, deaths and     *)
(* restarts: their types, SeConoce and NoOlvida.                           *)
(*                                                                         *)
(* SeConoce is not inductive: the table that takes the place of a memory's *)
(* own was made by another, of what that one was sent some time before.    *)
(* Pendientes and Devueltas follow an exchange: from Servir until          *)
(* Reemplazar the mutex of the seed is its client's, so that the table of  *)
(* the seed is still the one it sent, and all of it is in what comes back. *)
(* A death may leave the mutex taken, and so the seed out of every other   *)
(* exchange, but never the exchange half done.  NoOlvida follows, since no *)
(* exchange takes anything away.                                           *)
(***************************************************************************)
EXTENDS GossipProp, Lemas

-----------------------------------------------------------------------------
(* The union of two tables.                                                *)

\* The condition that makes g the list of obtenerUnion after each of the first
\* n memories received.
EsListaHasta(g, n, original, agregada) ==
  g = [i \in 0..n |->
         IF i = 0 THEN original ELSE AgregarSiFalta(g[i - 1], agregada[i])]

\* Its loop does end: each pass makes the next list from the one before.
LEMMA HayLista ==
  ASSUME NEW original, NEW agregada, NEW n \in Nat
  PROVE  \E g : EsListaHasta(g, n, original, agregada)
<1> DEFINE Malos == {m \in Nat : ~\E g : EsListaHasta(g, m, original, agregada)}
<1> SUFFICES ASSUME Malos # {} PROVE FALSE
  OBVIOUS
<1>1. PICK m \in Malos : \A y \in Malos : m <= y
  <2>1. Malos \in SUBSET Nat
    OBVIOUS
  <2> HIDE DEF Malos
  <2> QED BY <2>1, MinimoNatural
<1>2. m # 0
  <2>1. EsListaHasta([i \in 0..0 |-> original], 0, original, agregada)
    BY DEF EsListaHasta
  <2> QED BY <2>1
<1>3. m - 1 \in Nat /\ m - 1 \notin Malos
  BY <1>1, <1>2
<1>4. PICK g : EsListaHasta(g, m - 1, original, agregada)
  BY <1>3
<1> DEFINE h == [i \in 0..m |-> IF i = m THEN AgregarSiFalta(g[m - 1], agregada[m]) ELSE g[i]]
<1>5. \A i \in 0..(m - 1) :
        g[i] = IF i = 0 THEN original ELSE AgregarSiFalta(g[i - 1], agregada[i])
  BY <1>4 DEF EsListaHasta
<1>6. \A i \in 0..m :
        h[i] = IF i = 0 THEN original ELSE AgregarSiFalta(h[i - 1], agregada[i])
  <2> SUFFICES ASSUME NEW i \in 0..m
               PROVE  h[i] = IF i = 0 THEN original ELSE AgregarSiFalta(h[i - 1], agregada[i])
    OBVIOUS
  <2>1. CASE i = m
    <3>1. m - 1 \in 0..m /\ m - 1 # m
      BY <1>3
    <3>2. h[m - 1] = g[m - 1]
      BY <3>1
    <3> QED BY <1>2, <2>1, <3>2
  <2>2. CASE i # m
    <3>1. i \in 0..(m - 1)
      BY <1>3, <2>2
    <3>2. h[i] = g[i]
      BY <2>2
    <3>3. i # 0 => i - 1 \in 0..m /\ i - 1 # m
      BY <3>1, <1>3
    <3>4. i # 0 => h[i - 1] = g[i - 1]
      BY <3>3
    <3> QED BY <1>5, <3>1, <3>2, <3>4
  <2> QED BY <2>1, <2>2
<1>7. EsListaHasta(h, m, original, agregada)
  <2>1. h = [i \in 0..m |-> h[i]]
    OBVIOUS
  <2> HIDE DEF h
  <2> QED BY <1>6, <2>1 DEF EsListaHasta
<1> QED BY <1>7

\* The union has the memories of both tables, and repeats none that its own
\* table did not.
LEMMA UnionBien ==
  ASSUME NEW M, NEW original \in Seq(M), NEW agregada \in Seq(M)
  PROVE  /\ ObtenerUnion(original, agregada) \in Seq(M)
         /\ \A x : Contains(ObtenerUnion(original, agregada), x)
                     <=> Contains(original, x) \/ Contains(agregada, x)
         /\ SinRepetidas(original) => SinRepetidas(ObtenerUnion(original, agregada))
<1> DEFINE L == Len(agregada)
           lista == CHOOSE g : EsListaHasta(g, L, original, agregada)
<1>1. L \in Nat /\ DOMAIN agregada = 1..L /\ \A i \in 1..L : agregada[i] \in M
  OBVIOUS
<1>2. ObtenerUnion(original, agregada) = lista[L]
  BY DEF ObtenerUnion, EsListaHasta
<1>3. EsListaHasta(lista, L, original, agregada)
  BY <1>1, HayLista
<1>4. \A i \in 0..L :
        lista[i] = IF i = 0 THEN original ELSE AgregarSiFalta(lista[i - 1], agregada[i])
  <2> HIDE DEF lista, L
  <2> QED BY <1>3 DEF EsListaHasta
<1> HIDE DEF lista
<1> DEFINE Bien(i) ==
      /\ lista[i] \in Seq(M)
      /\ \A x : Contains(lista[i], x) <=>
                  Contains(original, x) \/ \E k \in 1..i : agregada[k] = x
      /\ SinRepetidas(original) => SinRepetidas(lista[i])
    Malos == {i \in 0..L : ~Bien(i)}
<1>5. \A s \in Seq(M), x \in M :
        /\ AgregarSiFalta(s, x) \in Seq(M)
        /\ \A y : Contains(AgregarSiFalta(s, x), y) <=> Contains(s, y) \/ y = x
        /\ SinRepetidas(s) => SinRepetidas(AgregarSiFalta(s, x))
  <2> SUFFICES ASSUME NEW s \in Seq(M), NEW x \in M
               PROVE  /\ AgregarSiFalta(s, x) \in Seq(M)
                      /\ \A y : Contains(AgregarSiFalta(s, x), y) <=> Contains(s, y) \/ y = x
                      /\ SinRepetidas(s) => SinRepetidas(AgregarSiFalta(s, x))
    OBVIOUS
  <2>1. CASE Contains(s, x)
    BY <2>1 DEF AgregarSiFalta
  <2>2. CASE ~Contains(s, x)
    <3>1. AgregarSiFalta(s, x) = Append(s, x)
      BY <2>2 DEF AgregarSiFalta
    <3>2. /\ Append(s, x) \in Seq(M) /\ Len(s) \in Nat /\ Len(Append(s, x)) = Len(s) + 1
          /\ DOMAIN Append(s, x) = 1..Len(s) + 1 /\ DOMAIN s = 1..Len(s)
          /\ Append(s, x)[Len(s) + 1] = x
          /\ \A i \in 1..Len(s) : Append(s, x)[i] = s[i]
      OBVIOUS
    <3>3. \A y : Contains(Append(s, x), y) <=> Contains(s, y) \/ y = x
      BY <3>2 DEF Contains
    <3>4. SinRepetidas(s) => SinRepetidas(Append(s, x))
      BY <2>2, <3>2 DEF SinRepetidas, Contains
    <3> QED BY <3>1, <3>2, <3>3, <3>4
  <2> QED BY <2>1, <2>2
<1>6. Malos = {}
  <2> SUFFICES ASSUME Malos # {} PROVE FALSE
    OBVIOUS
  <2>1. PICK i \in Malos : \A y \in Malos : i <= y
    <3>1. Malos \in SUBSET Nat
      BY <1>1
    <3> HIDE DEF Malos
    <3> QED BY <3>1, MinimoNatural
  <2>2. i \in 0..L /\ ~Bien(i)
    OBVIOUS
  <2>3. i # 0
    <3>1. 0 \in 0..L
      BY <1>1
    <3>2. lista[0] = original
      BY <1>4, <3>1
    <3>3. \A x : ~\E k \in 1..0 : agregada[k] = x
      OBVIOUS
    <3>4. Bien(0)
      BY <3>2, <3>3
    <3> QED BY <2>2, <3>4
  <2>4. i - 1 \in 0..L /\ i \in 1..L
    BY <1>1, <2>2, <2>3
  <2>5. Bien(i - 1)
    BY <1>1, <2>1, <2>2, <2>4
  <2>6. lista[i] = AgregarSiFalta(lista[i - 1], agregada[i])
    BY <1>4, <2>2, <2>3
  <2>7. agregada[i] \in M
    BY <1>1, <2>4
  <2>8. \A x : (\E k \in 1..i : agregada[k] = x) <=>
               (\E k \in 1..(i - 1) : agregada[k] = x) \/ x = agregada[i]
    <3>1. \A k \in 1..i : k \in 1..(i - 1) \/ k = i
      BY <2>4
    <3>2. i \in 1..i /\ \A k \in 1..(i - 1) : k \in 1..i
      BY <2>4
    <3> QED BY <3>1, <3>2
  <2>9. Bien(i)
    <3>1. lista[i - 1] \in Seq(M)
      BY <2>5
    <3>2. PICK s \in Seq(M) : s = lista[i - 1]
      BY <3>1
    <3>3. /\ lista[i] \in Seq(M)
          /\ \A y : Contains(lista[i], y) <=> Contains(s, y) \/ y = agregada[i]
          /\ SinRepetidas(s) => SinRepetidas(lista[i])
      <4>1. PICK x \in M : x = agregada[i]
        BY <2>7
      <4>2. lista[i] = AgregarSiFalta(s, x)
        BY <2>6, <3>2, <4>1
      <4>3. /\ AgregarSiFalta(s, x) \in Seq(M)
            /\ \A y : Contains(AgregarSiFalta(s, x), y) <=> Contains(s, y) \/ y = x
            /\ SinRepetidas(s) => SinRepetidas(AgregarSiFalta(s, x))
        BY <1>5, Zenon
      <4> QED BY <4>1, <4>2, <4>3
    <3>4. /\ \A x : Contains(s, x) <=>
                      Contains(original, x) \/ \E k \in 1..(i - 1) : agregada[k] = x
          /\ SinRepetidas(original) => SinRepetidas(s)
      BY <2>5, <3>2
    <3>5. \A x : Contains(lista[i], x) <=>
                   Contains(original, x) \/ \E k \in 1..i : agregada[k] = x
      BY <2>8, <3>3, <3>4
    <3> QED BY <3>3, <3>4, <3>5
  <2> QED BY <2>2, <2>9
<1>7. Bien(L)
  BY <1>1, <1>6
<1>8. \A x : Contains(agregada, x) <=> \E k \in 1..L : agregada[k] = x
  BY <1>1 DEF Contains
<1> QED BY <1>2, <1>7, <1>8
-----------------------------------------------------------------------------
(* The exchanges.  Between Servir and Reemplazar nobody else touches the   *)
(* table of the seed: the table that comes back has all of it.             *)

\* What a memory's gossip thread, and a memory that died, keep.
Clientes ==
  \A c \in Memorias :
    /\ cliente[c].pc = "quitar" => EnRonda(c) /\ Semilla(c) # c
    /\ cliente[c].pc = "unir" => cliente[c].recibida \in Tablas
    /\ ~viva[c] => tabla_gossiping[c] = <<>>

\* c has the table of n, and has not sent its own yet.
EnIntercambio(c, n) == cliente[c].pc = "unir" /\ cliente[c].con = n

Pendientes ==
  \A c, n \in Memorias : EnIntercambio(c, n) =>
    /\ viva[n] /\ mutexTablaGossiping[n] = c
    /\ cliente[c].recibida = tabla_gossiping[n]

Devueltas ==
  /\ \A e \in envio :
       /\ viva[e.a] /\ mutexTablaGossiping[e.a] = e.de
       /\ ~EnIntercambio(e.de, e.a)
       /\ \A x : Contains(tabla_gossiping[e.a], x) => Contains(e.tabla, x)
  /\ \A d, e \in envio : d.a = e.a => d = e

Inv == TypeOK /\ Clientes /\ Pendientes /\ Devueltas /\ SeConoce

FichaCliente ==
  [pc : {"seguir", "pedida", "unir", "quitar", "cortada"}, indice : Nat \ {0},
   con : Memorias \cup {Nulo}, recibida : Tablas \cup {Nulo}]

FichaKernel ==
  [pc : {"seguir", "pedida", "quitar", "cortada", "muerto"},
   con : Memorias \cup {Nulo}, tabla : Tablas \ {<<>>}]

LEMMA UnSolo ==
  ASSUME NEW m \in Memorias
  PROVE  /\ <<m>> \in Tablas \ {<<>>} /\ Contains(<<m>>, m) /\ SinRepetidas(<<m>>)
         /\ SinRepetidas(<<>>) /\ <<>> \in Tablas /\ \A x : ~Contains(<<>>, x)
<1>1. <<m>> \in Seq(Memorias) /\ Len(<<m>>) = 1 /\ DOMAIN <<m>> = 1..1 /\ <<m>>[1] = m
      /\ Len(<<>>) = 0 /\ <<>> \in Seq(Memorias) /\ DOMAIN <<>> = {}
  OBVIOUS
<1>2. <<m>> # <<>>
  BY <1>1
<1>3. Contains(<<m>>, m) /\ \A x : ~Contains(<<>>, x)
  BY <1>1 DEF Contains
<1>4. SinRepetidas(<<m>>) /\ SinRepetidas(<<>>)
  BY <1>1 DEF SinRepetidas
<1> QED BY <1>1, <1>2, <1>3, <1>4 DEF Tablas

LEMMA Comienzo ==
  ASSUME NEW i \in Nat \ {0}
  PROVE  /\ ProcesoGossiping(i) \in FichaCliente
         /\ ProcesoGossiping(i).pc = "seguir" /\ ProcesoGossiping(i).con = Nulo
         /\ ProcesoGossiping(i).indice = i
  BY DEF ProcesoGossiping, FichaCliente

LEMMA ComienzosBien ==
  ASSUME NEW m \in Memorias, semillas \in Configuraciones, NEW p \in Comienzos(m)
  PROVE  p \in FichaCliente /\ p.pc = "seguir" /\ p.con = Nulo
<1>1. semillas[m] \in Seq(Memorias)
  BY SemillasValidas
<1>2. \A i \in Posiciones(m) : i \in Nat \ {0}
  BY <1>1 DEF Posiciones
<1> QED BY <1>2, Comienzo DEF Comienzos

LEMMA Inicial == Init => Inv
<1> SUFFICES ASSUME Init PROVE Inv
  OBVIOUS
<1>1. /\ semillas \in Configuraciones
      /\ viva = [m \in Memorias |-> TRUE]
      /\ tabla_gossiping = [m \in Memorias |-> <<m>>]
      /\ mutexTablaGossiping = [m \in Memorias |-> Nadie]
      /\ espera = [m \in Memorias |-> {}]
      /\ envio = {}
      /\ huerfano = [m \in Memorias |-> FALSE]
      /\ kernel = [pc |-> "seguir", con |-> Nulo, tabla |-> <<Principal>>]
      /\ caidas = 0
  BY DEF Init
<1>2. \A m \in Memorias :
        cliente[m] \in FichaCliente /\ cliente[m].pc = "seguir" /\ cliente[m].con = Nulo
  BY <1>1, ComienzosBien DEF Init
<1>3. cliente \in [Memorias -> FichaCliente]
  BY <1>2 DEF Init
<1>4. TypeOK
  <2>1. tabla_gossiping \in [Memorias -> Tablas]
    BY <1>1, UnSolo
  <2>2. kernel \in FichaKernel
    BY <1>1, UnSolo, MemoriasFinitas DEF FichaKernel
  <2> QED BY <1>1, <1>3, <2>1, <2>2, MaxCaidasValido DEF TypeOK, FichaCliente, FichaKernel
<1>5. Clientes /\ Pendientes
  BY <1>1, <1>2 DEF Clientes, Pendientes, EnIntercambio
<1>6. Devueltas
  BY <1>1 DEF Devueltas
<1>7. SeConoce
  BY <1>1, UnSolo, MemoriasFinitas DEF SeConoce
<1> QED BY <1>4, <1>5, <1>6, <1>7 DEF Inv

-----------------------------------------------------------------------------
(* What a step of one gossip thread leaves, when the tables stay as they   *)
(* were: every other thread's exchange, and the tables on their way.       *)

\* The part of TypeOK that is about one gossip thread.
LEMMA FichaDe ==
  ASSUME TypeOK, NEW c \in Memorias
  PROVE  /\ cliente[c] \in FichaCliente
         /\ semillas[c] \in Seq(Memorias)
         /\ tabla_gossiping[c] \in Tablas
         /\ EnRonda(c) => Semilla(c) \in Memorias
<1>1. cliente[c] \in FichaCliente /\ semillas[c] \in Seq(Memorias) /\ tabla_gossiping[c] \in Tablas
  BY SemillasValidas DEF TypeOK, FichaCliente
<1>2. cliente[c].indice \in Nat \ {0}
  BY <1>1 DEF FichaCliente
<1> QED BY <1>1, <1>2 DEF EnRonda, Semilla

\* A step of c's thread alone, that ends in no exchange.
Mueve(c, ficha) ==
  /\ cliente' = [cliente EXCEPT ![c] = ficha]
  /\ ficha \in FichaCliente
  /\ ficha.pc # "unir"
  /\ ficha.pc = "quitar" =>
       /\ ficha.indice <= Len(semillas[c])
       /\ semillas[c][ficha.indice] # c
  /\ semillas' = semillas

LEMMA MueveSolo ==
  ASSUME Inv, NEW c \in Memorias, NEW ficha, Mueve(c, ficha),
         UNCHANGED <<viva, tabla_gossiping, servidor, kernel, caidas>>
  PROVE  Inv'
<1> USE DEF Mueve
<1>1. /\ cliente'[c] = ficha
      /\ \A d \in Memorias \ {c} : cliente'[d] = cliente[d]
      /\ UNCHANGED <<semillas, viva, tabla_gossiping, mutexTablaGossiping, espera, envio,
                     huerfano, kernel, caidas>>
  BY DEF servidor, Inv, TypeOK
<1>2. TypeOK'
  BY <1>1 DEF Inv, TypeOK, FichaCliente
<1>3. Clientes'
  BY <1>1 DEF Inv, Clientes, EnRonda, Semilla
<1>4. \A d, n \in Memorias : EnIntercambio(d, n)' => d # c /\ EnIntercambio(d, n)
  BY <1>1 DEF EnIntercambio
<1>5. Pendientes'
  BY <1>1, <1>4 DEF Inv, Pendientes
<1>6. \A e \in envio : e.de \in Memorias /\ e.a \in Memorias
  BY DEF Inv, TypeOK
<1>7. Devueltas'
  BY <1>1, <1>4, <1>6 DEF Inv, Devueltas
<1>8. SeConoce'
  BY <1>1 DEF Inv, SeConoce
<1> QED BY <1>2, <1>3, <1>5, <1>7, <1>8 DEF Inv

LEMMA ConectarInv ==
  ASSUME Inv, NEW c \in Memorias, Conectar(c)
  PROVE  Inv'
<1> DEFINE ficha == [cliente[c] EXCEPT !.pc = "pedida", !.con = Semilla(c)]
<1>1. cliente[c] \in FichaCliente /\ Semilla(c) \in Memorias
  BY FichaDe DEF Inv, Conectar
<1>2. cliente' = [cliente EXCEPT ![c] = ficha]
  BY DEF Conectar, Inv, TypeOK
<1>3. ficha \in FichaCliente /\ ficha.pc = "pedida"
  BY <1>1 DEF FichaCliente
<1>4. Mueve(c, ficha)
  BY <1>2, <1>3 DEF Mueve, Conectar
<1> QED BY <1>4, MueveSolo DEF Conectar

\* The seed is dead, and the memory is not: it will not remove itself.
LEMMA NoConectarInv ==
  ASSUME Inv, NEW c \in Memorias, NoConectar(c)
  PROVE  Inv'
<1> DEFINE ficha == [cliente[c] EXCEPT !.pc = "quitar"]
<1>1. cliente[c] \in FichaCliente
  BY FichaDe DEF Inv
<1>2. cliente' = [cliente EXCEPT ![c] = ficha]
  BY DEF NoConectar, Inv, TypeOK
<1>3. ficha \in FichaCliente /\ ficha.pc = "quitar" /\ ficha.indice = cliente[c].indice
  BY <1>1 DEF FichaCliente
<1>4. Semilla(c) # c /\ EnRonda(c)
  BY DEF NoConectar
<1>5. Mueve(c, ficha)
  BY <1>2, <1>3, <1>4 DEF Mueve, NoConectar, Semilla, EnRonda
<1> QED BY <1>5, MueveSolo DEF NoConectar

LEMMA RondaInv ==
  ASSUME Inv, NEW c \in Memorias, Ronda(c)
  PROVE  Inv'
<1>1. ProcesoGossiping(1) \in FichaCliente /\ ProcesoGossiping(1).pc = "seguir"
  BY Comienzo
<1>2. Mueve(c, ProcesoGossiping(1))
  BY <1>1 DEF Mueve, Ronda
<1> QED BY <1>2, MueveSolo DEF Ronda

LEMMA SiguienteBien ==
  ASSUME TypeOK, NEW c \in Memorias
  PROVE  /\ Siguiente(c) \in FichaCliente
         /\ Siguiente(c).pc = "seguir" /\ Siguiente(c).con = Nulo
<1>1. cliente[c].indice + 1 \in Nat \ {0}
  BY FichaDe DEF FichaCliente
<1> QED BY <1>1, Comienzo DEF Siguiente

\* With the mutex free, m is in no exchange as the seed, and no table is on its
\* way to it.
LEMMA SinIntercambio ==
  ASSUME Inv, NEW m \in Memorias, mutexTablaGossiping[m] = Nadie
  PROVE  /\ \A c \in Memorias : ~EnIntercambio(c, m)
         /\ \A e \in envio : e.a # m
<1>1. \A c \in Memorias : ~EnIntercambio(c, m)
  BY NulosDistintos DEF Inv, Pendientes
<1>2. \A e \in envio : e.a # m
  BY NulosDistintos DEF Inv, Devueltas, TypeOK
<1> QED BY <1>1, <1>2

LEMMA EliminarInv ==
  ASSUME Inv, NEW c \in Memorias, EliminarMemoria(c)
  PROVE  Inv'
<1> DEFINE t == RemoveFirst(tabla_gossiping[c], Semilla(c))
<1>1. /\ viva[c] /\ cliente[c].pc = "quitar" /\ mutexTablaGossiping[c] = Nadie
      /\ tabla_gossiping' = [tabla_gossiping EXCEPT ![c] = t]
      /\ cliente' = [cliente EXCEPT ![c] = Siguiente(c)]
      /\ UNCHANGED <<semillas, viva, mutexTablaGossiping, espera, envio, huerfano, kernel,
                     caidas>>
  BY DEF EliminarMemoria, servidor
<1>2. Siguiente(c) \in FichaCliente /\ Siguiente(c).pc = "seguir" /\ Siguiente(c).con = Nulo
  BY SiguienteBien DEF Inv
<1>3. tabla_gossiping[c] \in Seq(Memorias)
  BY FichaDe DEF Inv, Tablas
<1>4. Semilla(c) # c
  BY <1>1 DEF Inv, Clientes
<1>5. /\ t \in Tablas
      /\ Contains(t, c)
      /\ SinRepetidas(t)
  <2>1. Contains(tabla_gossiping[c], c) /\ SinRepetidas(tabla_gossiping[c])
    BY <1>1 DEF Inv, SeConoce
  <2>2. PICK s \in Seq(Memorias) : s = tabla_gossiping[c]
    BY <1>3
  <2>3. PICK x : x = Semilla(c)
    OBVIOUS
  <2>4. /\ RemoveFirst(s, x) \in Seq(Memorias)
        /\ \A y : Contains(s, y) /\ y # x => Contains(RemoveFirst(s, x), y)
        /\ SinRepetidas(s) => SinRepetidas(RemoveFirst(s, x))
    BY RemoveFirstProps DEF SinRepetidas
  <2> QED BY <1>4, <2>1, <2>2, <2>3, <2>4 DEF Tablas
<1> HIDE DEF t
<1>6. /\ cliente'[c] = Siguiente(c) /\ tabla_gossiping'[c] = t
      /\ \A d \in Memorias \ {c} : cliente'[d] = cliente[d] /\ tabla_gossiping'[d] = tabla_gossiping[d]
  BY <1>1 DEF Inv, TypeOK
<1>7. (\A d \in Memorias : ~EnIntercambio(d, c)) /\ \A e \in envio : e.a # c
  BY <1>1, SinIntercambio
<1>8. TypeOK'
  BY <1>1, <1>2, <1>5, <1>6 DEF Inv, TypeOK, FichaCliente
<1>9. Clientes'
  BY <1>1, <1>2, <1>6 DEF Inv, Clientes, EnRonda, Semilla
<1>10. \A d, n \in Memorias : EnIntercambio(d, n)' => d # c /\ n # c /\ EnIntercambio(d, n)
  BY <1>2, <1>6, <1>7 DEF EnIntercambio
<1>11. Pendientes'
  BY <1>1, <1>6, <1>10 DEF Inv, Pendientes
<1>12. \A e \in envio : e.de \in Memorias /\ e.a \in Memorias
  BY DEF Inv, TypeOK
<1>13. Devueltas'
  BY <1>1, <1>6, <1>7, <1>10, <1>12 DEF Inv, Devueltas
<1>14. SeConoce'
  BY <1>1, <1>5, <1>6 DEF Inv, SeConoce
<1> QED BY <1>8, <1>9, <1>11, <1>13, <1>14 DEF Inv
\* What c sends back has all that it received, which is all that the seed has.
LEMMA UnirInv ==
  ASSUME Inv, NEW c \in Memorias, Unir(c)
  PROVE  Inv'
<1>1. cliente[c] \in FichaCliente /\ tabla_gossiping[c] \in Seq(Memorias)
      /\ cliente[c].recibida \in Seq(Memorias)
  BY FichaDe DEF Inv, Tablas, Clientes, Unir
<1>2. PICK propia : propia = ObtenerUnion(tabla_gossiping[c], cliente[c].recibida)
  OBVIOUS
<1>3. PICK n : n = cliente[c].con
  OBVIOUS
<1>4. /\ viva[c] /\ cliente[c].pc = "unir" /\ mutexTablaGossiping[c] = Nadie
      /\ tabla_gossiping' = [tabla_gossiping EXCEPT ![c] = propia]
      /\ envio' = envio \cup {[de |-> c, a |-> k, tabla |-> propia] : k \in {n} \ {Nulo}}
      /\ cliente' = [cliente EXCEPT ![c] = Siguiente(c)]
      /\ UNCHANGED <<semillas, viva, mutexTablaGossiping, espera, huerfano, kernel, caidas>>
  BY <1>2, <1>3 DEF Unir
<1>5. /\ propia \in Tablas
      /\ \A x : Contains(tabla_gossiping[c], x) => Contains(propia, x)
      /\ \A x : Contains(cliente[c].recibida, x) => Contains(propia, x)
      /\ SinRepetidas(tabla_gossiping[c]) => SinRepetidas(propia)
  <2>1. PICK s \in Seq(Memorias), r \in Seq(Memorias) :
          s = tabla_gossiping[c] /\ r = cliente[c].recibida
    BY <1>1
  <2> QED BY <1>2, <2>1, UnionBien DEF Tablas
<1>6. Siguiente(c) \in FichaCliente /\ Siguiente(c).pc = "seguir" /\ Siguiente(c).con = Nulo
  BY SiguienteBien DEF Inv
<1>7. /\ cliente'[c] = Siguiente(c) /\ tabla_gossiping'[c] = propia
      /\ \A d \in Memorias \ {c} : cliente'[d] = cliente[d] /\ tabla_gossiping'[d] = tabla_gossiping[d]
  BY <1>4 DEF Inv, TypeOK
<1>8. (\A d \in Memorias : ~EnIntercambio(d, c)) /\ \A e \in envio : e.a # c
  BY <1>4, SinIntercambio
<1>9. \A e \in envio' : \/ e \in envio
                        \/ /\ n \in Memorias /\ e.de = c /\ e.a = n /\ e.tabla = propia
                           /\ e = [de |-> c, a |-> n, tabla |-> propia]
  BY <1>1, <1>3, <1>4 DEF FichaCliente
<1>10. n \in Memorias => /\ viva[n] /\ mutexTablaGossiping[n] = c /\ n # c
                         /\ cliente[c].recibida = tabla_gossiping[n]
  BY <1>3, <1>4, <1>8 DEF Inv, Pendientes, EnIntercambio
<1>11. TypeOK'
  <2>1. envio' \subseteq [de : Memorias, a : Memorias, tabla : Tablas]
    BY <1>5, <1>9 DEF Inv, TypeOK
  <2>2. cliente' \in [Memorias -> FichaCliente]
    BY <1>4, <1>6 DEF Inv, TypeOK, FichaCliente
  <2>3. tabla_gossiping' \in [Memorias -> Tablas]
    BY <1>4, <1>5 DEF Inv, TypeOK
  <2> QED BY <1>4, <2>1, <2>2, <2>3 DEF Inv, TypeOK, FichaCliente
<1>12. Clientes'
  BY <1>4, <1>6, <1>7 DEF Inv, Clientes, EnRonda, Semilla
<1>13. \A d, k \in Memorias : EnIntercambio(d, k)' => d # c /\ k # c /\ EnIntercambio(d, k)
  BY <1>6, <1>7, <1>8 DEF EnIntercambio
<1>14. Pendientes'
  BY <1>4, <1>7, <1>13 DEF Inv, Pendientes
<1>15. \A e \in envio : e.de \in Memorias /\ e.a \in Memorias
  BY DEF Inv, TypeOK
<1>16. \A e \in envio : ~(n \in Memorias /\ e.a = n)
  <2> SUFFICES ASSUME NEW e \in envio, n \in Memorias, e.a = n PROVE FALSE
    OBVIOUS
  <2>1. mutexTablaGossiping[e.a] = e.de /\ ~EnIntercambio(e.de, e.a)
    BY DEF Inv, Devueltas
  <2>2. e.de = c
    BY <1>10, <2>1
  <2>3. EnIntercambio(c, n)
    BY <1>3, <1>4 DEF EnIntercambio
  <2> QED BY <2>1, <2>2, <2>3
<1>17. Devueltas'
  <2>1. ASSUME NEW e \in envio'
        PROVE  /\ viva'[e.a] /\ mutexTablaGossiping'[e.a] = e.de
               /\ ~EnIntercambio(e.de, e.a)'
               /\ \A x : Contains(tabla_gossiping'[e.a], x) => Contains(e.tabla, x)
    <3>1. CASE e \in envio
      <4>1. e.a # c /\ tabla_gossiping'[e.a] = tabla_gossiping[e.a]
        BY <1>7, <1>8, <1>15, <3>1
      <4> QED BY <1>4, <1>13, <1>15, <3>1, <4>1 DEF Inv, Devueltas
    <3>2. CASE n \in Memorias /\ e.de = c /\ e.a = n /\ e.tabla = propia
      <4>1. tabla_gossiping'[n] = tabla_gossiping[n]
        BY <1>7, <1>10, <3>2
      <4>2. ~EnIntercambio(c, n)'
        BY <1>13, <3>2
      <4> QED BY <1>4, <1>5, <1>10, <3>2, <4>1, <4>2
    <3> QED BY <1>9, <3>1, <3>2
  <2>2. \A d, e \in envio' : d.a = e.a => d = e
    BY <1>9, <1>16 DEF Inv, Devueltas
  <2> QED BY <2>1, <2>2 DEF Devueltas
<1>18. SeConoce'
  BY <1>4, <1>5, <1>7, <1>9 DEF Inv, SeConoce
<1> QED BY <1>11, <1>12, <1>14, <1>17, <1>18 DEF Inv

\* The seed's table is c's, and its mutex.
LEMMA ServirInv ==
  ASSUME Inv, NEW n \in Memorias, NEW c \in Memorias, Servir(n, c)
  PROVE  Inv'
<1> DEFINE ficha == [cliente[c] EXCEPT !.pc = "unir", !.recibida = tabla_gossiping[n]]
<1>1. cliente[c] \in FichaCliente /\ tabla_gossiping[n] \in Tablas
  BY FichaDe DEF Inv
<1>2. /\ viva[n] /\ mutexTablaGossiping[n] = Nadie
      /\ cliente[c].pc = "pedida" /\ cliente[c].con = n
      /\ mutexTablaGossiping' = [mutexTablaGossiping EXCEPT ![n] = c]
      /\ espera' = [espera EXCEPT ![n] = @ \cup {c}]
      /\ cliente' = [cliente EXCEPT ![c] = ficha]
      /\ UNCHANGED <<semillas, viva, tabla_gossiping, envio, huerfano, kernel, caidas>>
  BY DEF Servir, Inv, TypeOK
<1>3. /\ ficha \in FichaCliente /\ ficha.pc = "unir" /\ ficha.con = n
      /\ ficha.recibida = tabla_gossiping[n]
  BY <1>1, <1>2 DEF FichaCliente
<1> HIDE DEF ficha
<1>4. /\ cliente'[c] = ficha /\ mutexTablaGossiping'[n] = c
      /\ \A d \in Memorias \ {c} : cliente'[d] = cliente[d]
      /\ \A k \in Memorias \ {n} : mutexTablaGossiping'[k] = mutexTablaGossiping[k]
  BY <1>2 DEF Inv, TypeOK
<1>5. (\A d \in Memorias : ~EnIntercambio(d, n)) /\ \A e \in envio : e.a # n
  BY <1>2, SinIntercambio
<1>6. TypeOK'
  <2>1. cliente' \in [Memorias -> FichaCliente]
    BY <1>2, <1>3 DEF Inv, TypeOK, FichaCliente
  <2>2. espera' \in [Memorias -> SUBSET Memorias]
    BY <1>2 DEF Inv, TypeOK
  <2>3. mutexTablaGossiping' \in [Memorias -> Memorias \cup {Nadie}]
    BY <1>2 DEF Inv, TypeOK
  <2> QED BY <1>2, <2>1, <2>2, <2>3 DEF Inv, TypeOK, FichaCliente
<1>7. Clientes'
  BY <1>1, <1>2, <1>3, <1>4 DEF Inv, Clientes, EnRonda, Semilla
<1>8. \A d, k \in Memorias : EnIntercambio(d, k)' =>
        (d = c /\ k = n) \/ (d # c /\ k # n /\ EnIntercambio(d, k))
  BY <1>3, <1>4, <1>5 DEF EnIntercambio
<1>9. Pendientes'
  BY <1>2, <1>3, <1>4, <1>8 DEF Inv, Pendientes
<1>10. \A e \in envio : e.de \in Memorias /\ e.a \in Memorias
  BY DEF Inv, TypeOK
<1>11. Devueltas'
  BY <1>2, <1>4, <1>5, <1>8, <1>10 DEF Inv, Devueltas
<1>12. SeConoce'
  BY <1>2 DEF Inv, SeConoce
<1> QED BY <1>6, <1>7, <1>9, <1>11, <1>12 DEF Inv

\* The table that comes back takes the place of one that is part of it.
LEMMA ReemplazarInv ==
  ASSUME Inv, NEW n \in Memorias, NEW e \in envio, Reemplazar(n, e)
  PROVE  Inv'
<1> DEFINE t == IF e.tabla = <<>> THEN tabla_gossiping[n] ELSE e.tabla
<1>1. /\ viva[n] /\ e.a = n
      /\ tabla_gossiping' = [tabla_gossiping EXCEPT ![n] = t]
      /\ mutexTablaGossiping' = [mutexTablaGossiping EXCEPT ![n] = Nadie]
      /\ espera' = [espera EXCEPT ![n] = espera[n] \ {e.de}]
      /\ envio' = envio \ {e}
      /\ UNCHANGED <<semillas, viva, huerfano, cliente, kernel, caidas>>
  BY DEF Reemplazar
<1>2. tabla_gossiping[n] \in Tablas /\ e.tabla \in Tablas /\ e.de \in Memorias
  BY FichaDe DEF Inv, TypeOK
<1>3. /\ t \in Tablas /\ SinRepetidas(t) /\ Contains(t, n)
      /\ \A x : Contains(tabla_gossiping[n], x) => Contains(t, x)
  BY <1>1, <1>2 DEF Inv, SeConoce, Devueltas
<1> HIDE DEF t
<1>4. /\ tabla_gossiping'[n] = t
      /\ \A k \in Memorias \ {n} : /\ tabla_gossiping'[k] = tabla_gossiping[k]
                                   /\ mutexTablaGossiping'[k] = mutexTablaGossiping[k]
  BY <1>1 DEF Inv, TypeOK
<1>5. \A d \in Memorias : ~EnIntercambio(d, n)
  <2> SUFFICES ASSUME NEW d \in Memorias, EnIntercambio(d, n) PROVE FALSE
    OBVIOUS
  <2>1. mutexTablaGossiping[n] = d
    BY DEF Inv, Pendientes
  <2>2. mutexTablaGossiping[n] = e.de /\ ~EnIntercambio(e.de, n)
    BY <1>1 DEF Inv, Devueltas
  <2> QED BY <2>1, <2>2
<1>6. \A d \in envio' : d \in envio /\ d.a # n
  BY <1>1 DEF Inv, Devueltas
<1>7. TypeOK'
  BY <1>1, <1>3 DEF Inv, TypeOK
<1>8. Clientes'
  BY <1>1, <1>4 DEF Inv, Clientes, EnRonda, Semilla
<1>9. \A d, k \in Memorias : EnIntercambio(d, k)' => k # n /\ EnIntercambio(d, k)
  BY <1>1, <1>5 DEF EnIntercambio
<1>10. Pendientes'
  BY <1>1, <1>4, <1>9 DEF Inv, Pendientes
<1>11. \A d \in envio : d.de \in Memorias /\ d.a \in Memorias
  BY DEF Inv, TypeOK
<1>12. Devueltas'
  BY <1>1, <1>4, <1>6, <1>9, <1>11 DEF Inv, Devueltas
<1>13. SeConoce'
  BY <1>1, <1>3, <1>4, <1>6 DEF Inv, SeConoce
<1> QED BY <1>7, <1>8, <1>10, <1>12, <1>13 DEF Inv

-----------------------------------------------------------------------------
(* The kernel, deaths and restarts.                                        *)

\* A step that changes only the kernel.
LEMMA SoloKernel ==
  ASSUME Inv, UNCHANGED <<semillas, viva, tabla_gossiping, servidor, cliente, caidas>>,
         kernel' \in FichaKernel, SinRepetidas(kernel'.tabla)
  PROVE  Inv'
<1>1. UNCHANGED <<semillas, viva, tabla_gossiping, mutexTablaGossiping, espera, envio,
                  huerfano, cliente, caidas>>
  BY DEF servidor
<1>2. TypeOK'
  BY <1>1 DEF Inv, TypeOK, FichaKernel
<1>3. Clientes' /\ Pendientes' /\ Devueltas'
  BY <1>1 DEF Inv, Clientes, Pendientes, Devueltas, EnIntercambio, EnRonda, Semilla
<1>4. SeConoce'
  BY <1>1 DEF Inv, SeConoce
<1> QED BY <1>2, <1>3, <1>4 DEF Inv

LEMMA KernelInv ==
  ASSUME Inv, Kernel \/ \E n \in Memorias : ServirKernel(n)
  PROVE  Inv'
<1>1. kernel \in FichaKernel /\ SinRepetidas(kernel.tabla)
  BY DEF Inv, TypeOK, FichaKernel, SeConoce
<1>2. /\ kernel.tabla \in Seq(Memorias) /\ kernel.tabla # <<>>
      /\ DOMAIN kernel = {"pc", "con", "tabla"}
  BY <1>1 DEF FichaKernel, Tablas
<1>3. CASE KernelConectar
  <2>1. Head(kernel.tabla) \in Memorias
    BY <1>2
  <2>2. kernel' \in FichaKernel /\ kernel'.tabla = kernel.tabla
    BY <1>1, <1>3, <2>1 DEF KernelConectar, FichaKernel
  <2> QED BY <1>1, <1>3, <2>2, SoloKernel DEF KernelConectar
<1>4. CASE KernelNoConectar
  <2>1. kernel' \in FichaKernel /\ kernel'.tabla = kernel.tabla
    BY <1>1, <1>4 DEF KernelNoConectar, FichaKernel
  <2> QED BY <1>1, <1>4, <2>1, SoloKernel DEF KernelNoConectar
<1>5. CASE KernelEliminar
  <2>1. PICK s \in Seq(Memorias) : s = kernel.tabla
    BY <1>2
  <2>2. PICK r : r = RemoveFirst(s, Principal)
    OBVIOUS
  <2>3. /\ r \in Seq(Memorias) /\ Len(r) >= Len(s) - 1
        /\ SinRepetidas(s) => SinRepetidas(r)
    BY <2>2, RemoveFirstProps DEF SinRepetidas
  <2>4. Len(s) > 1 => r # <<>>
    <3>1. Len(<<>>) = 0 /\ Len(s) \in Nat
      OBVIOUS
    <3> QED BY <2>3, <3>1
  <2>5. PICK q : q = IF Len(s) > 1 THEN r ELSE s
    OBVIOUS
  <2>6. q \in Tablas \ {<<>>} /\ SinRepetidas(q)
    BY <1>1, <1>2, <2>1, <2>3, <2>4, <2>5 DEF Tablas
  <2>7. kernel' = [kernel EXCEPT !.pc = "seguir", !.tabla = q]
    BY <1>5, <2>1, <2>2, <2>5 DEF KernelEliminar
  <2>8. kernel' \in FichaKernel /\ kernel'.tabla = q
    BY <1>1, <2>6, <2>7 DEF FichaKernel
  <2> QED BY <1>5, <2>6, <2>8, SoloKernel DEF KernelEliminar
<1>6. CASE KernelMorir
  <2>1. kernel' \in FichaKernel /\ kernel'.tabla = kernel.tabla
    BY <1>1, <1>6 DEF KernelMorir, FichaKernel
  <2> QED BY <1>1, <1>6, <2>1, SoloKernel DEF KernelMorir
<1>7. ASSUME NEW n \in Memorias, ServirKernel(n) PROVE Inv'
  <2>1. /\ tabla_gossiping[n] \in Tablas /\ SinRepetidas(tabla_gossiping[n])
        /\ Contains(tabla_gossiping[n], n)
    BY <1>7, FichaDe DEF Inv, SeConoce, ServirKernel
  <2>2. tabla_gossiping[n] # <<>>
    BY <2>1, UnSolo
  <2>3. kernel' \in FichaKernel /\ kernel'.tabla = tabla_gossiping[n]
    BY <1>7, <2>1, <2>2 DEF ServirKernel, FichaKernel
  <2> QED BY <1>7, <2>1, <2>3, SoloKernel DEF ServirKernel
<1> QED BY <1>3, <1>4, <1>5, <1>6, <1>7 DEF Kernel

\* A memory that dies takes with it the exchanges in which it was the seed.
LEMMA MuereInv ==
  ASSUME Inv, NEW m \in Memorias, Muere(m), caidas' \in 0..MaxCaidas
  PROVE  Inv'
<1>1. /\ viva' = [viva EXCEPT ![m] = FALSE]
      /\ tabla_gossiping' = [tabla_gossiping EXCEPT ![m] = <<>>]
      /\ mutexTablaGossiping' = [mutexTablaGossiping EXCEPT ![m] = Nadie]
      /\ envio' = {e \in envio : e.a # m}
      /\ semillas' = semillas
  BY DEF Muere
<1>2. /\ viva'[m] = FALSE /\ tabla_gossiping'[m] = <<>>
      /\ \A n \in Memorias \ {m} : /\ viva'[n] = viva[n]
                                   /\ tabla_gossiping'[n] = tabla_gossiping[n]
                                   /\ mutexTablaGossiping'[n] = mutexTablaGossiping[n]
  BY <1>1 DEF Inv, TypeOK
<1>3. \A c \in Memorias : TrasCorte(c) \in FichaCliente /\ TrasCorte(c).con = Nulo
        /\ TrasCorte(c).indice = cliente[c].indice
        /\ TrasCorte(c).recibida = cliente[c].recibida
        /\ (TrasCorte(c).pc = cliente[c].pc \/ TrasCorte(c).pc = "cortada")
  <2> SUFFICES ASSUME NEW c \in Memorias
               PROVE  /\ TrasCorte(c) \in FichaCliente /\ TrasCorte(c).con = Nulo
                      /\ TrasCorte(c).indice = cliente[c].indice
                      /\ TrasCorte(c).recibida = cliente[c].recibida
                      /\ (TrasCorte(c).pc = cliente[c].pc \/ TrasCorte(c).pc = "cortada")
    OBVIOUS
  <2>1. cliente[c] \in FichaCliente
    BY FichaDe DEF Inv
  <2> QED BY <2>1 DEF TrasCorte, FichaCliente
<1>4. ProcesoGossiping(1) \in FichaCliente /\ ProcesoGossiping(1).pc = "seguir"
      /\ ProcesoGossiping(1).con = Nulo
  BY Comienzo
<1>5. /\ cliente'[m] = ProcesoGossiping(1)
      /\ \A c \in Memorias \ {m} :
           \/ cliente[c].con = m /\ cliente'[c] = TrasCorte(c)
           \/ cliente[c].con # m /\ cliente'[c] = cliente[c]
      /\ DOMAIN cliente' = Memorias
      /\ cliente' = [c \in Memorias |-> cliente'[c]]
  BY DEF Muere
<1> HIDE DEF Muere
<1>6. cliente' \in [Memorias -> FichaCliente]
  <2>1. \A c \in Memorias : cliente'[c] \in FichaCliente
    BY <1>3, <1>4, <1>5, FichaDe DEF Inv
  <2> QED BY <1>5, <2>1
<1>7. TypeOK'
  <2>1. espera' \in [Memorias -> SUBSET Memorias]
    BY DEF Muere, Inv, TypeOK
  <2>2. huerfano' \in [Memorias -> BOOLEAN]
    BY DEF Muere, Inv, TypeOK
  <2>3. kernel' \in FichaKernel
    <3>1. kernel \in FichaKernel
      BY DEF Inv, TypeOK, FichaKernel
    <3> QED BY <3>1 DEF Muere, FichaKernel
  <2>4. tabla_gossiping' \in [Memorias -> Tablas]
    BY <1>1, UnSolo DEF Inv, TypeOK
  <2> QED BY <1>1, <1>6, <2>1, <2>2, <2>3, <2>4 DEF Inv, TypeOK, FichaCliente, FichaKernel
<1>8. Clientes'
  <2> SUFFICES ASSUME NEW c \in Memorias
               PROVE  /\ cliente'[c].pc = "quitar" =>
                           /\ cliente'[c].indice <= Len(semillas[c])
                           /\ semillas[c][cliente'[c].indice] # c
                      /\ cliente'[c].pc = "unir" => cliente'[c].recibida \in Tablas
                      /\ ~viva'[c] => tabla_gossiping'[c] = <<>>
    BY <1>1 DEF Clientes, EnRonda, Semilla
  <2>1. c # m => /\ cliente'[c].indice = cliente[c].indice
                 /\ cliente'[c].recibida = cliente[c].recibida
                 /\ cliente'[c].pc \in {cliente[c].pc, "cortada"}
    BY <1>3, <1>5
  <2> QED BY <1>2, <1>4, <1>5, <2>1 DEF Inv, Clientes, EnRonda, Semilla
<1>9. \A c, n \in Memorias : EnIntercambio(c, n)' =>
        /\ EnIntercambio(c, n) /\ n # m /\ cliente'[c] = cliente[c]
  BY <1>3, <1>4, <1>5, NulosDistintos DEF EnIntercambio
<1>10. Pendientes'
  BY <1>2, <1>9 DEF Inv, Pendientes
<1>11. \A e \in envio : e.de \in Memorias /\ e.a \in Memorias
  BY DEF Inv, TypeOK
<1>12. Devueltas'
  BY <1>1, <1>2, <1>9, <1>11 DEF Inv, Devueltas
<1>13. SeConoce'
  <2>1. SinRepetidas(kernel'.tabla)
    <3>1. kernel \in FichaKernel /\ SinRepetidas(kernel.tabla)
      BY DEF Inv, TypeOK, FichaKernel, SeConoce
    <3>2. kernel'.tabla = kernel.tabla
      BY <3>1 DEF Muere, FichaKernel
    <3> QED BY <3>1, <3>2
  <2> QED BY <1>1, <1>2, <2>1, UnSolo DEF Inv, SeConoce
<1> QED BY <1>7, <1>8, <1>10, <1>12, <1>13 DEF Inv

LEMMA ReiniciarInv ==
  ASSUME Inv, NEW m \in Memorias, Reiniciar(m)
  PROVE  Inv'
<1>1. PICK p \in Comienzos(m) : cliente' = [cliente EXCEPT ![m] = p]
  BY DEF Reiniciar
<1>2. p \in FichaCliente /\ p.pc = "seguir" /\ p.con = Nulo
  BY ComienzosBien DEF Inv, TypeOK
<1>3. /\ ~viva[m]
      /\ viva' = [viva EXCEPT ![m] = TRUE]
      /\ tabla_gossiping' = [tabla_gossiping EXCEPT ![m] = <<m>>]
      /\ UNCHANGED <<semillas, mutexTablaGossiping, espera, envio, huerfano, kernel, caidas>>
  BY DEF Reiniciar, servidor
<1>4. /\ viva'[m] = TRUE /\ tabla_gossiping'[m] = <<m>> /\ cliente'[m] = p
      /\ \A n \in Memorias \ {m} : /\ viva'[n] = viva[n] /\ cliente'[n] = cliente[n]
                                   /\ tabla_gossiping'[n] = tabla_gossiping[n]
  BY <1>1, <1>3 DEF Inv, TypeOK
<1>5. TypeOK'
  <2>1. cliente' \in [Memorias -> FichaCliente]
    BY <1>1, <1>2 DEF Inv, TypeOK, FichaCliente
  <2>2. tabla_gossiping' \in [Memorias -> Tablas]
    BY <1>3, UnSolo DEF Inv, TypeOK
  <2> QED BY <1>3, <2>1, <2>2 DEF Inv, TypeOK, FichaCliente
<1>6. Clientes'
  BY <1>2, <1>3, <1>4 DEF Inv, Clientes, EnRonda, Semilla
<1>7. \A c, n \in Memorias : EnIntercambio(c, n)' => c # m /\ n # m /\ EnIntercambio(c, n)
  <2>1. \A c, n \in Memorias : EnIntercambio(c, n)' => c # m /\ EnIntercambio(c, n)
    BY <1>2, <1>4 DEF EnIntercambio
  <2> QED BY <1>3, <2>1 DEF Inv, Pendientes
<1>8. Pendientes'
  BY <1>3, <1>4, <1>7 DEF Inv, Pendientes
<1>9. \A e \in envio : e.de \in Memorias /\ e.a \in Memorias
  BY DEF Inv, TypeOK
<1>10. \A e \in envio : e.a # m
  BY <1>3 DEF Inv, Devueltas
<1>11. Devueltas'
  BY <1>3, <1>4, <1>7, <1>9, <1>10 DEF Inv, Devueltas
<1>12. SeConoce'
  BY <1>3, <1>4, UnSolo DEF Inv, SeConoce
<1> QED BY <1>5, <1>6, <1>8, <1>11, <1>12 DEF Inv

LEMMA PasoInv == Inv /\ [Next]_vars => Inv'
<1> SUFFICES ASSUME Inv, [Next]_vars PROVE Inv'
  OBVIOUS
<1>1. ASSUME NEW c \in Memorias, Cliente(c) PROVE Inv'
  BY <1>1, ConectarInv, NoConectarInv, EliminarInv, UnirInv, RondaInv DEF Cliente
<1>2. ASSUME NEW n \in Memorias, Atender(n) PROVE Inv'
  BY <1>2, ServirInv, ReemplazarInv, KernelInv DEF Atender
<1>3. ASSUME NEW m \in Memorias, Apagar(m) PROVE Inv'
  <2>1. caidas' \in 0..MaxCaidas
    BY <1>3, MaxCaidasValido DEF Apagar, Inv, TypeOK
  <2> QED BY <1>3, <2>1, MuereInv DEF Apagar
<1>4. ASSUME NEW m \in Memorias, MorirSinTabla(m) PROVE Inv'
  <2>1. caidas' \in 0..MaxCaidas
    BY <1>4 DEF MorirSinTabla, Inv, TypeOK
  <2> QED BY <1>4, <2>1, MuereInv DEF MorirSinTabla
<1>5. ASSUME NEW m \in Memorias, Reiniciar(m) PROVE Inv'
  BY <1>5, ReiniciarInv
<1>6. CASE Kernel
  BY <1>6, KernelInv
<1>7. CASE UNCHANGED vars
  BY <1>7 DEF vars, servidor, Inv, TypeOK, Clientes, Pendientes, Devueltas, SeConoce,
              EnIntercambio, EnRonda, Semilla
<1> QED BY <1>1, <1>2, <1>3, <1>4, <1>5, <1>6, <1>7 DEF Next

LEMMA Siempre == Spec => []Inv
  BY Inicial, PasoInv, PTL DEF Spec

\* The variables of the gossip have their types, for any memories and seeds:
\* the kernel's table is never empty, and no index goes past the seeds.
THEOREM TiposGossip == Spec => []TypeOK
<1>1. Inv => TypeOK
  BY DEF Inv
<1> QED BY <1>1, Siempre, PTL

\* A living memory is in its own table, and no table has a memory twice, for
\* any memories, any seeds and any number of deaths and restarts.
THEOREM CadaUnaSeConoce == Spec => []SeConoce
<1>1. Inv => SeConoce
  BY DEF Inv
<1> QED BY <1>1, Siempre, PTL

-----------------------------------------------------------------------------
(* What a memory may forget.                                               *)

\* The step of NoOlvida.
Olvido ==
  \A m, x \in Memorias :
    Contains(tabla_gossiping[m], x) /\ ~Contains(tabla_gossiping'[m], x) =>
      \/ ~viva'[m]
      \/ cliente[m].pc = "quitar" /\ x = Semilla(m)

LEMMA NadieOlvida == Inv /\ [Next]_vars => Olvido
<1> SUFFICES ASSUME Inv, [Next]_vars, NEW m \in Memorias, NEW x \in Memorias,
                    Contains(tabla_gossiping[m], x), ~Contains(tabla_gossiping'[m], x),
                    viva'[m]
             PROVE  cliente[m].pc = "quitar" /\ x = Semilla(m)
  BY DEF Olvido
<1>0. tabla_gossiping'[m] # tabla_gossiping[m]
  OBVIOUS
<1>1. ASSUME NEW c \in Memorias, EliminarMemoria(c)
      PROVE  cliente[m].pc = "quitar" /\ x = Semilla(m)
  <2>1. c = m
    BY <1>0, <1>1 DEF EliminarMemoria, Inv, TypeOK
  <2>2. tabla_gossiping'[m] = RemoveFirst(tabla_gossiping[m], Semilla(m))
    BY <1>1, <2>1 DEF EliminarMemoria, Inv, TypeOK
  <2>3. PICK s \in Seq(Memorias) : s = tabla_gossiping[m]
    BY FichaDe DEF Inv, Tablas
  <2>5. PICK y : y = Semilla(m)
    OBVIOUS
  <2>4. Contains(s, x) /\ x # y => Contains(RemoveFirst(s, y), x)
    BY RemoveFirstProps
  <2> QED BY <1>1, <2>1, <2>2, <2>3, <2>4, <2>5 DEF EliminarMemoria
<1>2. ASSUME NEW c \in Memorias, Unir(c) PROVE FALSE
  <2>1. c = m
    BY <1>0, <1>2 DEF Unir, Inv, TypeOK
  <2>2. tabla_gossiping'[m] = ObtenerUnion(tabla_gossiping[m], cliente[m].recibida)
    BY <1>2, <2>1 DEF Unir, Inv, TypeOK
  <2>3. PICK s \in Seq(Memorias), r \in Seq(Memorias) :
          s = tabla_gossiping[m] /\ r = cliente[m].recibida
    BY <1>2, <2>1, FichaDe DEF Inv, Tablas, Clientes, Unir
  <2> QED BY <2>2, <2>3, UnionBien
<1>3. ASSUME NEW n \in Memorias, NEW e \in envio, Reemplazar(n, e) PROVE FALSE
  <2>1. n = m
    BY <1>0, <1>3 DEF Reemplazar, Inv, TypeOK
  <2>2. tabla_gossiping'[m] \in {tabla_gossiping[m], e.tabla} /\ e.a = m
    BY <1>3, <2>1 DEF Reemplazar, Inv, TypeOK
  <2> QED BY <1>0, <2>2 DEF Inv, Devueltas
<1>4. ASSUME NEW k \in Memorias, Muere(k) PROVE FALSE
  BY <1>0, <1>4 DEF Muere, Inv, TypeOK
<1>5. ASSUME NEW k \in Memorias, Reiniciar(k) PROVE FALSE
  <2>1. k = m
    BY <1>0, <1>5 DEF Reiniciar, Inv, TypeOK
  <2>2. tabla_gossiping[m] = <<>>
    BY <1>5, <2>1 DEF Reiniciar, Inv, Clientes
  <2> QED BY <2>2, UnSolo
<1>6. ASSUME NEW c \in Memorias, Cliente(c)
      PROVE  cliente[m].pc = "quitar" /\ x = Semilla(m)
  BY <1>0, <1>1, <1>2, <1>6 DEF Cliente, Conectar, NoConectar, Ronda
<1>7. ASSUME NEW n \in Memorias, Atender(n) PROVE FALSE
  BY <1>0, <1>3, <1>7 DEF Atender, Servir, ServirKernel
<1>8. CASE Kernel
  BY <1>0, <1>8 DEF Kernel, KernelConectar, KernelNoConectar, KernelEliminar, KernelMorir
<1>9. CASE UNCHANGED vars
  BY <1>0, <1>9 DEF vars
<1> QED BY <1>4, <1>5, <1>6, <1>7, <1>8, <1>9 DEF Next, Apagar, MorirSinTabla

\* No exchange makes a memory forget another, for any memories and seeds,
\* though the table it has is thrown away for one that another memory made.
THEOREM NingunIntercambioOlvida == Spec => NoOlvida
<1>1. Inv /\ [Next]_vars => [Olvido]_vars
  BY NadieOlvida
<1> QED BY <1>1, Siempre, PTL DEF Spec, NoOlvida, Olvido
=============================================================================
