-------------------------- MODULE LFSDatosProofs --------------------------
(***************************************************************************)
(* What becomes of the records, for any tables, threads, kills and         *)
(* restarts.                                                               *)
(*                                                                         *)
(* A partition has one record per key (Bines): a compaction writes a list  *)
(* without repeated keys into partitions it has just made, and no other    *)
(* thread of the table is at work.                                         *)
(*                                                                         *)
(* What was answered with INSERT_R is not lost (Resguardo).  Its table is  *)
(* in the list since (Listadas); the .tmp files of the table are numbered  *)
(* from 0 without gaps, but while a compaction renames them, so that a     *)
(* dump never makes one that is there (Numeradas); and so a record as new  *)
(* is either in the memtable and yet to be dumped, or in the file the dump *)
(* is at, or Firme: in a .tmp that is written, in partitions that are not  *)
(* about to be deleted, or in the hands of the one compaction at work,     *)
(* which has still to write it (Cubierto).                                 *)
(*                                                                         *)
(* A SELECT that nothing crosses finds the files and lists it asks for     *)
(* (Lectores): the mutex it is let through by says that no compaction of   *)
(* the table is at work, and the table has its partitions (ConPartes).     *)
(* Then what was covered when it was let through is in what it has seen or *)
(* in what it has yet to read (Halla).                                     *)
(***************************************************************************)
EXTENDS LFSProofs

-----------------------------------------------------------------------------
(* One record per key in a partition. *)

Distintas(s) == \A i, j \in DOMAIN s : s[i].key = s[j].key => i = j

\* insertarRegistroEnLaLista keeps one record per key.
LEMMA InsertarDistintas ==
  ASSUME NEW lista \in Seq(Registros), NEW r \in Registros, Distintas(lista)
  PROVE  Distintas(InsertarRegistro(lista, r))
<1> DEFINE I == {i \in 1..Len(lista) : lista[i].key = r.key}
           i == SelectInSeq(lista, LAMBDA q : q.key = r.key)
<1>1. Len(lista) \in Nat /\ DOMAIN lista = 1..Len(lista)
  BY LenProperties
<1>2. CASE I = {}
  <2>1. i = 0
    BY <1>2 DEF SelectInSeq
  <2> HIDE DEF i
  <2>2. InsertarRegistro(lista, r) = Append(lista, r)
    BY <2>1 DEF InsertarRegistro, i
  <2>3. \A x \in 1..Len(lista) : lista[x].key # r.key
    BY <1>2
  <2>4. PICK f : f = Append(lista, r)
    OBVIOUS
  <2>5. /\ DOMAIN f = 1..(Len(lista) + 1) /\ f[Len(lista) + 1] = r
        /\ \A x \in 1..Len(lista) : f[x] = lista[x]
    BY <2>4
  <2>6. Distintas(f)
    BY <1>1, <2>3, <2>5 DEF Distintas
  <2> QED BY <2>2, <2>4, <2>6
<1>3. CASE I # {}
  <2>1. i = Min(I)
    BY <1>3 DEF SelectInSeq
  <2>2. I \in SUBSET (1..Len(lista))
    OBVIOUS
  <2>3. Min(I) \in I
    <3> HIDE DEF I
    <3> QED BY <1>1, <1>3, <2>2, PrimeraPosicion
  <2>4. i \in 1..Len(lista) /\ lista[i].key = r.key
    BY <2>1, <2>3
  <2> HIDE DEF i, I
  <2>5. PICK x : x = IF lista[i].timestamp > r.timestamp THEN lista[i] ELSE r
    OBVIOUS
  <2>6. InsertarRegistro(lista, r) = Append(RemoveAt(lista, i), x) /\ x.key = r.key
    <3>1. i # 0
      BY <2>4
    <3> QED BY <2>4, <2>5, <3>1 DEF InsertarRegistro, i
  <2>7. PICK q : q = RemoveAt(lista, i)
    OBVIOUS
  <2>8. /\ q \in Seq(Registros) /\ Len(q) = Len(lista) - 1
        /\ \A n \in 1..Len(lista) - 1 : q[n] = IF n < i THEN lista[n] ELSE lista[n + 1]
    BY <2>4, <2>7, RemoveAtProps
  <2>9. ASSUME NEW n \in 1..Len(q), NEW m \in 1..Len(q)
        PROVE  /\ q[n].key = q[m].key => n = m
               /\ q[n].key # r.key
    <3>1. PICK a \in 1..Len(lista) : a = (IF n < i THEN n ELSE n + 1) /\ q[n] = lista[a] /\ a # i
      BY <1>1, <2>4, <2>8
    <3>2. PICK b \in 1..Len(lista) : b = (IF m < i THEN m ELSE m + 1) /\ q[m] = lista[b]
      BY <1>1, <2>4, <2>8
    <3>3. a = b => n = m
      BY <2>4, <3>1, <3>2
    <3>4. lista[a].key = lista[b].key => a = b
      BY <1>1 DEF Distintas
    <3>5. lista[a].key # lista[i].key
      BY <1>1, <2>4, <3>1 DEF Distintas
    <3> QED BY <2>4, <3>1, <3>2, <3>3, <3>4, <3>5
  <2>10. PICK f : f = Append(q, x)
    OBVIOUS
  <2>11. /\ DOMAIN f = 1..(Len(q) + 1) /\ f[Len(q) + 1] = x
         /\ \A n \in 1..Len(q) : f[n] = q[n]
    BY <2>8, <2>10
  <2>12. Len(q) \in Nat
    BY <2>8, LenProperties
  <2>13. Distintas(f)
    BY <2>6, <2>9, <2>11, <2>12 DEF Distintas
  <2> QED BY <2>6, <2>7, <2>10, <2>13
<1> QED BY <1>2, <1>3

LEMMA LevantarDistintas ==
  ASSUME NEW claves \in Seq(Registros), NEW s \in Seq(Registros), Distintas(claves)
  PROVE  Distintas(Levantar(claves, s))
<1>1. Len(s) \in Nat
  BY LenProperties
<1>2. PICK g : /\ g[0] = claves /\ g[Len(s)] = Levantar(claves, s)
               /\ \A i \in 1..Len(s) : g[i] = InsertarRegistro(g[i-1], s[i])
  BY PasosDeLevantar
<1> DEFINE Bien(n) == g[n] \in Seq(Registros) /\ Distintas(g[n])
           Malos == {n \in 0..Len(s) : ~Bien(n)}
<1>3. SUFFICES ASSUME Malos # {} PROVE FALSE
  BY <1>1, <1>2
<1>4. PICK n \in Malos : \A y \in Malos : n <= y
  <2>1. Malos \in SUBSET Nat
    BY <1>1
  <2> HIDE DEF Malos
  <2> QED BY <1>3, <2>1, MinimoNatural
<1>5. n \in 1..Len(s) /\ n-1 \in 0..Len(s) /\ ~(n <= n-1)
  BY <1>1, <1>2, <1>4
<1>6. Bien(n-1)
  BY <1>4, <1>5
<1>7. PICK q \in Seq(Registros) : q = g[n-1] /\ Distintas(q)
  BY <1>6
<1>8. PICK r \in Registros : r = s[n]
  BY <1>5
<1>9. InsertarRegistro(q, r) \in Seq(Registros) /\ Distintas(InsertarRegistro(q, r))
  BY <1>7, InsertarTipo, InsertarDistintas
<1>10. Bien(n)
  BY <1>2, <1>5, <1>7, <1>8, <1>9
<1> QED BY <1>4, <1>10

\* The compaction e has written the keys it has gone past, and no other.
Escritas(e) ==
  comp[e].pc \in {"escribir", "guardar"} =>
    \A p \in Existentes(bin[comp[e].t]) : \A x \in DOMAIN bin[comp[e].t][p] :
      \E i \in 1..Len(comp[e].claves) :
        /\ i <= comp[e].j /\ (comp[e].pc = "escribir" => i # comp[e].j)
        /\ comp[e].claves[i].key = bin[comp[e].t][p][x].key

BinBien(t) ==
  \A p \in Existentes(bin[t]) :
    Distintas(bin[t][p]) /\ \A i \in DOMAIN bin[t][p] : Particion(bin[t][p][i].key) = p

Bines ==
  /\ Tipado
  /\ \A e \in Entradas : Distintas(comp[e].claves)
  /\ \A e \in Entradas : comp[e].t \notin solapadas => Escritas(e)
  /\ \A t \in Tablas \ solapadas : BinBien(t)

LEMMA BinesPropiedad == Bines => BinesSinRepetidos
BY DEF Bines, BinesSinRepetidos, BinBien, Distintas

LEMMA NingunaClave ==
  ASSUME NEW D \in SUBSET Tablas, NEW q, q = HilosDe(SetToSeq(D)), NEW e \in Entradas
  PROVE  q[e].claves = <<>> /\ q[e].pc \in {"nace", "fin"}
BY DEF HilosDe, Hilo

LEMMA BinesInit == Init => Bines
<1> SUFFICES ASSUME Init PROVE Bines
  OBVIOUS
<1>1. Tipado
  BY InitTipado
<1>2. \A e \in Entradas : comp[e].claves = <<>> /\ comp[e].pc \in {"nace", "fin"}
  <2>1. EnDisco \in SUBSET Tablas /\ comp = HilosDe(SetToSeq(EnDisco))
    BY ConstantesValidas DEF Init
  <2> QED BY <2>1, NingunaClave
<1>3. ASSUME NEW t \in Tablas PROVE BinBien(t)
  BY <1>3 DEF Init, BinBien, Distintas, Existentes
<1> QED BY <1>1, <1>2, <1>3 DEF Bines, Distintas, Escritas

\* A table once marked stays so.
LEMMA SolapadasCrece ==
  ASSUME Tipado, [Next]_vars
  PROVE  solapadas \subseteq solapadas'
<1>1. ASSUME Muerte PROVE solapadas \subseteq solapadas'
  BY <1>1 DEF Muerte, Caer
<1>2. ASSUME NEW h \in Clientes, Pedido(h) PROVE solapadas \subseteq solapadas'
  BY <1>2, CambiosPedido DEF Drop
<1>3. ASSUME NEW h \in Clientes, Atender(h) PROVE solapadas \subseteq solapadas'
  BY <1>1, <1>3, CambiosAtender DEF Anotar
<1>4. ASSUME Dump PROVE solapadas \subseteq solapadas'
  BY <1>1, <1>4, CambiosDump DEF Contar
<1>5. ASSUME NEW e \in Entradas, Compactacion(e) PROVE solapadas \subseteq solapadas'
  BY <1>1, <1>5, CambiosComp DEF Tomar
<1>6. ASSUME Apagar PROVE solapadas \subseteq solapadas'
  BY <1>1, <1>6 DEF Apagar, Muerte
<1>7. ASSUME Reiniciar \/ UNCHANGED vars PROVE solapadas \subseteq solapadas'
  BY <1>7 DEF Reiniciar, vars, historia
<1> QED BY <1>2, <1>3, <1>4, <1>5, <1>6, <1>7 DEF Next

\* Nothing that matters to the partitions of t has changed.
LEMMA BinIgual ==
  ASSUME NEW t, bin'[t] = bin[t], BinBien(t)
  PROVE  BinBien(t)'
BY DEF BinBien

LEMMA EscritasIgual ==
  ASSUME NEW e \in Entradas, comp'[e] = comp[e], bin'[comp[e].t] = bin[comp[e].t], Escritas(e)
  PROVE  Escritas(e)'
BY DEF Escritas

\* Files made anew, or deleted, have nothing.
LEMMA BinVacio ==
  ASSUME NEW t, \A p \in Existentes(bin'[t]) : bin'[t][p] = <<>>
  PROVE  BinBien(t)' /\ \A e \in Entradas : comp'[e].t = t => Escritas(e)'
BY DEF BinBien, Distintas, Escritas

\* The steps of a compaction that touch neither the keys it has nor what it has
\* written, and those at the ends of that.
LEMMA BinesComp ==
  ASSUME Bines, NEW e \in Entradas, Compactacion(e), ~Muerte, NEW t \in Tablas, t = comp[e].t,
         t \notin solapadas
  PROVE  Escritas(e)' /\ BinBien(t)'
<1>0. /\ DOMAIN comp = Entradas /\ DOMAIN comp[e] = CamposHilo /\ comp[e] \in TComp
      /\ comp'[e].t = t /\ DOMAIN bin = Tablas /\ bin[t] \in [NumerosBin -> Archivo]
  BY CompOtros DEF Bines, Tipado, TipoComp, TipoBin, Inv, Tipos
<1>1. BinBien(t) /\ Escritas(e) /\ Distintas(comp[e].claves)
  BY DEF Bines
<1>2. CASE Nacer(e) \/ CompDespertar(e) \/ Tomar(e) \/ Renombrar(e) \/ LevantarClaves(e)
           \/ BorrarTmpc(e) \/ Soltar(e) \/ CompMuere(e)
  <2>1. UNCHANGED bin /\ comp'[e].pc \notin {"escribir", "guardar"}
    <3>1. ~CompMuere(e)
      BY DEF CompMuere, Muerte, Morir
    <3>2. CASE Nacer(e)
      BY <1>0, <3>2 DEF Nacer, Muerte, Morir, disco, CamposHilo
    <3>3. CASE CompDespertar(e) \/ Tomar(e)
      BY <1>0, <3>3 DEF CompDespertar, Tomar, disco, Avanza, CamposHilo
    <3>4. CASE Renombrar(e)
      BY <1>0, <3>4 DEF Renombrar, EnComp, CamposHilo
    <3>5. CASE LevantarClaves(e) \/ BorrarTmpc(e)
      BY <1>0, <3>5 DEF LevantarClaves, BorrarTmpc, disco, Avanza, CamposHilo
    <3>6. CASE Soltar(e)
      BY <1>0, <3>6 DEF Soltar, disco, CamposHilo
    <3> QED BY <1>2, <3>1, <3>2, <3>3, <3>4, <3>5, <3>6
  <2>2. BinBien(t)'
    BY <1>1, <2>1, BinIgual
  <2> QED BY <2>1, <2>2 DEF Escritas
<1>3. CASE BorrarBin(e) \/ CrearBin(e)
  <2>1. \A p \in Existentes(bin'[t]) : bin'[t][p] = <<>>
    BY <1>0, <1>3 DEF BorrarBin, CrearBin, Existentes
  <2> QED BY <1>0, <2>1, BinVacio
<1>4. CASE EscribirBin(e)
  <2>1. PICK r \in Registros, p \in NumerosBin, s \in Seq(Registros) :
           /\ comp[e].j \in 1..Len(comp[e].claves) /\ r = comp[e].claves[comp[e].j]
           /\ p = Particion(r.key) /\ comp[e].t \in Tablas
           /\ s = bin[comp[e].t][p]
           /\ bin' = [bin EXCEPT ![comp[e].t][p] = Append(s, r)]
    BY <1>4, EscribirBinBien DEF Bines
  <2>2. comp[e].pc = "escribir" /\ comp'[e].pc = "guardar" /\ comp'[e].claves = comp[e].claves
        /\ comp'[e].j = comp[e].j
    BY <1>0, <1>4 DEF EscribirBin, EnComp, Avanza, CamposHilo
  <2>3. PICK f : f = Append(s, r)
    OBVIOUS
  <2>4. /\ DOMAIN s = 1..Len(s) /\ Len(s) \in Nat
        /\ DOMAIN f = 1..(Len(s) + 1) /\ f[Len(s) + 1] = r
        /\ \A x \in 1..Len(s) : f[x] = s[x]
    BY <2>3
  <2>5. bin'[t][p] = f /\ \A q \in NumerosBin : q # p => bin'[t][q] = bin[t][q]
    BY <1>0, <2>1, <2>3
  <2>6. p \in Existentes(bin[t])
    <3>1. s # NoExiste
      BY Constantes
    <3> QED BY <1>0, <2>1, <3>1 DEF Existentes
  <2>7. DOMAIN bin'[t] = NumerosBin
    BY <1>0, <2>1
  <2>8. ASSUME NEW q \in Existentes(bin'[t]), NEW x \in DOMAIN bin'[t][q]
        PROVE  \/ q = p /\ x = Len(s) + 1 /\ bin'[t][q][x] = r
               \/ q \in Existentes(bin[t]) /\ x \in DOMAIN bin[t][q] /\ bin'[t][q][x] = bin[t][q][x]
    <3>1. CASE q = p
      <4>1. x \in 1..(Len(s) + 1) /\ bin'[t][q] = f
        BY <2>4, <2>5, <2>8, <3>1
      <4>2. CASE x = Len(s) + 1
        BY <2>4, <3>1, <4>1, <4>2
      <4>3. CASE x \in 1..Len(s)
        BY <2>1, <2>4, <2>6, <3>1, <4>1, <4>3
      <4> QED BY <2>4, <4>1, <4>2, <4>3
    <3>2. CASE q # p
      <4>1. q \in NumerosBin /\ bin'[t][q] = bin[t][q] /\ bin[t][q] # NoExiste
        BY <2>5, <2>7, <2>8, <3>2 DEF Existentes
      <4> QED BY <1>0, <2>8, <4>1 DEF Existentes
    <3> QED BY <3>1, <3>2
  <2>9. ASSUME NEW q \in Existentes(bin[t]), NEW x \in DOMAIN bin[t][q]
        PROVE  bin[t][q][x].key # r.key
    <3>1. PICK i \in 1..Len(comp[e].claves) :
            i # comp[e].j /\ comp[e].claves[i].key = bin[t][q][x].key
      BY <1>1, <2>2 DEF Escritas
    <3>2. DOMAIN comp[e].claves = 1..Len(comp[e].claves)
      BY <1>0 DEF TComp, THilo
    <3> QED BY <1>1, <2>1, <3>1, <3>2 DEF Distintas
  <2>10. ASSUME NEW q \in Existentes(bin'[t]) PROVE Distintas(bin'[t][q])
    <3>1. CASE q = p
      <4>1. \A i \in 1..Len(s) : s[i].key # r.key
        <5>1. s = bin[t][p]
          BY <2>1
        <5>2. ASSUME NEW i \in 1..Len(s) PROVE bin[t][p][i].key # r.key
          BY <2>4, <2>6, <2>9, <5>1
        <5> QED BY <5>1, <5>2
      <4>2. Distintas(s)
        BY <1>1, <2>1, <2>6 DEF BinBien
      <4> QED BY <2>4, <2>5, <3>1, <4>1, <4>2 DEF Distintas
    <3>2. CASE q # p
      BY <1>0, <1>1, <2>5, <2>7, <3>2 DEF BinBien, Existentes
    <3> QED BY <3>1, <3>2
  <2>11. ASSUME NEW q \in Existentes(bin'[t]), NEW x \in DOMAIN bin'[t][q]
         PROVE  Particion(bin'[t][q][x].key) = q
    <3>1. CASE q = p /\ bin'[t][q][x] = r
      BY <2>1, <3>1
    <3>2. CASE q \in Existentes(bin[t]) /\ x \in DOMAIN bin[t][q] /\ bin'[t][q][x] = bin[t][q][x]
      BY <1>1, <3>2 DEF BinBien
    <3> QED BY <2>8, <2>11, <3>1, <3>2
  <2>12. ASSUME NEW q \in Existentes(bin'[t]), NEW x \in DOMAIN bin'[t][q]
         PROVE  \E i \in 1..Len(comp[e].claves) :
                  i <= comp[e].j /\ comp[e].claves[i].key = bin'[t][q][x].key
    <3>1. CASE bin'[t][q][x] = r
      <4>1. comp[e].j <= comp[e].j
        BY <1>0 DEF TComp, THilo
      <4> QED BY <2>1, <3>1, <4>1
    <3>2. CASE q \in Existentes(bin[t]) /\ x \in DOMAIN bin[t][q] /\ bin'[t][q][x] = bin[t][q][x]
      BY <1>1, <2>2, <3>2 DEF Escritas
    <3> QED BY <2>8, <2>12, <3>1, <3>2
  <2>13. BinBien(t)'
    BY <2>10, <2>11 DEF BinBien
  <2> QED BY <1>0, <2>2, <2>12, <2>13 DEF Escritas
<1>5. CASE GuardarBin(e)
  <2>1. /\ UNCHANGED bin /\ comp[e].pc = "guardar" /\ comp'[e].pc = "escribir"
        /\ comp'[e].claves = comp[e].claves /\ comp'[e].j = comp[e].j + 1 /\ comp[e].j \in Nat
    BY <1>0, <1>5 DEF GuardarBin, EnComp, disco, CamposHilo, TComp, THilo
  <2>2. BinBien(t)'
    BY <1>1, <2>1, BinIgual
  <2>3. \A i \in 1..Len(comp[e].claves) : i <= comp[e].j => i <= comp[e].j + 1 /\ i # comp[e].j + 1
    BY <2>1
  <2> QED BY <1>0, <1>1, <2>1, <2>2, <2>3 DEF Escritas
<1> QED BY <1>2, <1>3, <1>4, <1>5 DEF Compactacion

LEMMA BinesPaso == Bines /\ [Next]_vars => Bines'
<1> SUFFICES ASSUME Bines, [Next]_vars PROVE Bines'
  OBVIOUS
<1>0. Tipado /\ Tipado' /\ solapadas \subseteq solapadas'
  BY PasoTipado, SolapadasCrece DEF Bines
<1>a. DOMAIN comp = Entradas /\ DOMAIN bin = Tablas /\ \A e \in Entradas : DOMAIN comp[e] = CamposHilo
  BY <1>0 DEF Tipado, TipoComp, TipoBin, Inv, Tipos
<1>1. CASE UNCHANGED <<bin, comp>>
  BY <1>0, <1>1 DEF Bines, BinBien, Escritas
<1>2. ASSUME NEW h \in Clientes, Pedido(h) PROVE Bines'
  BY <1>1, <1>2, CambiosPedido
<1>3. ASSUME NEW h \in Clientes, Atender(h) PROVE Bines'
  <2>1. CASE BorrarArchivos(h) \/ CrearParticiones(h)
    <3> DEFINE t == cl[h].t
    <3>1. UNCHANGED comp /\ \A u \in Tablas : u # t => bin'[u] = bin[u]
      BY <1>a, <2>1 DEF BorrarArchivos, CrearParticiones
    <3>2. t \in Tablas => \A p \in Existentes(bin'[t]) : bin'[t][p] = <<>>
      BY <1>a, <2>1 DEF BorrarArchivos, CrearParticiones, Existentes
    <3>3. ASSUME NEW u \in Tablas \ solapadas' PROVE BinBien(u)'
      <4>1. u \notin solapadas /\ BinBien(u)
        BY <1>0, <3>3 DEF Bines
      <4>2. CASE u = t
        BY <3>2, <4>2, BinVacio
      <4>3. CASE u # t
        BY <3>1, <4>1, <4>3, BinIgual
      <4> QED BY <4>2, <4>3
    <3>4. ASSUME NEW e \in Entradas, comp'[e].t \notin solapadas' PROVE Escritas(e)'
      <4>1. Escritas(e) /\ comp'[e] = comp[e]
        BY <1>0, <3>1, <3>4 DEF Bines
      <4>2. CASE comp[e].t = t /\ t \in Tablas
        BY <3>2, <4>1, <4>2, BinVacio
      <4>3. CASE comp[e].t # t \/ t \notin Tablas
        <5>1. bin'[comp[e].t] = bin[comp[e].t] \/ comp[e].pc = "fin"
          BY <1>0, <3>1, <4>3 DEF Tipado, TipoComp, TComp
        <5>2. comp[e].pc = "fin" => Escritas(e)'
          BY <4>1 DEF Escritas
        <5> QED BY <4>1, <5>1, <5>2, EscritasIgual
      <4> QED BY <4>2, <4>3
    <3> QED BY <1>0, <3>1, <3>3, <3>4 DEF Bines
  <2>2. CASE Anotar(h)
    <3>1. PICK e : UNCHANGED bin /\ comp' = [comp EXCEPT ![e] = Hilo("nace", cl[h].t)]
      BY <2>2, EntradaNueva DEF Anotar, disco
    <3>2. ASSUME NEW f \in Entradas
          PROVE  Distintas(comp'[f].claves) /\ (comp'[f].t \notin solapadas' => Escritas(f)')
      <4>1. CASE f = e
        BY <1>a, <3>1, <4>1 DEF Hilo, Distintas, Escritas
      <4>2. CASE f # e
        BY <1>0, <1>a, <3>1, <4>2, EscritasIgual DEF Bines
      <4> QED BY <4>1, <4>2
    <3> QED BY <1>0, <3>1, <3>2 DEF Bines, BinBien
  <2>3. CASE UNCHANGED <<bin, comp>>
    BY <1>1, <2>3
  <2>4. CASE Muerte
    BY <1>1, <2>4 DEF Muerte, Caer, disco
  <2> QED BY <1>3, <2>1, <2>2, <2>3, <2>4, CambiosAtender
<1>4. CASE Dump
  BY <1>1, <1>4, CambiosDump DEF Muerte, Caer, disco
<1>5. ASSUME NEW e \in Entradas, Compactacion(e) PROVE Bines'
  <2>1. CASE Muerte
    BY <1>1, <2>1 DEF Muerte, Caer, disco
  <2>2. CASE ~Muerte
    <3>0. PICK t : t = comp[e].t
      OBVIOUS
    <3>1. /\ \A f \in Entradas : f # e => comp'[f] = comp[f]
          /\ comp'[e].t = t
      BY <1>0, <1>5, <3>0, CompOtros
    <3>2. \A u \in Tablas : u # t => bin'[u] = bin[u]
      <4>1. UNCHANGED bin \/ BorrarBin(e) \/ CrearBin(e) \/ EscribirBin(e)
        BY <1>5, <2>2, CambiosComp
      <4> QED BY <1>a, <3>0, <4>1 DEF BorrarBin, CrearBin, EscribirBin
    <3>3. ASSUME t \in Tablas, t \notin solapadas PROVE Escritas(e)' /\ BinBien(t)'
      BY <1>5, <2>2, <3>0, <3>3, BinesComp
    <3>4. ASSUME NEW u \in Tablas \ solapadas' PROVE BinBien(u)'
      <4>1. u \notin solapadas /\ BinBien(u)
        BY <1>0, <3>4 DEF Bines
      <4>2. CASE u = t
        BY <3>3, <3>4, <4>1, <4>2
      <4>3. CASE u # t
        BY <3>2, <3>4, <4>1, <4>3, BinIgual
      <4> QED BY <4>2, <4>3
    <3>5. ASSUME NEW f \in Entradas, comp'[f].t \notin solapadas' PROVE Escritas(f)'
      <4>1. comp[f].t \notin solapadas /\ Escritas(f)
        BY <1>0, <3>0, <3>1, <3>5 DEF Bines
      <4>2. CASE comp'[f].pc \notin {"escribir", "guardar"}
        BY <4>2 DEF Escritas
      <4>3. CASE comp'[f].pc \in {"escribir", "guardar"}
        <5>1. comp'[f].t \in Tablas
          BY <1>0, <4>3 DEF Tipado, TipoComp, TComp
        <5>2. CASE f = e
          BY <3>0, <3>1, <3>3, <4>1, <5>1, <5>2
        <5>3. CASE f # e
          <6>1. comp'[f] = comp[f]
            BY <3>1, <5>3
          <6>2. CASE comp[f].t # t
            BY <3>2, <4>1, <5>1, <6>1, <6>2, EscritasIgual
          <6>3. CASE comp[f].t = t
            <7>1. Trabaja(f)
              BY <4>3, <6>1 DEF Trabaja, Quietos
            <7>2. ~Trabaja(e)
              BY <1>0, <3>0, <4>1, <5>3, <6>3, <7>1 DEF Tipado, Inv, HilosBien, HiloBien
            <7>3. UNCHANGED bin
              <8>1. UNCHANGED bin \/ BorrarBin(e) \/ CrearBin(e) \/ EscribirBin(e)
                BY <1>5, <2>2, CambiosComp
              <8> QED BY <7>2, <8>1 DEF BorrarBin, CrearBin, EscribirBin, EnComp, Trabaja, Quietos
            <7> QED BY <4>1, <6>1, <7>3, EscritasIgual
          <6> QED BY <6>2, <6>3
        <5> QED BY <5>2, <5>3
      <4> QED BY <4>2, <4>3
    <3>6. ASSUME NEW f \in Entradas PROVE Distintas(comp'[f].claves)
      <4>1. Distintas(comp[f].claves)
        BY DEF Bines
      <4>2. CASE comp'[f].claves = comp[f].claves
        BY <4>1, <4>2
      <4>3. CASE f = e /\ Soltar(e)
        BY <1>a, <4>3 DEF Soltar, CamposHilo, Distintas
      <4>4. CASE f = e /\ LevantarClaves(e)
        <5>1. comp[e].claves \in Seq(Registros) /\ comp[e].t \in Tablas
          BY <1>0, <4>4 DEF LevantarClaves, EnComp, Tipado, TipoComp, TComp, THilo
        <5>2. PICK s \in Contenidos(tmpc[comp[e].t]), b \in Contenidos(bin[comp[e].t]) :
                comp' = [comp EXCEPT ![e].pc = "borrarTmpc",
                                     ![e].claves = Levantar(comp[e].claves, s \o b)]
          BY <4>4 DEF LevantarClaves
        <5>3. s \o b \in Seq(Registros)
          BY <1>0, <5>1, LeidosTipo
        <5>4. PICK q : q = s \o b
          OBVIOUS
        <5>5. PICK c : c = comp[e].claves
          OBVIOUS
        <5>6. Distintas(Levantar(c, q))
          BY <4>1, <4>4, <5>1, <5>3, <5>4, <5>5, LevantarDistintas
        <5>7. comp'[e].claves = Levantar(c, q)
          BY <1>a, <5>2, <5>4, <5>5 DEF CamposHilo
        <5> QED BY <4>4, <5>6, <5>7
      <4>5. CASE f = e /\ ~LevantarClaves(e) /\ ~Soltar(e)
        <5>1. comp'[e].claves = comp[e].claves
          <6>1. ~CompMuere(e)
            BY <2>2 DEF CompMuere, Muerte, Morir
          <6>2. CASE Nacer(e)
            BY <1>a, <2>2, <6>2 DEF Nacer, Muerte, Morir, CamposHilo
          <6>3. CASE CompDespertar(e) \/ Tomar(e)
            BY <1>a, <6>3 DEF CompDespertar, Tomar, Avanza, CamposHilo
          <6>4. CASE Renombrar(e)
            BY <1>a, <6>4 DEF Renombrar, CamposHilo
          <6>5. CASE BorrarTmpc(e) \/ BorrarBin(e) \/ CrearBin(e)
            BY <1>a, <6>5 DEF BorrarTmpc, BorrarBin, CrearBin, Avanza, CamposHilo
          <6>6. CASE EscribirBin(e)
            BY <1>a, <6>6 DEF EscribirBin, Avanza, CamposHilo
          <6>7. CASE GuardarBin(e)
            BY <1>a, <6>7 DEF GuardarBin, CamposHilo
          <6> QED BY <1>5, <4>5, <6>1, <6>2, <6>3, <6>4, <6>5, <6>6, <6>7 DEF Compactacion
        <5> QED BY <4>2, <4>5, <5>1
      <4> QED BY <3>1, <4>2, <4>3, <4>4, <4>5
    <3> QED BY <1>0, <3>4, <3>5, <3>6 DEF Bines
  <2> QED BY <2>1, <2>2
<1>6. CASE Apagar
  BY <1>1, <1>6 DEF Apagar, Caer, disco
<1>7. CASE Reiniciar
  <2>1. directorios \in SUBSET Tablas /\ UNCHANGED <<bin, solapadas>>
        /\ comp' = HilosDe(SetToSeq(directorios))
    BY <1>0, <1>7 DEF Reiniciar, disco, Tipado, Inv, ClientesBien
  <2>2. \A e \in Entradas : comp'[e].claves = <<>> /\ comp'[e].pc \in {"nace", "fin"}
    BY <2>1, NingunaClave
  <2> QED BY <1>0, <2>1, <2>2 DEF Bines, BinBien, Distintas, Escritas
<1> QED BY <1>1, <1>2, <1>3, <1>4, <1>5, <1>6, <1>7 DEF Next, vars, disco

\* A partition has one record per key, of the keys that are its own, however
\* compactions, CREATEs and restarts interleave (compactar, with
\* insertarRegistroEnLaLista), while its table is not dropped and no list_add cuts
\* its entry off the list.
THEOREM UnRegistroPorClave == Spec => []BinesSinRepetidos
<1>1. Init => Bines
  BY BinesInit
<1>2. Bines /\ [Next]_vars => Bines'
  BY BinesPaso
<1>3. Bines => BinesSinRepetidos
  BY BinesPropiedad
<1> QED BY <1>1, <1>2, <1>3, PTL DEF Spec

-----------------------------------------------------------------------------
(* Nothing is lost. *)

Cubre(r, q) == r.key = q.key /\ r.timestamp >= q.timestamp

LEMMA CubreSiempre == \A q \in Registros : q.timestamp \in Nat /\ Cubre(q, q)
BY Constantes DEF Registros, Cubre

LEMMA CubreSigue ==
  ASSUME NEW a \in Registros, NEW b \in Registros, NEW c \in Registros, Cubre(a, b), Cubre(b, c)
  PROVE  Cubre(a, c)
BY Constantes DEF Registros, Cubre

LEMMA DetrasDe ==
  ASSUME NEW T, NEW s \in Seq(T), NEW r \in T
  PROVE  Append(s, r) \in Seq(T) /\ ToSet(Append(s, r)) = ToSet(s) \cup {r}
<1>1. PICK f : f = Append(s, r)
  OBVIOUS
<1>2. /\ f \in Seq(T) /\ Len(s) \in Nat /\ DOMAIN s = 1..Len(s)
      /\ DOMAIN f = 1..(Len(s) + 1) /\ f[Len(s) + 1] = r
      /\ \A i \in 1..Len(s) : f[i] = s[i]
  BY <1>1
<1>3. ASSUME NEW x PROVE x \in ToSet(f) <=> x \in ToSet(s) \/ x = r
  <2>1. ASSUME x \in ToSet(f) PROVE x \in ToSet(s) \/ x = r
    <3>1. PICK i \in 1..(Len(s) + 1) : x = f[i]
      BY <1>2, <2>1 DEF ToSet
    <3>2. i = Len(s) + 1 \/ i \in 1..Len(s)
      BY <1>2
    <3> QED BY <1>2, <3>1, <3>2 DEF ToSet
  <2>2. ASSUME x \in ToSet(s) PROVE x \in ToSet(f)
    BY <1>2, <2>2 DEF ToSet
  <2>3. Len(s) + 1 \in DOMAIN f
    BY <1>2
  <2>4. r \in ToSet(f)
    BY <1>2, <2>3 DEF ToSet
  <2> QED BY <2>1, <2>2, <2>4
<1> QED BY <1>1, <1>2, <1>3

\* insertarRegistroEnLaLista leaves, for each record there was and for the new
\* one, one of the key that is as new.
LEMMA InsertarCubre ==
  ASSUME NEW lista \in Seq(Registros), NEW r \in Registros,
         NEW q, q \in ToSet(lista) \/ q = r
  PROVE  \E x \in ToSet(InsertarRegistro(lista, r)) : Cubre(x, q)
<1> DEFINE I == {i \in 1..Len(lista) : lista[i].key = r.key}
           i == SelectInSeq(lista, LAMBDA z : z.key = r.key)
<1>1. /\ Len(lista) \in Nat /\ DOMAIN lista = 1..Len(lista)
      /\ \A n \in 1..Len(lista) : lista[n] \in Registros
  BY LenProperties
<1>2. q \in Registros /\ Cubre(q, q) /\ Cubre(r, r)
  BY <1>1, CubreSiempre DEF ToSet
<1>3. CASE I = {}
  <2>1. i = 0
    BY <1>3 DEF SelectInSeq
  <2> HIDE DEF i
  <2>2. InsertarRegistro(lista, r) = Append(lista, r)
    BY <2>1 DEF InsertarRegistro, i
  <2>3. ToSet(Append(lista, r)) = ToSet(lista) \cup {r}
    BY <1>1, DetrasDe
  <2> QED BY <1>2, <2>2, <2>3
<1>4. CASE I # {}
  <2>1. i = Min(I)
    BY <1>4 DEF SelectInSeq
  <2>2. I \in SUBSET (1..Len(lista))
    OBVIOUS
  <2>3. Min(I) \in I
    <3> HIDE DEF I
    <3> QED BY <1>1, <1>4, <2>2, PrimeraPosicion
  <2>4. i \in 1..Len(lista) /\ lista[i].key = r.key
    BY <2>1, <2>3
  <2> HIDE DEF i, I
  <2>5. PICK x : x = IF lista[i].timestamp > r.timestamp THEN lista[i] ELSE r
    OBVIOUS
  <2>6. InsertarRegistro(lista, r) = Append(RemoveAt(lista, i), x)
    <3>1. i # 0
      BY <2>4
    <3> QED BY <2>4, <2>5, <3>1 DEF InsertarRegistro, i
  <2>7. Cubre(x, r) /\ Cubre(x, lista[i]) /\ x \in Registros
    <3>1. lista[i].timestamp \in Nat /\ r.timestamp \in Nat
      BY <1>1, <2>4, CubreSiempre
    <3> QED BY <1>1, <2>4, <2>5, <3>1 DEF Cubre
  <2>8. PICK s : s = RemoveAt(lista, i)
    OBVIOUS
  <2>9. /\ s \in Seq(Registros) /\ Len(s) = Len(lista) - 1
        /\ \A n \in 1..Len(lista) - 1 : s[n] = IF n < i THEN lista[n] ELSE lista[n + 1]
    BY <2>4, <2>8, RemoveAtProps
  <2>10. ToSet(Append(s, x)) = ToSet(s) \cup {x}
    BY <2>7, <2>9, DetrasDe
  <2>11. CASE q = r
    BY <2>6, <2>7, <2>8, <2>10, <2>11
  <2>12. ASSUME NEW m \in 1..Len(lista), q = lista[m]
         PROVE  \E y \in ToSet(Append(s, x)) : Cubre(y, q)
    <3>1. CASE m = i
      BY <2>7, <2>10, <2>12, <3>1
    <3>2. CASE m # i
      <4>1. \E n \in 1..Len(s) : s[n] = lista[m]
        <5>1. CASE m < i
          BY <1>1, <2>4, <2>9, <5>1
        <5>2. CASE m > i
          <6>1. m - 1 \in 1..Len(s) /\ s[m - 1] = lista[m]
            BY <1>1, <2>4, <2>9, <5>2
          <6> QED BY <6>1
        <5> QED BY <2>4, <3>2, <5>1, <5>2
      <4>2. q \in ToSet(s)
        BY <2>9, <2>12, <4>1 DEF ToSet
      <4> QED BY <1>2, <2>10, <4>2
    <3> QED BY <3>1, <3>2
  <2> QED BY <1>1, <2>6, <2>8, <2>11, <2>12 DEF ToSet
<1> QED BY <1>3, <1>4

\* And so does levantarClavesDe, for what it had and for what it reads.
LEMMA LevantarCubre ==
  ASSUME NEW claves \in Seq(Registros), NEW s \in Seq(Registros),
         NEW q, q \in ToSet(claves) \cup ToSet(s)
  PROVE  \E x \in ToSet(Levantar(claves, s)) : Cubre(x, q)
<1>1. /\ Len(s) \in Nat /\ DOMAIN s = 1..Len(s) /\ \A i \in 1..Len(s) : s[i] \in Registros
      /\ ToSet(claves) \subseteq Registros /\ ToSet(s) \subseteq Registros
  <2>1. Len(s) \in Nat /\ DOMAIN s = 1..Len(s)
    BY LenProperties
  <2>2. \A i \in 1..Len(s) : s[i] \in Registros
    OBVIOUS
  <2>3. ToSet(claves) \subseteq Registros
    BY DEF ToSet
  <2>4. ToSet(s) \subseteq Registros
    BY DEF ToSet
  <2> QED BY <2>1, <2>2, <2>3, <2>4
<1>2. PICK g : /\ g[0] = claves /\ g[Len(s)] = Levantar(claves, s)
               /\ \A i \in 1..Len(s) : g[i] = InsertarRegistro(g[i-1], s[i])
  BY PasosDeLevantar, SMTT(30)
<1> DEFINE Vistos(n) == q \in ToSet(claves) \/ \E i \in 1..n : q = s[i]
           Bien(n) == g[n] \in Seq(Registros)
                      /\ (Vistos(n) => \E x \in ToSet(g[n]) : Cubre(x, q))
           Malos == {n \in 0..Len(s) : ~Bien(n)}
<1>3. q \in Registros /\ Cubre(q, q)
  BY <1>1, CubreSiempre
<1>4. Bien(0)
  BY <1>2, <1>3
<1>5. SUFFICES ASSUME Malos # {} PROVE FALSE
  <2>1. Bien(Len(s))
    BY <1>1, <1>5
  <2>2. Vistos(Len(s))
    BY <1>1 DEF ToSet
  <2> QED BY <1>2, <2>1, <2>2
<1>6. PICK n \in Malos : \A y \in Malos : n <= y
  <2>1. Malos \in SUBSET Nat
    BY <1>1
  <2> HIDE DEF Malos
  <2> QED BY <1>5, <2>1, MinimoNatural
<1>7. n \in 1..Len(s) /\ n-1 \in 0..Len(s) /\ ~(n <= n-1)
  BY <1>1, <1>4, <1>6
<1>8. Bien(n-1)
  BY <1>6, <1>7
<1>9. PICK p \in Seq(Registros) : p = g[n-1]
  BY <1>8
<1>10. PICK r \in Registros : r = s[n]
  BY <1>1, <1>7
<1>11. g[n] = InsertarRegistro(p, r) /\ InsertarRegistro(p, r) \in Seq(Registros)
  BY <1>2, <1>7, <1>9, <1>10, InsertarTipo
<1>12. ASSUME Vistos(n) PROVE \E x \in ToSet(g[n]) : Cubre(x, q)
  <2>1. CASE q = r
    BY <1>11, <2>1, InsertarCubre
  <2>2. CASE q # r
    <3>1. Vistos(n-1)
      BY <1>7, <1>10, <1>12, <2>2
    <3>2. PICK x \in ToSet(p) : Cubre(x, q)
      BY <1>8, <1>9, <3>1
    <3>3. PICK y \in ToSet(InsertarRegistro(p, r)) : Cubre(y, x)
      BY <3>2, InsertarCubre
    <3>4. x \in Registros /\ y \in Registros
      BY <1>11, <3>2, <3>3 DEF ToSet
    <3> QED BY <1>3, <1>11, <3>2, <3>3, <3>4, CubreSigue
  <2> QED BY <2>1, <2>2
<1>13. Bien(n)
  BY <1>11, <1>12
<1> QED BY <1>6, <1>13

-----------------------------------------------------------------------------
\* A thread that is on its way to the memtable was on it, or is given an INSERT;
\* one that is about to link an entry of a table has read its Metadata.
LEMMA PasoAlInsert ==
  ASSUME Tipado, NEW h \in Clientes, Atender(h), ~Muerte
  PROVE  /\ cl'[h].pc \in EnElInsert =>
              /\ cl[h].pc \in EnElInsert /\ cl'[h].t = cl[h].t
              /\ cl'[h].error = cl[h].error /\ cl'[h].reg = cl[h].reg
         /\ cl'[h].pc = "anotar" =>
              cl[h].pc = "ingresar" /\ cl[h].t \in metadatas /\ cl'[h].t = cl[h].t
         /\ cl'[h].pc = "contar" => Enlazar(h)
<1>0. DOMAIN cl = Clientes /\ DOMAIN cl[h] = CamposCl
  BY DEF Tipado, Inv, ClientesBien
<1>s. ASSUME NEW o, DOMAIN o[h] = CamposCl, NEW hilos, NEW como, cl' = Separar(hilos, como, o)
      PROVE  /\ cl'[h].pc = o[h].pc /\ cl'[h].t = o[h].t /\ cl'[h].error = o[h].error
             /\ cl'[h].reg = o[h].reg
  <2>1. cl'[h] = IF h \in hilos THEN [o[h] EXCEPT !.suLista = como] ELSE o[h]
    BY <1>s DEF Separar
  <2> QED BY <1>s, <2>1 DEF CamposCl
<1>n. ASSUME cl'[h].pc \notin EnElInsert, cl'[h].pc # "anotar"
      PROVE  /\ cl'[h].pc \in EnElInsert =>
                  /\ cl[h].pc \in EnElInsert /\ cl'[h].t = cl[h].t
                  /\ cl'[h].error = cl[h].error /\ cl'[h].reg = cl[h].reg
             /\ cl'[h].pc = "anotar" =>
                  cl[h].pc = "ingresar" /\ cl[h].t \in metadatas /\ cl'[h].t = cl[h].t
             /\ cl'[h].pc = "contar" => Enlazar(h)
  BY <1>n DEF EnElInsert
<1>1. CASE Poner(h)
  <2>1. PICK o : o = [cl EXCEPT ![h].pc = "agregar"]
    OBVIOUS
  <2>2. /\ o[h].t = cl[h].t /\ o[h].error = cl[h].error /\ o[h].reg = cl[h].reg
        /\ o[h].pc = "agregar" /\ DOMAIN o[h] = CamposCl
    BY <1>0, <2>1 DEF CamposCl
  <2>3. cl' = o \/ \E hilos : cl' = Separar(hilos, "reemplazada", o)
    BY <1>1, <2>1 DEF Poner
  <2>4. /\ cl'[h].t = o[h].t /\ cl'[h].error = o[h].error /\ cl'[h].reg = o[h].reg
        /\ cl'[h].pc = o[h].pc
    BY <1>s, <2>2, <2>3
  <2> QED BY <1>1, <2>2, <2>4 DEF Poner, En, EnElInsert
<1>2. CASE Agregar(h)
  <2>1. PICK n : cl' = [cl EXCEPT ![h].pc = "enlazar", ![h].ultimo = n]
    BY <1>2 DEF Agregar
  <2> QED BY <1>0, <1>2, <2>1 DEF Agregar, En, EnElInsert, CamposCl
<1>3. CASE Enlazar(h)
  <2>1. PICK n : n = elementos[cl[h].t]
    OBVIOUS
  <2>2. PICK o : o = [cl EXCEPT ![h].pc = "contar", ![h].ultimo = n]
    OBVIOUS
  <2>3. /\ o[h].t = cl[h].t /\ o[h].error = cl[h].error /\ o[h].reg = cl[h].reg
        /\ o[h].pc = "contar" /\ DOMAIN o[h] = CamposCl
    BY <1>0, <2>2 DEF CamposCl
  <2>4. \E hilos : cl' = Separar(hilos, "cortada", o)
    BY <1>3, <2>1, <2>2 DEF Enlazar
  <2>5. /\ cl'[h].t = o[h].t /\ cl'[h].error = o[h].error /\ cl'[h].reg = o[h].reg
        /\ cl'[h].pc = o[h].pc
    BY <1>s, <2>3, <2>4
  <2> QED BY <1>3, <2>3, <2>5 DEF Enlazar, En, EnElInsert
<1>4. CASE Ingresar(h)
  <2>1. PICK n : cl' = [cl EXCEPT ![h].pc = "anotar", ![h].ultimo = n]
    BY <1>4 DEF Ingresar
  <2> QED BY <1>0, <1>4, <2>1 DEF Ingresar, En, EnElInsert, CamposCl
<1>5. CASE Anotar(h) \/ Sacar(h)
  <2>1. PICK o : o = [cl EXCEPT ![h] = Libre]
    OBVIOUS
  <2>2. o[h].pc = "libre" /\ DOMAIN o[h] = CamposCl
    BY <1>0, <2>1 DEF Libre, CamposCl
  <2>3. CASE Anotar(h)
    <3>1. \E hilos : cl' = Separar(hilos, "cortada", o)
      BY <2>1, <2>3 DEF Anotar
    <3> QED BY <1>n, <1>s, <2>2, <3>1 DEF EnElInsert
  <2>4. CASE Sacar(h) /\ ExisteLaTabla(cl[h].t)
    <3>1. PICK i : i = Indice(cl[h].t)
      OBVIOUS
    <3>2. PICK p : p = Correr(i, o)
      OBVIOUS
    <3>3. \E hilos : cl' = Separar(hilos, "liberada", p)
      BY <2>1, <2>4, <3>1, <3>2 DEF Sacar
    <3>4. p[h] = o[h]
      BY <2>4, <3>2 DEF Correr, PorAnotar, Sacar, En
    <3> QED BY <1>n, <1>s, <2>2, <3>3, <3>4 DEF EnElInsert
  <2>5. CASE Sacar(h) /\ ~ExisteLaTabla(cl[h].t)
    BY <1>n, <2>1, <2>2, <2>5 DEF Sacar, EnElInsert
  <2> QED BY <1>5, <2>3, <2>4, <2>5
<1>6. CASE ~Poner(h) /\ ~Agregar(h) /\ ~Enlazar(h) /\ ~Ingresar(h) /\ ~Anotar(h) /\ ~Sacar(h)
  <2>1. /\ ~AgregarSinLista(h) /\ ~EnlazarLiberado(h) /\ ~SelectMuere(h) /\ ~TablaMuere(h)
        /\ ~AnotarLiberado(h)
    BY DEF Muerte, Morir, AgregarSinLista, EnlazarLiberado, SelectMuere, TablaMuere, AnotarLiberado
  <2>2. CASE Compuerta(h) \/ MirarMemtable(h)
    BY <1>0, <2>2 DEF Compuerta, MirarMemtable, Sigue, EnElInsert, CamposCl
  <2>3. CASE LeerBin(h) \/ ListarTmp(h) \/ LeerTmp(h) \/ Filtrar(h)
    <3>1. CASE LeerBin(h)
      <4>1. PICK v : cl' = [cl EXCEPT ![h].pc = "listar", ![h].visto = v]
        BY <3>1 DEF LeerBin
      <4> QED BY <1>0, <4>1 DEF EnElInsert, CamposCl
    <3>2. CASE ListarTmp(h)
      <4>1. PICK v : cl' = [cl EXCEPT ![h].pc = "tmp", ![h].vistos = v]
        BY <3>2 DEF ListarTmp
      <4> QED BY <1>0, <4>1 DEF EnElInsert, CamposCl
    <3>3. CASE LeerTmp(h)
      <4>1. cl[h].pc = "tmp"
        BY <3>3 DEF LeerTmp, En
      <4>2. PICK v, w : cl' = [cl EXCEPT ![h].visto = v, ![h].vistos = w]
        BY <3>3 DEF LeerTmp
      <4> QED BY <1>0, <4>1, <4>2 DEF EnElInsert, CamposCl
    <3>4. CASE Filtrar(h)
      <4>1. PICK v : cl' = [cl EXCEPT ![h].pc = "responder", ![h].visto = v]
        BY <3>4 DEF Filtrar
      <4> QED BY <1>0, <4>1 DEF EnElInsert, CamposCl
    <3> QED BY <2>3, <3>1, <3>2, <3>3, <3>4
  <2>4. CASE Responder(h) \/ Sumar(h)
    BY <1>0, <2>4 DEF Responder, Sumar, Termina, Libre, EnElInsert
  <2>5. CASE CrearMetadata(h) \/ CrearParticiones(h) \/ BorrarArchivos(h) \/ QuitarDirectorio(h)
    BY <1>0, <2>5 DEF CrearMetadata, CrearParticiones, BorrarArchivos, QuitarDirectorio, Sigue,
      EnElInsert, CamposCl
  <2>6. CASE Mkdir(h)
    BY <1>0, <2>6 DEF Mkdir, Sigue, TrasMkdir, EnElInsert, CamposCl
  <2> QED BY <1>6, <2>1, <2>2, <2>3, <2>4, <2>5, <2>6 DEF Atender
<1> QED BY <1>1, <1>2, <1>3, <1>4, <1>5, <1>6

LEMMA InsertSigue ==
  ASSUME Tipado, [Next]_vars, NEW g \in Clientes, cl'[g].pc \in EnElInsert
  PROVE  \/ /\ cl[g].pc \in EnElInsert /\ cl'[g].t = cl[g].t
            /\ cl'[g].error = cl[g].error /\ cl'[g].reg = cl[g].reg
         \/ \E t \in Tablas, k \in Claves : Insert(g, t, k)
<1>0. DOMAIN cl = Clientes /\ DOMAIN cl[g] = CamposCl
  BY DEF Tipado, Inv, ClientesBien
<1>1. CASE UNCHANGED cl
  BY <1>1
<1>2. CASE Iguales(cl'[g], cl[g])
  BY <1>2 DEF Iguales
<1>3. ASSUME NEW h \in Clientes, Pedido(h)
      PROVE  cl'[g] = cl[g] \/ \E t \in Tablas, k \in Claves : Insert(g, t, k)
  <2>1. CASE g # h
    BY <1>3, <2>1, PedidoOtros
  <2>2. CASE g = h
    <3>1. ASSUME NEW t \in Tablas, NEW k \in Claves, Select(h, t, k)
          PROVE  cl'[h].pc \notin EnElInsert
      BY <1>0, <3>1 DEF Select, Libre, EnElInsert
    <3>2. ASSUME NEW t \in Tablas, Create(h, t) \/ Drop(h, t)
          PROVE  cl'[h].pc \notin EnElInsert
      BY <1>0, <3>2 DEF Create, Drop, Libre, EnElInsert
    <3> QED BY <1>3, <2>2, <3>1, <3>2 DEF Pedido
  <2> QED BY <2>1, <2>2
<1>4. ASSUME NEW h \in Clientes, Atender(h), ~Muerte, g = h
      PROVE  /\ cl[g].pc \in EnElInsert /\ cl'[g].t = cl[g].t
             /\ cl'[g].error = cl[g].error /\ cl'[g].reg = cl[g].reg
  BY <1>4, PasoAlInsert
<1>5. ASSUME NEW h \in Clientes, Atender(h), g # h PROVE Iguales(cl'[g], cl[g])
  BY <1>5, AtenderOtros
<1>6. ASSUME Dump PROVE Iguales(cl'[g], cl[g])
  BY <1>6, DumpOtros
<1>7. ASSUME NEW e \in Entradas, Compactacion(e) PROVE UNCHANGED cl
  BY <1>7, CambiosComp DEF Muerte, Caer
<1>8. ASSUME Muerte \/ Apagar PROVE UNCHANGED cl
  BY <1>8 DEF Muerte, Apagar, Caer
<1>9. ~Reiniciar
  BY DEF Reiniciar, Libre, EnElInsert
<1> QED BY <1>1, <1>2, <1>3, <1>4, <1>5, <1>6, <1>7, <1>8, <1>9 DEF Next, vars

\* No request begins half way through an INSERT or a CREATE.
LEMMA PedidoSinSumar ==
  ASSUME Tipado, NEW h \in Clientes, Pedido(h)
  PROVE  cl'[h].pc \notin {"anotar", "contar"}
<1>0. DOMAIN cl = Clientes
  BY DEF Tipado, Inv, ClientesBien
<1>1. ASSUME NEW t \in Tablas, NEW k \in Claves, Select(h, t, k)
      PROVE  cl'[h].pc \notin {"anotar", "contar"}
  BY <1>0, <1>1 DEF Select, Libre
<1>2. ASSUME NEW t \in Tablas, Create(h, t) \/ Drop(h, t)
      PROVE  cl'[h].pc \notin {"anotar", "contar"}
  BY <1>0, <1>2 DEF Create, Drop, Libre
<1>3. ASSUME NEW t \in Tablas, NEW k \in Claves, Insert(h, t, k)
      PROVE  cl'[h].pc \notin {"anotar", "contar"}
  <2>1. PICK paso, b, r : /\ cl' = [cl EXCEPT ![h] = [Libre EXCEPT !.pc = paso, !.t = t, !.error = b, !.reg = r]]
                          /\ paso \in {"poner", "agregar"}
    <3>1. PICK ahora : cl' = [cl EXCEPT ![h] =
           [Libre EXCEPT !.pc = IF diccionario[t] = SinLista THEN "poner" ELSE "agregar",
                      !.t = t, !.error = ~ExisteLaTabla(t),
                      !.reg = [timestamp |-> ahora, key |-> k, n |-> cuantos + 1]]]
      BY <1>3 DEF Insert
    <3>2. PICK paso : paso = IF diccionario[t] = SinLista THEN "poner" ELSE "agregar"
      OBVIOUS
    <3>3. PICK b : b = ~ExisteLaTabla(t)
      OBVIOUS
    <3>4. PICK r : r = [timestamp |-> ahora, key |-> k, n |-> cuantos + 1]
      OBVIOUS
    <3> QED BY <3>1, <3>2, <3>3, <3>4
  <2>2. cl'[h].pc = paso
    BY <1>0, <2>1 DEF Libre
  <2> QED BY <2>1, <2>2
<1> QED BY <1>1, <1>2, <1>3 DEF Pedido

LEMMA AnotarSigue ==
  ASSUME Tipado, [Next]_vars, NEW g \in Clientes, cl'[g].pc = "anotar"
  PROVE  /\ cl'[g].t = cl[g].t
         /\ cl[g].pc = "anotar" \/ (cl[g].pc = "ingresar" /\ cl[g].t \in metadatas)
<1>0. DOMAIN cl = Clientes /\ DOMAIN cl[g] = CamposCl
  BY DEF Tipado, Inv, ClientesBien
<1>1. CASE UNCHANGED cl
  BY <1>1
<1>2. CASE Iguales(cl'[g], cl[g])
  BY <1>2 DEF Iguales
<1>3. ASSUME NEW h \in Clientes, Pedido(h) PROVE cl'[g] = cl[g]
  BY <1>3, PedidoOtros, PedidoSinSumar
<1>4. ASSUME NEW h \in Clientes, Atender(h), ~Muerte, g = h
      PROVE  cl[g].pc = "ingresar" /\ cl[g].t \in metadatas /\ cl'[g].t = cl[g].t
  BY <1>4, PasoAlInsert
<1>5. ASSUME NEW h \in Clientes, Atender(h), g # h PROVE Iguales(cl'[g], cl[g])
  BY <1>5, AtenderOtros
<1>6. ASSUME Dump PROVE Iguales(cl'[g], cl[g])
  BY <1>6, DumpOtros
<1>7. ASSUME NEW e \in Entradas, Compactacion(e) PROVE UNCHANGED cl
  BY <1>7, CambiosComp DEF Muerte, Caer
<1>8. ASSUME Muerte \/ Apagar PROVE UNCHANGED cl
  BY <1>8 DEF Muerte, Apagar, Caer
<1>9. ~Reiniciar
  BY DEF Reiniciar, Libre
<1> QED BY <1>1, <1>2, <1>3, <1>4, <1>5, <1>6, <1>7, <1>8, <1>9 DEF Next, vars

LEMMA EnLaLista ==
  ASSUME NEW D \in SUBSET Tablas, NEW t \in D
  PROVE  Esta(ListaDe(SetToSeq(D)), t)
<1> DEFINE s == SetToSeq(D)
           m == Cardinality(D)
<1>1. m \in Nat /\ s \in [1..m -> D]
  BY SonPocas
<1>2. IsFiniteSet(D)
  BY ConstantesValidas, FS_Subset
<1>3. \E f : f \in Bijection(1..m, D)
  BY <1>2, FS_CardinalityType DEF ExistsBijection
<1>4. \E f \in [1..m -> D] : IsInjective(f)
  BY <1>3 DEF Bijection, Injection, IsInjective
<1>5. IsInjective(s)
  BY <1>4 DEF SetToSeq
<1> HIDE DEF s
<1>6. Cardinality(1..m) = m
  <2>1. CASE m = 0
    <3>1. 1..m = {}
      BY <2>1
    <3> QED BY <2>1, <3>1, FS_EmptySet
  <2>2. CASE m # 0
    <3> HIDE DEF m
    <3>1. 1 \in Int /\ m \in Int
      BY <1>1
    <3>2. Cardinality(1..m) = IF 1 > m THEN 0 ELSE m - 1 + 1
      BY <3>1, FS_Interval, Zenon
    <3> QED BY <1>1, <2>2, <3>2
  <2> QED BY <2>1, <2>2
<1>7. s \in Surjection(1..m, D)
  <2>1. s \in Injection(1..m, D)
    BY <1>1, <1>5 DEF Injection, IsInjective
  <2> QED BY <1>2, <1>6, <2>1, FS_Injection
<1>8. PICK i \in 1..m : s[i] = t
  BY <1>7 DEF Surjection
<1>9. DOMAIN s = 1..m
  BY <1>1
<1>10. PICK q : q = ListaDe(s)
  OBVIOUS
<1>11. i \in DOMAIN q /\ q[i][1] = t
  BY <1>8, <1>9, <1>10 DEF ListaDe
<1> QED BY <1>10, <1>11 DEF Esta, s

\* A table that was not dropped, nor its entry lost, stays in the list.
LEMMA SigueEnLista ==
  ASSUME Tipado, [Next]_vars, NEW t \in Tablas \ solapadas, t \notin solapadas',
         ExisteLaTabla(t), t \in directorios
  PROVE  ExisteLaTabla(t)'
<1>0. Esta(listaDeTablas, t) /\ listaDeTablas \in Seq(Tablas \X Entradas)
  BY Conocidas DEF Tipado, Inv, Tipos
<1>1. SUFFICES Esta(listaDeTablas', t)
  BY DEF ExisteLaTabla, Esta
<1>2. CASE UNCHANGED listaDeTablas
  BY <1>0, <1>2
<1>3. ASSUME NEW h \in Clientes, Pedido(h) PROVE UNCHANGED listaDeTablas
  BY <1>3, CambiosPedido DEF listas
<1>4. ASSUME NEW h \in Clientes, Atender(h) PROVE Esta(listaDeTablas', t)
  <2>0. cl[h].pc # "libre" => cl[h].t \in Tablas
    BY DEF Tipado, Inv, ClientesBien
  <2>1. CASE Anotar(h)
    <3>1. PICK e \in Entradas : listaDeTablas' = IF cl[h].suLista = "vigente"
             THEN Append(SubSeq(listaDeTablas, 1, cl[h].ultimo), <<cl[h].t, e>>)
             ELSE listaDeTablas
      BY <2>1, EntradaNueva
    <3>2. /\ cl[h].pc = "anotar" /\ cl[h].t \in Tablas
          /\ solapadas' = solapadas \cup
               (IF cl[h].suLista = "vigente"
                THEN {listaDeTablas[i][1] : i \in (cl[h].ultimo + 1)..Len(listaDeTablas)}
                ELSE {cl[h].t})
      BY <2>0, <2>1 DEF Anotar, En
    <3> QED BY <1>0, <3>1, <3>2, AnotarLista DEF Tipado
  <2>2. CASE Sacar(h)
    <3>1. CASE ExisteLaTabla(cl[h].t)
      <4>1. cl[h].t \in solapadas
        BY <2>2 DEF Sacar, En, DeDrop, Tipado, Inv, ClientesBien
      <4>2. PICK u : u = cl[h].t
        OBVIOUS
      <4>3. /\ listaDeTablas' = RemoveAt(listaDeTablas, IndiceEn(listaDeTablas, u))
            /\ Esta(listaDeTablas, u) /\ u # t
        BY <2>2, <3>1, <4>1, <4>2, Conocidas DEF Sacar
      <4>4. PICK m : m = IndiceEn(listaDeTablas, u)
        OBVIOUS
      <4>5. m \in 1..Len(listaDeTablas) /\ listaDeTablas[m][1] = u
        BY <1>0, <4>3, <4>4, EsElPrimero
      <4> QED BY <1>0, <4>3, <4>4, <4>5, AlSacar
    <3>2. CASE ~ExisteLaTabla(cl[h].t)
      BY <1>2, <2>2, <3>2 DEF Sacar, listas
    <3> QED BY <3>1, <3>2
  <2> QED BY <1>2, <1>4, <2>1, <2>2, AtenderClientes DEF Tipado, listas
<1>5. ASSUME Dump PROVE UNCHANGED listaDeTablas
  BY <1>5, DumpClientes DEF Tipado, listas
<1>6. ASSUME NEW e \in Entradas, Compactacion(e) PROVE UNCHANGED listaDeTablas
  BY <1>6, CambiosComp DEF Muerte, Caer, listas
<1>7. ASSUME Apagar PROVE UNCHANGED listaDeTablas
  BY <1>7 DEF Apagar, Caer, listas
<1>8. ASSUME Reiniciar PROVE Esta(listaDeTablas', t)
  <2>1. PICK D \in SUBSET Tablas : D = directorios
    BY DEF Tipado, TipoDir
  <2>2. listaDeTablas' = ListaDe(SetToSeq(D))
    BY <1>8, <2>1 DEF Reiniciar
  <2> QED BY <2>1, <2>2, EnLaLista
<1> QED BY <1>2, <1>3, <1>4, <1>5, <1>6, <1>7, <1>8 DEF Next, vars, listas

-----------------------------------------------------------------------------
\* What was answered with INSERT_R, or will be, is of a table that has been in
\* the list, with its directory and its Metadata, since, unless a DROP came.
Conocida(t) == ExisteLaTabla(t) \/ t \in solapadas

Listadas ==
  /\ Tipado /\ SinEntradaNiHilo
  /\ \A t \in Tablas \ solapadas : ExisteLaTabla(t) => t \in metadatas
  /\ \A h \in Clientes : cl[h].pc \in EnElInsert => cl[h].error \/ Conocida(cl[h].t)
  /\ \A h \in Clientes : cl[h].pc = "anotar" => cl[h].t \in metadatas \cup solapadas
  /\ \A c \in confirmados : c.t \in Tablas /\ c.reg \in Registros /\ Conocida(c.t)

LEMMA ListadasInit == Init => Listadas
<1> SUFFICES ASSUME Init PROVE Listadas
  OBVIOUS
<1>1. Tipado /\ SinEntradaNiHilo
  BY InitTipado, ArrancaInit DEF Arranca
<1>2. ASSUME NEW t \in Tablas, ExisteLaTabla(t) PROVE t \in metadatas
  <2>1. PICK D \in SUBSET Tablas : D = EnDisco
    BY ConstantesValidas
  <2>2. SetToSeq(D) \in [1..Cardinality(D) -> D]
    BY SonPocas
  <2>3. PICK s : s = SetToSeq(D)
    OBVIOUS
  <2>4. PICK i \in DOMAIN ListaDe(s) : ListaDe(s)[i][1] = t
    BY <1>2, <2>1, <2>3 DEF Init, ExisteLaTabla
  <2>5. i \in DOMAIN s /\ s[i] = t
    BY <2>4 DEF ListaDe
  <2> QED BY <2>1, <2>2, <2>3, <2>5 DEF Init
<1>3. \A h \in Clientes : cl[h].pc = "libre"
  BY DEF Init, Libre
<1> QED BY <1>1, <1>2, <1>3 DEF Init, Listadas, EnElInsert

LEMMA ConocidaSigue ==
  ASSUME Listadas, [Next]_vars, NEW t \in Tablas, Conocida(t)
  PROVE  Conocida(t)'
<1>1. solapadas \subseteq solapadas'
  BY SolapadasCrece DEF Listadas
<1>2. CASE t \in solapadas
  BY <1>1, <1>2 DEF Conocida
<1>3. CASE t \notin solapadas
  <2>1. CASE t \in solapadas'
    BY <2>1 DEF Conocida
  <2>2. CASE t \notin solapadas'
    BY <1>3, <2>2, SigueEnLista DEF Conocida, Listadas, Tipado, TipoDir
  <2> QED BY <2>1, <2>2
<1> QED BY <1>2, <1>3

\* What Sumar answers.
LEMMA ConfirmadosPaso ==
  ASSUME Tipado, [Next]_vars, NEW c \in confirmados', c \notin confirmados
  PROVE  \E h \in Clientes : /\ Sumar(h) /\ ~cl[h].error
                             /\ c = [t |-> cl[h].t, reg |-> cl[h].reg]
<1>1. ~(UNCHANGED confirmados)
  OBVIOUS
<1>2. ~Muerte /\ ~Apagar /\ ~Reiniciar
  BY <1>1 DEF Muerte, Apagar, Caer, Reiniciar
<1>3. \A h \in Clientes : ~Pedido(h)
  BY <1>1, CambiosPedido
<1>4. ~Dump /\ \A e \in Entradas : ~Compactacion(e)
  BY <1>1, <1>2, CambiosDump, CambiosComp
<1>5. PICK h \in Clientes : Atender(h)
  BY <1>1, <1>2, <1>3, <1>4 DEF Next, vars, historia
<1>6. Sumar(h)
  BY <1>1, <1>2, <1>5, CambiosAtender
<1> QED BY <1>6 DEF Sumar

LEMMA MetadatasPaso ==
  ASSUME Tipado, [Next]_vars, NEW t \in metadatas, t \notin metadatas'
  PROVE  t \in solapadas
<1>1. ~(UNCHANGED metadatas)
  OBVIOUS
<1>2. ~Muerte /\ ~Apagar /\ ~Reiniciar
  BY <1>1 DEF Muerte, Apagar, Caer, Reiniciar, disco
<1>3. \A h \in Clientes : ~Pedido(h)
  BY <1>1, CambiosPedido
<1>4. ~Dump /\ \A e \in Entradas : ~Compactacion(e)
  BY <1>1, <1>2, CambiosDump, CambiosComp
<1>5. PICK h \in Clientes : Atender(h)
  BY <1>1, <1>2, <1>3, <1>4 DEF Next, vars, disco
<1>6. Mkdir(h) \/ QuitarDirectorio(h) \/ CrearMetadata(h) \/ BorrarArchivos(h)
  BY <1>1, <1>2, <1>5, CambiosAtender
<1>7. BorrarArchivos(h)
  BY <1>6 DEF Mkdir, CrearMetadata, QuitarDirectorio
<1>8. t = cl[h].t /\ cl[h].pc = "borrar"
  BY <1>7 DEF BorrarArchivos, En
<1> QED BY <1>8 DEF Tipado, Inv, ClientesBien, DeDrop

\* A table is in the list once its Metadata is there, or from the directories.
LEMMA EnListaPaso ==
  ASSUME Tipado, [Next]_vars, NEW t \in Tablas, ~ExisteLaTabla(t), ExisteLaTabla(t)',
         \A h \in Clientes : cl[h].pc = "anotar" => cl[h].t \in metadatas \cup solapadas
  PROVE  t \in metadatas \cup solapadas
<1>0. listaDeTablas \in Seq(Tablas \X Entradas)
  BY DEF Tipado, Inv, Tipos
<1>1. ~(UNCHANGED listaDeTablas)
  BY DEF ExisteLaTabla
<1>2. ~Muerte /\ ~Apagar
  BY <1>1 DEF Muerte, Apagar, Caer, listas
<1>3. \A h \in Clientes : ~Pedido(h)
  BY <1>1, CambiosPedido DEF listas
<1>4. ~Dump /\ \A e \in Entradas : ~Compactacion(e)
  BY <1>1, <1>2, CambiosDump, CambiosComp DEF listas
<1>5. CASE Reiniciar
  <2>1. PICK D \in SUBSET Tablas : D = directorios
    BY DEF Tipado, TipoDir
  <2>2. SetToSeq(D) \in [1..Cardinality(D) -> D]
    BY SonPocas
  <2>3. PICK s : s = SetToSeq(D)
    OBVIOUS
  <2>4. PICK i \in DOMAIN ListaDe(s) : ListaDe(s)[i][1] = t
    BY <1>5, <2>1, <2>3 DEF Reiniciar, ExisteLaTabla
  <2>5. i \in DOMAIN s /\ s[i] = t
    BY <2>4 DEF ListaDe
  <2>6. D \subseteq metadatas
    BY <1>5, <2>1 DEF Reiniciar
  <2> QED BY <2>2, <2>3, <2>5, <2>6
<1>6. ASSUME NEW h \in Clientes, Atender(h) PROVE t \in metadatas \cup solapadas
  <2>1. CASE Anotar(h)
    <3>1. PICK e \in Entradas : listaDeTablas' = IF cl[h].suLista = "vigente"
             THEN Append(SubSeq(listaDeTablas, 1, cl[h].ultimo), <<cl[h].t, e>>)
             ELSE listaDeTablas
      BY <2>1, EntradaNueva
    <3>2. /\ cl[h].pc = "anotar"
          /\ solapadas' = solapadas \cup
               (IF cl[h].suLista = "vigente"
                THEN {listaDeTablas[i][1] : i \in (cl[h].ultimo + 1)..Len(listaDeTablas)}
                ELSE {cl[h].t})
      BY <2>1 DEF Anotar, En
    <3>3. cl[h].t \in Tablas
      BY <3>2 DEF Tipado, Inv, ClientesBien
    <3>4. /\ listaDeTablas' \in Seq(Tablas \X Entradas)
          /\ \A k \in 1..Len(listaDeTablas') :
               \/ listaDeTablas'[k] = <<cl[h].t, e>>
               \/ \E n \in 1..Len(listaDeTablas) : listaDeTablas'[k] = listaDeTablas[n]
      BY <3>1, <3>2, <3>3, AnotarLista DEF Tipado
    <3>5. PICK k \in DOMAIN listaDeTablas' : listaDeTablas'[k][1] = t
      BY DEF ExisteLaTabla
    <3>6. k \in 1..Len(listaDeTablas') /\ DOMAIN listaDeTablas = 1..Len(listaDeTablas)
      BY <1>0, <3>4, <3>5
    <3>7. listaDeTablas'[k] = <<cl[h].t, e>>
      BY <3>4, <3>5, <3>6 DEF ExisteLaTabla
    <3>8. t = cl[h].t
      BY <3>5, <3>7
    <3> QED BY <3>2, <3>8
  <2>2. CASE Sacar(h)
    <3>1. ExisteLaTabla(cl[h].t)
      BY <1>1, <2>2 DEF Sacar, listas
    <3>2. PICK m : m = IndiceEn(listaDeTablas, cl[h].t)
      OBVIOUS
    <3>3. m \in 1..Len(listaDeTablas) /\ listaDeTablas' = RemoveAt(listaDeTablas, m)
      BY <1>0, <2>2, <3>1, <3>2, Conocidas, EsElPrimero DEF Sacar
    <3>4. PICK q : q = RemoveAt(listaDeTablas, m)
      OBVIOUS
    <3>5. /\ q \in Seq(Tablas \X Entradas) /\ Len(q) = Len(listaDeTablas) - 1
          /\ \A n \in 1..Len(listaDeTablas) - 1 :
               q[n] = IF n < m THEN listaDeTablas[n] ELSE listaDeTablas[n + 1]
      BY <1>0, <3>3, <3>4, RemoveAtProps
    <3>6. PICK n \in 1..Len(q) : q[n][1] = t
      BY <3>3, <3>4, <3>5 DEF ExisteLaTabla
    <3>7. \E k \in 1..Len(listaDeTablas) : q[n] = listaDeTablas[k]
      <4>1. Len(listaDeTablas) \in Nat
        BY <1>0
      <4>2. n \in 1..Len(listaDeTablas) /\ n + 1 \in 1..Len(listaDeTablas)
        BY <3>5, <4>1
      <4> QED BY <3>5, <4>2
    <3> QED BY <1>0, <3>6, <3>7 DEF ExisteLaTabla
  <2>3. CASE UNCHANGED listas
    BY <1>1, <2>3 DEF listas
  <2> QED BY <1>6, <2>1, <2>2, <2>3, AtenderClientes DEF Tipado
<1> QED BY <1>1, <1>2, <1>3, <1>4, <1>5, <1>6 DEF Next, vars, listas

LEMMA ListadasPaso == Listadas /\ [Next]_vars => Listadas'
<1> SUFFICES ASSUME Listadas, [Next]_vars PROVE Listadas'
  OBVIOUS
<1>0. Tipado /\ Tipado' /\ SinEntradaNiHilo' /\ solapadas \subseteq solapadas'
  BY PasoTipado, EntradasPaso, SolapadasCrece DEF Listadas
<1>1. ASSUME NEW t \in Tablas \ solapadas', ExisteLaTabla(t)' PROVE t \in metadatas'
  <2>1. t \in metadatas
    <3>1. CASE ExisteLaTabla(t)
      BY <1>0, <1>1, <3>1 DEF Listadas
    <3>2. CASE ~ExisteLaTabla(t)
      BY <1>0, <1>1, <3>2, EnListaPaso DEF Listadas
    <3> QED BY <3>1, <3>2
  <2> QED BY <1>0, <1>1, <2>1, MetadatasPaso
<1>2. ASSUME NEW h \in Clientes, cl'[h].pc \in EnElInsert
      PROVE  (cl[h].error \/ Conocida(cl[h].t))'
  <2>1. CASE /\ cl[h].pc \in EnElInsert /\ cl'[h].t = cl[h].t
             /\ cl'[h].error = cl[h].error
    <3>1. cl[h].error \/ Conocida(cl[h].t)
      BY <2>1 DEF Listadas
    <3>2. PICK t \in Tablas : t = cl[h].t
      BY <1>0, <2>1 DEF Tipado, Inv, ClientesBien, EnElInsert
    <3>3. Conocida(t) => Conocida(t)'
      BY <3>2, ConocidaSigue
    <3>4. Conocida(t)' => Conocida(cl[h].t)'
      BY <2>1, <3>2 DEF Conocida, ExisteLaTabla
    <3> QED BY <2>1, <3>1, <3>2, <3>3, <3>4
  <2>2. ASSUME NEW t \in Tablas, NEW k \in Claves, Insert(h, t, k)
        PROVE  (cl[h].error \/ Conocida(cl[h].t))'
    <3>1. PICK r : /\ cl' = [cl EXCEPT ![h] = r] /\ r.t = t /\ r.error = ~ExisteLaTabla(t)
      <4>1. PICK ahora : cl' = [cl EXCEPT ![h] =
               [Libre EXCEPT !.pc = IF diccionario[t] = SinLista THEN "poner" ELSE "agregar",
                          !.t = t, !.error = ~ExisteLaTabla(t),
                          !.reg = [timestamp |-> ahora, key |-> k, n |-> cuantos + 1]]]
        BY <2>2 DEF Insert
      <4>2. PICK paso : paso = IF diccionario[t] = SinLista THEN "poner" ELSE "agregar"
        OBVIOUS
      <4>3. PICK b : b = ~ExisteLaTabla(t)
        OBVIOUS
      <4>4. PICK g : g = [timestamp |-> ahora, key |-> k, n |-> cuantos + 1]
        OBVIOUS
      <4>5. PICK r : r = [Libre EXCEPT !.pc = paso, !.t = t, !.error = b, !.reg = g]
        OBVIOUS
      <4>6. r.t = t /\ r.error = b
        BY <4>5 DEF Libre
      <4>7. cl' = [cl EXCEPT ![h] = r]
        BY <4>1, <4>2, <4>3, <4>4, <4>5
      <4> QED BY <4>3, <4>6, <4>7
    <3>2. cl'[h] = r
      BY <1>0, <3>1 DEF Tipado, Inv, ClientesBien
    <3>3. UNCHANGED listaDeTablas
      BY <2>2 DEF Insert, listas
    <3> QED BY <3>1, <3>2, <3>3 DEF Conocida, ExisteLaTabla
  <2> QED BY <1>0, <1>2, <2>1, <2>2, InsertSigue
<1>3. ASSUME NEW c \in confirmados' PROVE c.t \in Tablas /\ c.reg \in Registros /\ Conocida(c.t)'
  <2>1. CASE c \in confirmados
    BY <2>1, ConocidaSigue DEF Listadas
  <2>2. CASE c \notin confirmados
    <3>1. PICK h \in Clientes : /\ Sumar(h) /\ ~cl[h].error
                                /\ c = [t |-> cl[h].t, reg |-> cl[h].reg]
      BY <1>0, <1>3, <2>2, ConfirmadosPaso
    <3>2. cl[h].pc = "contar"
      BY <3>1 DEF Sumar, En
    <3>3. c.t \in Tablas /\ c.reg \in Registros /\ Conocida(c.t)
      BY <1>0, <3>1, <3>2 DEF Listadas, EnElInsert, Tipado, Inv, ClientesBien, TipoCl
    <3> QED BY <3>3, ConocidaSigue
  <2> QED BY <2>1, <2>2
<1>4. ASSUME NEW h \in Clientes, cl'[h].pc = "anotar"
      PROVE  cl'[h].t \in metadatas' \cup solapadas'
  <2>1. cl'[h].t = cl[h].t /\ cl[h].t \in metadatas \cup solapadas
    BY <1>0, <1>4, AnotarSigue DEF Listadas
  <2>2. cl[h].t \in metadatas => cl[h].t \in metadatas' \cup solapadas
    BY <1>0, MetadatasPaso
  <2> QED BY <1>0, <2>1, <2>2
<1> QED BY <1>0, <1>1, <1>2, <1>3, <1>4 DEF Listadas

-----------------------------------------------------------------------------
(* The numbers of the .tmp files. *)

Hasta(k) == 0..(k - 1)
Renombrando(e, t) == comp[e].t = t /\ comp[e].pc = "renombrar"

\* They go from 0 on, but while a compaction renames them, and then no dump is
\* at work on the table; the dump that makes one has the first number free.  There
\* are so few that an uint8_t counts them.
Contigua(t) ==
  /\ \/ \E k \in Nat : k < TopeUint8 /\ Existentes(tmp[t]) = Hasta(k)
     \/ caida = "no" /\ \E e \in Entradas : Renombrando(e, t)
  /\ \A e \in Entradas : caida = "no" /\ Renombrando(e, t) =>
       Existentes(tmp[t]) = comp[e].porRenombrar /\ (dump.t = t => dump.pc \notin EnVolcado)
  /\ dump.t = t /\ dump.pc = "crear" =>
       dump.numero + 1 < TopeUint8 /\ Existentes(tmp[t]) = Hasta(dump.numero)
  /\ dump.t = t /\ dump.pc \in {"guardar", "escribir"} =>
       Existentes(tmp[t]) = Hasta(dump.numero + 1)

\* A step that makes and takes no .tmp file, and starts no rename or dump of one.
LEMMA ContiguaIgual ==
  ASSUME NEW t, Contigua(t), Existentes(tmp'[t]) = Existentes(tmp[t]), UNCHANGED caida,
         \A e \in Entradas : /\ Renombrando(e, t)' <=> Renombrando(e, t)
                             /\ Renombrando(e, t) => comp'[e].porRenombrar = comp[e].porRenombrar,
         dump'.t = t /\ dump'.pc \in EnVolcado =>
           /\ dump.t = t /\ dump.pc \in EnVolcado /\ dump'.numero = dump.numero
           /\ dump'.pc = "crear" <=> dump.pc = "crear"
  PROVE  Contigua(t)'
<1>1. \/ \E k \in Nat : k < TopeUint8 /\ Existentes(tmp'[t]) = Hasta(k)
      \/ caida' = "no" /\ \E e \in Entradas : Renombrando(e, t)'
  BY DEF Contigua
<1>2. ASSUME NEW e \in Entradas, caida' = "no", Renombrando(e, t)'
      PROVE  Existentes(tmp'[t]) = comp'[e].porRenombrar /\ (dump'.t = t => dump'.pc \notin EnVolcado)
  BY <1>2 DEF Contigua
<1>3. ASSUME dump'.t = t, dump'.pc \in EnVolcado
      PROVE  /\ dump'.pc = "crear" =>
                  dump'.numero + 1 < TopeUint8 /\ Existentes(tmp'[t]) = Hasta(dump'.numero)
             /\ dump'.pc # "crear" => Existentes(tmp'[t]) = Hasta(dump'.numero + 1)
  BY <1>3 DEF Contigua, EnVolcado
<1> QED BY <1>1, <1>2, <1>3 DEF Contigua, EnVolcado

LEMMA CuantosHasta ==
  ASSUME NEW k \in Nat
  PROVE  Cardinality(Hasta(k)) = k
<1>1. CASE k = 0
  <2>1. Hasta(k) = {}
    BY <1>1 DEF Hasta
  <2> QED BY <1>1, <2>1, FS_EmptySet
<1>2. CASE k # 0
  <2>1. 0 \in Int /\ k - 1 \in Int
    OBVIOUS
  <2>2. Cardinality(0..(k-1)) = IF 0 > k-1 THEN 0 ELSE k-1 - 0 + 1
    BY <2>1, FS_Interval, Zenon
  <2> QED BY <1>2, <2>2 DEF Hasta
<1> QED BY <1>1, <1>2

LEMMA MasUno ==
  ASSUME NEW k \in Nat
  PROVE  /\ Hasta(k + 1) = Hasta(k) \cup {k} /\ k \notin Hasta(k)
         /\ Hasta(0) = {}
BY DEF Hasta

\* The steps of the dump.
LEMMA ContiguaDump ==
  ASSUME Tipado, Dump, ~Muerte, NEW t \in Tablas \ solapadas', Contigua(t)
  PROVE  Contigua(t)'
<1>0. /\ DOMAIN tmp = Tablas /\ tmp[t] \in [Numeros -> Archivo]
      /\ dump.pc \in EnVolcado => dump.t \in Tablas
      /\ UNCHANGED <<comp, caida>>
  BY CambiosDump DEF Tipado, TipoTmp, TipoDump, EnVolcado, fallas
<1>d. PICK d \in TDump : d = dump
  BY DEF Tipado, TipoDump
<1>a. \A e \in Entradas : Renombrando(e, t)' <=> Renombrando(e, t)
  BY <1>0 DEF Renombrando
<1>1. CASE DumpSinNada
  BY <1>1, <1>0, <1>a, ContiguaIgual DEF DumpSinNada, vars, disco
<1>2. CASE DumpDespertar \/ Limpiar \/ \E u \in Tablas : ContarSinTabla(u)
  <2>1. dump'.pc \notin EnVolcado /\ UNCHANGED tmp
    <3>1. CASE DumpDespertar
      BY <3>1 DEF DumpDespertar, DumpDormido, EnVolcado, disco
    <3>2. CASE Limpiar
      BY <3>2 DEF Limpiar, DumpDormido, EnVolcado, disco
    <3>3. ASSUME NEW u \in Tablas, ContarSinTabla(u) PROVE dump'.pc \notin EnVolcado /\ UNCHANGED tmp
      BY <1>d, <3>3 DEF ContarSinTabla, EnDump, EnVolcado, disco, TDump
    <3> QED BY <1>2, <3>1, <3>2, <3>3
  <2> QED BY <1>0, <1>a, <2>1, ContiguaIgual
<1>3. ASSUME NEW u \in Tablas, Contar(u) PROVE Contigua(t)'
  <2>1. PICK n, b, m, x : n = NumeroDeTemporal(u) /\ b = elementos[u] % TopeUint8
                    /\ m = d.hechas \cup {u} /\ x = <<>>
    OBVIOUS
  <2>2. /\ UNCHANGED tmp
        /\ dump' = [d EXCEPT !.pc = "crear", !.t = u, !.hechas = m, !.numero = n, !.posicion = b,
                          !.escritos = x]
    BY <1>d, <1>3, <2>1 DEF Contar, disco
  <2>3. PICK f : f = [d EXCEPT !.pc = "crear", !.t = u, !.hechas = m, !.numero = n, !.posicion = b,
                          !.escritos = x]
    OBVIOUS
  <2>4. f.pc = "crear" /\ f.t = u /\ f.numero = n
    BY <2>3 DEF TDump
  <2>5. dump' = f
    BY <2>2, <2>3
  <2>6. CASE u = t
    <3>1. \A e \in Entradas : ~Renombrando(e, t)
      <4>1. ASSUME NEW e \in Entradas, Renombrando(e, t) PROVE t \in solapadas'
        <5>1. e \in Compactando(t) /\ comp[e].pc = "renombrar"
          BY <4>1 DEF Renombrando, Compactando
        <5> QED BY <1>3, <2>6, <5>1 DEF Contar
      <4> QED BY <4>1
    <3>2. PICK k \in Nat : k < TopeUint8 /\ Existentes(tmp[t]) = Hasta(k)
      BY <3>1 DEF Contigua
    <3>3. Cardinality(Existentes(tmp[t])) = k
      BY <3>2, CuantosHasta
    <3>4. k + 1 < TopeUint8
      <4>1. ~(k + 1 >= TopeUint8)
        BY <1>3, <2>6, <3>3 DEF Contar
      <4> QED BY <4>1, Constantes
    <3>5. n = k
      <4>1. k % TopeUint8 = k
        BY <3>2, Constantes
      <4> QED BY <2>1, <2>6, <3>3, <4>1 DEF NumeroDeTemporal
    <3> QED BY <1>a, <2>2, <2>4, <2>5, <3>1, <3>2, <3>4, <3>5 DEF Contigua
  <2>7. CASE u # t
    BY <1>0, <1>a, <2>2, <2>4, <2>5, <2>7, ContiguaIgual
  <2> QED BY <2>6, <2>7
<1>4. CASE Crear
  <2>1. /\ d.pc = "crear" /\ d.t \in Tablas
        /\ tmp' = [tmp EXCEPT ![d.t][d.numero] = <<>>]
        /\ dump' = [d EXCEPT !.pc = "guardar"]
    BY <1>0, <1>d, <1>4 DEF Crear, EnDump, EnVolcado
  <2>2. dump'.pc = "guardar" /\ dump'.t = d.t /\ dump'.numero = d.numero /\ d.numero \in Nat
        /\ d.numero \in Numeros
    BY <2>1, Constantes DEF TDump, Numeros
  <2>3. CASE d.t = t
    <3>1. Existentes(tmp[t]) = Hasta(d.numero) /\ \A e \in Entradas : caida = "no" => ~Renombrando(e, t)
      BY <1>d, <2>1, <2>3 DEF Contigua, EnVolcado
    <3>2. tmp'[t] = [tmp[t] EXCEPT ![d.numero] = <<>>]
      BY <1>0, <2>1, <2>3
    <3>3. Existentes(tmp'[t]) = Existentes(tmp[t]) \cup {d.numero}
      BY <1>0, <2>2, <3>2, VacioHay DEF Existentes
    <3>4. Existentes(tmp'[t]) = Hasta(d.numero + 1)
      BY <2>2, <3>1, <3>3, MasUno
    <3>5. d.numero + 1 \in Nat /\ d.numero + 1 < TopeUint8
      BY <1>d, <2>1, <2>2, <2>3 DEF Contigua
    <3>6. \E k \in Nat : k < TopeUint8 /\ Existentes(tmp'[t]) = Hasta(k)
      BY <3>4, <3>5
    <3> QED BY <1>0, <1>a, <2>2, <3>1, <3>4, <3>6 DEF Contigua
  <2>4. CASE d.t # t
    <3>1. tmp'[t] = tmp[t]
      BY <1>0, <2>1, <2>4
    <3> QED BY <1>0, <1>a, <2>2, <2>4, <3>1, ContiguaIgual
  <2> QED BY <2>3, <2>4
<1>5. CASE Guardar
  <2>1. d.pc = "guardar" /\ d.t \in Tablas /\ d.numero \in Nat /\ d.numero \in Numeros
    BY <1>0, <1>d, <1>5, Constantes DEF Guardar, EnDump, EnVolcado, TDump, Numeros
  <2>2. dump'.pc \in {"escribir", "iterar"} /\ dump'.t = d.t /\ dump'.numero = d.numero
    BY <1>d, <1>5 DEF Guardar, TDump
  <2>3. tmp'[t] = tmp[t]
    <3>1. CASE d.t = t
      <4>1. Existentes(tmp[t]) = Hasta(d.numero + 1)
        BY <1>d, <2>1, <3>1 DEF Contigua
      <4>2. tmp[t][d.numero] # NoExiste
        BY <2>1, <4>1, MasUno DEF Existentes
      <4> QED BY <1>d, <1>5, <3>1, <4>2 DEF Guardar
    <3>2. CASE d.t # t
      <4>1. UNCHANGED tmp \/ tmp' = [tmp EXCEPT ![d.t][d.numero] = d.escritos]
        BY <1>d, <1>5 DEF Guardar
      <4> QED BY <1>0, <3>2, <4>1
    <3> QED BY <3>1, <3>2
  <2> QED BY <1>0, <1>a, <1>d, <2>1, <2>2, <2>3, ContiguaIgual DEF EnVolcado
<1>6. CASE Escribir
  <2>1. /\ d.pc = "escribir" /\ d.t \in Tablas /\ d.numero \in Numeros
        /\ tmp[d.t][d.numero] # NoExiste
        /\ tmp' = [tmp EXCEPT ![d.t][d.numero] = Append(tmp[d.t][d.numero], Volcando[d.posicion])]
        /\ d.posicion \in DOMAIN Volcando
    BY <1>0, <1>d, <1>6 DEF Escribir, EnDump, EnVolcado, TDump
  <2>2. dump'.pc = "guardar" /\ dump'.t = d.t /\ dump'.numero = d.numero
    BY <1>d, <1>6 DEF Escribir, TDump
  <2>3. Existentes(tmp'[t]) = Existentes(tmp[t])
    <3>1. CASE d.t = t
      <4>1. TipoTmp'
        BY <1>6, TmpTipo
      <4>2. PICK x : x = Append(tmp[d.t][d.numero], Volcando[d.posicion])
        OBVIOUS
      <4>3. x # NoExiste
        <5>1. tmp[t][d.numero] \in Seq(Registros)
          BY <1>0, <2>1, <3>1 DEF Archivo
        <5>2. Volcando[d.posicion] \in Registros
          <6>1. Volcando \in Seq(Registros)
            BY <1>d, <2>1, VolcandoTipo DEF EnVolcado
          <6> QED BY <2>1, <6>1
        <5>3. x \in Seq(Registros)
          BY <3>1, <4>2, <5>1, <5>2
        <5> QED BY <5>3, Constantes
      <4>4. tmp'[t] = [tmp[t] EXCEPT ![d.numero] = x]
        BY <1>0, <2>1, <3>1, <4>2
      <4> QED BY <1>0, <2>1, <3>1, <4>3, <4>4 DEF Existentes
    <3>2. CASE d.t # t
      <4>1. tmp'[t] = tmp[t]
        BY <1>0, <2>1, <3>2
      <4> QED BY <4>1
    <3> QED BY <3>1, <3>2
  <2> QED BY <1>0, <1>a, <1>d, <2>1, <2>2, <2>3, ContiguaIgual DEF EnVolcado
<1>7. CASE DumpMuere
  BY <1>7 DEF DumpMuere, Muerte, Morir
<1> QED BY <1>1, <1>2, <1>3, <1>4, <1>5, <1>6, <1>7 DEF Dump

-----------------------------------------------------------------------------
\* Two compactions of a table that was not dropped are not at work at once.
LEMMA Sola ==
  ASSUME Tipado, NEW e \in Entradas, NEW f \in Entradas, comp[e].t \notin solapadas,
         comp[f].t = comp[e].t, Trabaja(e), Trabaja(f)
  PROVE  e = f
BY DEF Tipado, Inv, HilosBien, HiloBien

\* The steps of a compaction.
LEMMA ContiguaComp ==
  ASSUME Tipado, NEW e \in Entradas, Compactacion(e), ~Muerte,
         NEW t \in Tablas \ solapadas', Contigua(t), t \notin solapadas
  PROVE  Contigua(t)'
<1>0. /\ DOMAIN tmp = Tablas /\ tmp[t] \in [Numeros -> Archivo]
      /\ UNCHANGED <<dump, caida>>
      /\ DOMAIN comp = Entradas /\ DOMAIN comp[e] = CamposHilo
  BY CambiosComp DEF Tipado, TipoTmp, fallas, Inv, Tipos
<1>o. /\ DOMAIN comp' = Entradas /\ comp'[e].t = comp[e].t
      /\ \A f \in Entradas : f # e => comp'[f] = comp[f]
  BY CompOtros
<1>m. ~CompMuere(e) /\ caida = "no"
  <2>1. ~CompMuere(e)
    BY DEF CompMuere, Muerte, Morir
  <2> QED BY <2>1, ZenonT(60) DEF Compactacion, EnComp, Nacer, CompDespertar, Tomar, Renombrar,
        LevantarClaves, BorrarTmpc, BorrarBin, CrearBin, EscribirBin, GuardarBin, Soltar
<1>1. CASE Tomar(e) /\ comp[e].t = t
  <2>1. PICK hay : hay = Existentes(tmp[t])
    OBVIOUS
  <2>2. /\ UNCHANGED tmp
        /\ comp'[e].pc = IF hay = {} THEN "leer" ELSE "renombrar"
        /\ comp'[e].porRenombrar = hay
        /\ comp[e].pc = "espera"
    BY <1>0, <1>1, <2>1 DEF Tomar, EnComp, disco, CamposHilo
  <2>3. dump.t = t => dump.pc \notin EnVolcado
    BY <1>1 DEF Tomar, EnVolcado
  <2>4. ASSUME NEW f \in Entradas, Renombrando(f, t) PROVE f # e /\ Renombrando(f, t)'
                                                        /\ comp'[f].porRenombrar = comp[f].porRenombrar
    BY <1>o, <2>2, <2>4 DEF Renombrando
  <2>5. ASSUME NEW f \in Entradas, Renombrando(f, t)'
        PROVE  Existentes(tmp[t]) = comp'[f].porRenombrar
    <3>1. CASE f = e
      BY <2>1, <2>2, <3>1
    <3>2. CASE f # e
      <4>1. Renombrando(f, t) /\ comp'[f] = comp[f]
        BY <1>o, <2>5, <3>2 DEF Renombrando
      <4> QED BY <1>m, <4>1 DEF Contigua
    <3> QED BY <3>1, <3>2
  <2>6. \/ \E k \in Nat : k < TopeUint8 /\ Existentes(tmp[t]) = Hasta(k)
        \/ \E f \in Entradas : Renombrando(f, t)'
    BY <2>4 DEF Contigua
  <2> QED BY <1>0, <1>m, <2>2, <2>3, <2>5, <2>6 DEF Contigua, EnVolcado
<1>2. CASE Renombrar(e) /\ comp[e].t = t
  <2>1. PICK n \in comp[e].porRenombrar :
           /\ \/ tmp[t][n] = NoExiste /\ UNCHANGED <<tmp, tmpc>>
              \/ /\ tmp[t][n] # NoExiste
                 /\ tmp' = [tmp EXCEPT ![t][n] = NoExiste]
           /\ comp' = [comp EXCEPT ![e].porRenombrar = @ \ {n},
                ![e].pc = IF comp[e].porRenombrar = {n} THEN "leer" ELSE @]
    BY <1>2 DEF Renombrar
  <2>2. Renombrando(e, t)
    BY <1>2 DEF Renombrar, EnComp, Renombrando
  <2>3. Existentes(tmp[t]) = comp[e].porRenombrar /\ (dump.t = t => dump.pc \notin EnVolcado)
    BY <1>m, <2>2 DEF Contigua
  <2>4. n \in Numeros /\ tmp[t][n] # NoExiste
    BY <1>0, <2>1, <2>3 DEF Existentes
  <2>5. tmp'[t] = [tmp[t] EXCEPT ![n] = NoExiste]
    BY <1>0, <2>1, <2>4
  <2>6. Existentes(tmp'[t]) = Existentes(tmp[t]) \ {n}
    BY <1>0, <2>4, <2>5 DEF Existentes
  <2>7. /\ comp'[e].porRenombrar = comp[e].porRenombrar \ {n}
        /\ comp'[e].pc = IF comp[e].porRenombrar = {n} THEN "leer" ELSE "renombrar"
    BY <1>0, <2>1, <2>2 DEF CamposHilo, Renombrando
  <2>8. ASSUME NEW f \in Entradas, Renombrando(f, t)' PROVE f = e
    <3>1. CASE f # e
      <4>1. comp[f].t = t /\ comp[f].pc = "renombrar"
        BY <1>o, <2>8, <3>1 DEF Renombrando
      <4> QED BY <2>2, <4>1, Sola DEF Trabaja, Quietos, Renombrando
    <3> QED BY <3>1
  <2>9. CASE comp[e].porRenombrar = {n}
    <3>1. Existentes(tmp'[t]) = Hasta(0) /\ ~Renombrando(e, t)' /\ 0 < TopeUint8
      BY <2>3, <2>6, <2>7, <2>9, MasUno, Constantes DEF Renombrando
    <3> QED BY <1>0, <2>3, <2>8, <3>1 DEF Contigua, EnVolcado
  <2>10. CASE comp[e].porRenombrar # {n}
    <3>1. Renombrando(e, t)'
      BY <1>2, <1>o, <2>7, <2>10 DEF Renombrando
    <3> QED BY <1>0, <1>m, <2>3, <2>6, <2>7, <2>8, <3>1 DEF Contigua, EnVolcado
  <2> QED BY <2>9, <2>10
<1>3. CASE (Tomar(e) \/ Renombrar(e)) /\ comp[e].t # t
  <2>1. tmp'[t] = tmp[t]
    BY <1>0, <1>3 DEF Tomar, Renombrar, disco
  <2>2. \A f \in Entradas : /\ Renombrando(f, t)' <=> Renombrando(f, t)
                            /\ Renombrando(f, t) => comp'[f] = comp[f]
    BY <1>o, <1>3 DEF Renombrando
  <2> QED BY <1>0, <2>1, <2>2, ContiguaIgual
<1>4. CASE ~Tomar(e) /\ ~Renombrar(e)
  <2>1. UNCHANGED tmp
    BY <1>4, CambiosComp
  <2>2. comp[e].pc # "renombrar" /\ comp'[e].pc # "renombrar"
    <3>1. CASE Nacer(e)
      BY <1>0, <3>1 DEF Nacer, Muerte, Morir, EnComp, CamposHilo
    <3>2. CASE CompDespertar(e)
      BY <1>0, <3>2 DEF CompDespertar, Avanza, EnComp, CamposHilo
    <3>3. CASE LevantarClaves(e) \/ BorrarTmpc(e) \/ BorrarBin(e)
      BY <1>0, <3>3 DEF LevantarClaves, BorrarTmpc, BorrarBin, Avanza, EnComp, CamposHilo
    <3>4. CASE CrearBin(e)
      BY <1>0, <3>4 DEF CrearBin, EnComp, CamposHilo
    <3>5. CASE GuardarBin(e) \/ Soltar(e)
      BY <1>0, <3>5 DEF GuardarBin, Soltar, EnComp, CamposHilo
    <3>6. CASE EscribirBin(e)
      BY <1>0, <3>6 DEF EscribirBin, Avanza, EnComp, CamposHilo
    <3> QED BY <1>4, <1>m, <3>1, <3>2, <3>3, <3>4, <3>5, <3>6 DEF Compactacion
  <2>3. \A f \in Entradas : /\ Renombrando(f, t)' <=> Renombrando(f, t)
                            /\ Renombrando(f, t) => comp'[f] = comp[f]
    BY <1>o, <2>2 DEF Renombrando
  <2> QED BY <1>0, <2>1, <2>3, ContiguaIgual
<1> QED BY <1>1, <1>2, <1>3, <1>4

Numeradas == \A t \in Tablas \ solapadas : Contigua(t)

LEMMA ContiguaCaer ==
  ASSUME Tipado, Muerte, NEW t \in Tablas \ solapadas', Contigua(t)
  PROVE  Contigua(t)'
<1>1. /\ UNCHANGED <<tmp, comp, dump>>
      /\ \A e \in Entradas : ~Renombrando(e, t)
  <2>1. ASSUME NEW e \in Entradas, Renombrando(e, t) PROVE t \in solapadas'
    <3>1. e \in Compactando(t) /\ comp[e].pc = "renombrar"
      BY <2>1 DEF Compactando, Renombrando
    <3> QED BY <3>1 DEF Muerte, Caer
  <2> QED BY <2>1 DEF Muerte, Caer, disco
<1>2. \A e \in Entradas : Renombrando(e, t)' <=> Renombrando(e, t)
  BY <1>1 DEF Renombrando
<1> QED BY <1>1, <1>2 DEF Contigua

LEMMA NumeradasPaso ==
  ASSUME Tipado, SinEntradaNiHilo, Numeradas, [Next]_vars
  PROVE  Numeradas'
<1> SUFFICES ASSUME NEW t \in Tablas \ solapadas' PROVE Contigua(t)'
  BY DEF Numeradas
<1>0. t \notin solapadas /\ Contigua(t)
  BY SolapadasCrece DEF Numeradas
<1>a. DOMAIN comp = Entradas /\ DOMAIN tmp = Tablas
  BY DEF Tipado, TipoTmp, Inv, Tipos
<1>1. CASE Muerte
  BY <1>0, <1>1, ContiguaCaer
<1>2. CASE Apagar
  BY <1>0, <1>2, ContiguaCaer DEF Apagar, Muerte
<1>3. CASE UNCHANGED <<tmp, comp, dump, caida>>
  <2>1. \A e \in Entradas : Renombrando(e, t)' <=> Renombrando(e, t)
    BY <1>3 DEF Renombrando
  <2> QED BY <1>0, <1>3, <2>1, ContiguaIgual
<1>4. ASSUME NEW h \in Clientes, Pedido(h) PROVE UNCHANGED <<tmp, comp, dump, caida>>
  BY <1>4, CambiosPedido DEF fallas
<1>5. ASSUME NEW h \in Clientes, Atender(h), ~Muerte PROVE Contigua(t)'
  <2>0. UNCHANGED <<dump, caida>>
    BY <1>5, CambiosAtender DEF fallas
  <2>1. tmp'[t] = tmp[t]
    <3>1. UNCHANGED tmp \/ BorrarArchivos(h)
      BY <1>5, CambiosAtender
    <3>2. BorrarArchivos(h) => cl[h].t \in solapadas
      BY DEF BorrarArchivos, En, DeDrop, Tipado, Inv, ClientesBien
    <3> QED BY <1>0, <1>a, <3>1, <3>2 DEF BorrarArchivos
  <2>2. \A e \in Entradas : /\ Renombrando(e, t)' <=> Renombrando(e, t)
                            /\ Renombrando(e, t) => comp'[e] = comp[e]
    <3>1. CASE UNCHANGED comp
      BY <3>1 DEF Renombrando
    <3>2. CASE Anotar(h)
      <4>1. PICK e \in Entradas : mutex[e] = "nunca" /\ comp' = [comp EXCEPT ![e] = Hilo("nace", cl[h].t)]
        BY <3>2, EntradaNueva
      <4>2. comp[e].pc = "fin"
        BY <4>1 DEF SinEntradaNiHilo
      <4>3. comp'[e].pc = "nace" /\ \A f \in Entradas : f # e => comp'[f] = comp[f]
        BY <1>a, <4>1 DEF Hilo
      <4> QED BY <4>2, <4>3 DEF Renombrando
    <3> QED BY <1>5, <3>1, <3>2, CambiosAtender
  <2> QED BY <1>0, <2>0, <2>1, <2>2, ContiguaIgual
<1>6. CASE Dump /\ ~Muerte
  BY <1>0, <1>6, ContiguaDump
<1>7. ASSUME NEW e \in Entradas, Compactacion(e), ~Muerte PROVE Contigua(t)'
  BY <1>0, <1>7, ContiguaComp
<1>8. CASE Reiniciar
  <2>1. /\ UNCHANGED tmp /\ caida # "no" /\ dump'.pc = "dormido"
        /\ \A e \in Entradas : ~Renombrando(e, t)'
    <3>1. \A e \in Entradas : comp'[e].pc \in {"nace", "fin"}
      BY <1>8 DEF Reiniciar, HilosDe, Hilo
    <3> QED BY <1>8, <3>1 DEF Reiniciar, DumpDormido, disco, Renombrando
  <2>2. \E k \in Nat : k < TopeUint8 /\ Existentes(tmp[t]) = Hasta(k)
    BY <1>0, <2>1 DEF Contigua
  <2> QED BY <2>1, <2>2 DEF Contigua
<1> QED BY <1>1, <1>2, <1>3, <1>4, <1>5, <1>6, <1>7, <1>8 DEF Next, vars, disco, fallas

LEMMA NumeradasInit == Init => Numeradas
<1> SUFFICES ASSUME Init, NEW t \in Tablas PROVE Contigua(t)
  BY DEF Numeradas
<1>1. /\ Existentes(tmp[t]) = {} /\ dump.pc = "dormido"
      /\ \A e \in Entradas : comp[e].pc \in {"nace", "fin"}
  BY DEF Init, Existentes, DumpDormido, HilosDe, Hilo
<1>2. \E k \in Nat : k < TopeUint8 /\ Existentes(tmp[t]) = Hasta(k)
  <2>1. Hasta(0) = {}
    BY DEF Hasta
  <2>2. 0 \in Nat /\ 0 < TopeUint8
    BY Constantes
  <2> QED BY <1>1, <2>1, <2>2
<1> QED BY <1>1, <1>2 DEF Contigua, Renombrando

-----------------------------------------------------------------------------
\* A .tmp file the dump is not at.
Asentado(t, n) ==
  /\ n \in Existentes(tmp[t])
  /\ ~(dump.pc \in EnVolcado /\ dump.t = t /\ dump.numero = n)

\* The file the dump is at, it was at before, or it has yet to make it.
LEMMA SigueEnElMismo ==
  ASSUME Tipado, Dump, ~Muerte, dump'.pc \in {"guardar", "escribir"}
  PROVE  dump.pc \in EnVolcado /\ dump'.t = dump.t /\ dump'.numero = dump.numero
<1>d. PICK d \in TDump : d = dump
  BY DEF Tipado, TipoDump
<1>1. CASE DumpSinNada
  <2>1. dump.pc = "dormido" /\ UNCHANGED dump
    BY <1>1 DEF DumpSinNada, EnDump, vars
  <2> QED BY <2>1
<1>2. CASE DumpDespertar \/ Limpiar
  <2>1. CASE DumpDespertar
    <3>1. dump'.pc = "iterar"
      BY <2>1 DEF DumpDespertar, DumpDormido
    <3> QED BY <3>1
  <2>2. CASE Limpiar
    <3>1. dump'.pc = "dormido"
      BY <2>2 DEF Limpiar, DumpDormido
    <3> QED BY <3>1
  <2> QED BY <1>2, <2>1, <2>2
<1>3. ASSUME NEW u \in Tablas, Contar(u) PROVE FALSE
  <2>1. PICK n, b, m, x : n = NumeroDeTemporal(u) /\ b = elementos[u] % TopeUint8
                    /\ m = d.hechas \cup {u} /\ x = <<>>
    OBVIOUS
  <2>2. dump' = [d EXCEPT !.pc = "crear", !.t = u, !.hechas = m, !.numero = n, !.posicion = b,
                          !.escritos = x]
    BY <1>d, <1>3, <2>1 DEF Contar
  <2>3. dump'.pc = "crear"
    BY <2>2 DEF TDump
  <2> QED BY <2>3
<1>4. ASSUME NEW u \in Tablas, ContarSinTabla(u) PROVE FALSE
  BY <1>d, <1>4 DEF ContarSinTabla, EnDump, TDump
<1>5. CASE Crear \/ Guardar \/ Escribir
  BY <1>d, <1>5 DEF Crear, Guardar, Escribir, EnDump, EnVolcado, TDump
<1>6. ~DumpMuere
  BY DEF DumpMuere, Muerte, Morir
<1> QED BY <1>1, <1>2, <1>3, <1>4, <1>5, <1>6 DEF Dump

\* The dump takes no file away, and changes only the one it is at.
LEMMA TmpDump ==
  ASSUME Tipado, Dump, ~Muerte, NEW t \in Tablas \ solapadas', Contigua(t)
  PROVE  /\ Existentes(tmp[t]) \subseteq Existentes(tmp'[t])
         /\ \A n : Asentado(t, n) => Asentado(t, n)' /\ tmp'[t][n] = tmp[t][n]
         /\ \A n \in Existentes(tmp[t]) : ToSet(tmp[t][n]) \subseteq ToSet(tmp'[t][n])
<1>0. /\ DOMAIN tmp = Tablas /\ tmp[t] \in [Numeros -> Archivo]
      /\ dump.pc \in EnVolcado => dump.t \in Tablas
  BY DEF Tipado, TipoTmp, TipoDump, EnVolcado
<1>d. PICK d \in TDump : d = dump
  BY DEF Tipado, TipoDump
<1>1. ASSUME Existentes(tmp[t]) \subseteq Existentes(tmp'[t]), NEW n, Asentado(t, n) PROVE Asentado(t, n)'
  <2>1. n \in Existentes(tmp'[t])
    BY <1>1 DEF Asentado
  <2>2. ASSUME dump'.pc = "crear", dump'.t = t, dump'.numero = n PROVE FALSE
    <3>1. Existentes(tmp'[t]) = Hasta(n)
      BY <2>2, ContiguaDump DEF Contigua
    <3>2. Existentes(tmp[t]) \subseteq Numeros
      BY <1>0 DEF Existentes
    <3>3. n \in Nat
      BY <1>1, <3>2, Constantes DEF Asentado, Numeros
    <3> QED BY <2>1, <3>1, <3>3, MasUno
  <2>3. ASSUME dump'.pc \in {"guardar", "escribir"}, dump'.t = t, dump'.numero = n PROVE FALSE
    BY <1>1, <2>3, SigueEnElMismo DEF Asentado
  <2> QED BY <2>1, <2>2, <2>3 DEF Asentado, EnVolcado
<1>s. SUFFICES /\ Existentes(tmp[t]) \subseteq Existentes(tmp'[t])
               /\ \A n : Asentado(t, n) => tmp'[t][n] = tmp[t][n]
               /\ \A n \in Existentes(tmp[t]) : ToSet(tmp[t][n]) \subseteq ToSet(tmp'[t][n])
  BY <1>1
<1>2. CASE tmp'[t] = tmp[t]
  BY <1>2
<1>3. CASE Crear
  <2>1. d.pc = "crear" /\ tmp' = [tmp EXCEPT ![d.t][d.numero] = <<>>] /\ d.t \in Tablas
    BY <1>0, <1>d, <1>3 DEF Crear, EnDump, EnVolcado
  <2>2. CASE d.t = t
    <3>1. d.numero \notin Existentes(tmp[t])
      BY <1>d, <2>1, <2>2, MasUno, Constantes DEF Contigua, TDump, Numeros
    <3>2. tmp'[t] = [tmp[t] EXCEPT ![d.numero] = <<>>]
      BY <1>0, <2>1, <2>2
    <3>3. \A n \in Existentes(tmp[t]) : n \in Existentes(tmp'[t]) /\ tmp'[t][n] = tmp[t][n]
      BY <1>0, <3>1, <3>2 DEF Existentes
    <3> QED BY <3>3 DEF Asentado
  <2>3. CASE d.t # t
    BY <1>0, <1>2, <2>1, <2>3
  <2> QED BY <2>2, <2>3
<1>4. CASE Guardar
  <2>1. d.pc = "guardar" /\ d.t \in Tablas /\ d.numero \in Nat
    BY <1>0, <1>d, <1>4, Constantes DEF Guardar, EnDump, EnVolcado, TDump, Numeros
  <2>2. CASE d.t = t
    <3>1. Existentes(tmp[t]) = Hasta(d.numero + 1)
      BY <1>d, <2>1, <2>2 DEF Contigua
    <3>2. tmp[t][d.numero] # NoExiste
      BY <2>1, <3>1, MasUno DEF Existentes
    <3> QED BY <1>2, <1>d, <1>4, <2>2, <3>2 DEF Guardar
  <2>3. CASE d.t # t
    <3>1. UNCHANGED tmp \/ tmp' = [tmp EXCEPT ![d.t][d.numero] = d.escritos]
      BY <1>d, <1>4 DEF Guardar
    <3> QED BY <1>0, <1>2, <2>3, <3>1
  <2> QED BY <2>2, <2>3
<1>5. CASE Escribir
  <2>1. /\ d.pc = "escribir" /\ d.t \in Tablas /\ d.numero \in Numeros
        /\ tmp[d.t][d.numero] # NoExiste
        /\ tmp' = [tmp EXCEPT ![d.t][d.numero] = Append(tmp[d.t][d.numero], Volcando[d.posicion])]
        /\ d.posicion \in DOMAIN Volcando
    BY <1>0, <1>d, <1>5 DEF Escribir, EnDump, EnVolcado, TDump
  <2>2. CASE d.t = t
    <3>1. PICK s \in Seq(Registros) : s = tmp[t][d.numero]
      BY <1>0, <2>1, <2>2 DEF Archivo
    <3>0. Volcando \in Seq(Registros)
      BY <1>d, <2>1, VolcandoTipo DEF EnVolcado
    <3>2. PICK x \in Registros : x = Volcando[d.posicion]
      BY <2>1, <3>0
    <3>3. PICK q : q = Append(s, x)
      OBVIOUS
    <3>4. q # NoExiste /\ ToSet(q) = ToSet(s) \cup {x}
      BY <3>3, DetrasDe, Constantes
    <3>5. tmp'[t] = [tmp[t] EXCEPT ![d.numero] = q]
      BY <1>0, <2>1, <2>2, <3>1, <3>2, <3>3
    <3>6. \A n \in Existentes(tmp[t]) :
            /\ n \in Existentes(tmp'[t]) /\ ToSet(tmp[t][n]) \subseteq ToSet(tmp'[t][n])
            /\ n # d.numero => tmp'[t][n] = tmp[t][n]
      BY <1>0, <3>1, <3>4, <3>5 DEF Existentes
    <3>7. \A n : Asentado(t, n) => n \in Existentes(tmp[t]) /\ n # d.numero
      BY <1>d, <2>1, <2>2 DEF Asentado, EnVolcado
    <3> QED BY <3>6, <3>7
  <2>3. CASE d.t # t
    BY <1>0, <1>2, <2>1, <2>3
  <2> QED BY <2>2, <2>3
<1> QED BY <1>2, <1>3, <1>4, <1>5, CambiosDump

-----------------------------------------------------------------------------
(* Where a record is safe. *)

ConLasClaves == {"borrarTmpc", "borrarBin", "crearBin"}

\* A compaction of t has the record, or the .tmpc it has yet to read does.
EnCurso(e, t, r) ==
  /\ comp[e].t = t
  /\ \/ /\ comp[e].pc = "renombrar"
        /\ \E n \in Existentes(tmpc[t]) \ comp[e].porRenombrar : r \in ToSet(tmpc[t][n])
     \/ comp[e].pc = "leer" /\ r \in EnArchivos(tmpc[t])
     \/ comp[e].pc \in ConLasClaves /\ r \in ToSet(comp[e].claves)
     \/ /\ comp[e].pc = "escribir"
        /\ \E i \in 1..Len(comp[e].claves) : i >= comp[e].j /\ r = comp[e].claves[i]
     \/ /\ comp[e].pc = "guardar"
        /\ \E i \in 1..Len(comp[e].claves) : i > comp[e].j /\ r = comp[e].claves[i]

\* The partitions of t are not about to be deleted.
BinFirme(t) ==
  caida # "no" \/ \A e \in Entradas : comp[e].t = t => comp[e].pc \notin ConLasClaves

EnTmp(t, r) == \E n \in Numeros : Asentado(t, n) /\ r \in ToSet(tmp[t][n])

Firme(t, r) ==
  \/ EnTmp(t, r)
  \/ r \in EnArchivos(bin[t]) /\ BinFirme(t)
  \/ caida = "no" /\ \E e \in Entradas : EnCurso(e, t, r)

LEMMA EnTmpIgual ==
  ASSUME NEW t, NEW r, tmp'[t] = tmp[t], UNCHANGED dump
  PROVE  EnTmp(t, r)' <=> EnTmp(t, r)
BY DEF EnTmp, Asentado

LEMMA TmpReinicio ==
  ASSUME NEW t, NEW r, Reiniciar, EnTmp(t, r)
  PROVE  EnTmp(t, r)'
<1>1. UNCHANGED tmp /\ dump'.pc = "dormido"
  BY DEF Reiniciar, DumpDormido, disco
<1> QED BY <1>1 DEF EnTmp, Asentado, EnVolcado

\* A step that takes nothing from the files of t, and is of no compaction of t
\* at work.
LEMMA FirmeIgual ==
  ASSUME NEW t, NEW r, Firme(t, r), UNCHANGED caida,
         EnTmp(t, r) => EnTmp(t, r)', tmpc'[t] = tmpc[t], bin'[t] = bin[t],
         \A e \in Entradas :
           \/ comp'[e] = comp[e] \/ (comp[e].t # t /\ comp'[e].t # t)
           \/ comp[e].pc \in Quietos /\ comp'[e].pc \notin ConLasClaves
  PROVE  Firme(t, r)'
<1>1. CASE EnTmp(t, r)
  BY <1>1 DEF Firme
<1>2. CASE r \in EnArchivos(bin[t]) /\ BinFirme(t)
  BY <1>2 DEF Firme, BinFirme
<1>3. ASSUME NEW e \in Entradas, EnCurso(e, t, r), caida = "no" PROVE Firme(t, r)'
  <2>1. comp[e].t = t /\ comp[e].pc \notin Quietos
    BY <1>3 DEF EnCurso, Quietos, ConLasClaves
  <2>2. comp'[e] = comp[e]
    BY <2>1
  <2>3. EnCurso(e, t, r)'
    BY <1>3, <2>2 DEF EnCurso
  <2> QED BY <1>3, <2>3 DEF Firme
<1> QED BY <1>1, <1>2, <1>3 DEF Firme

\* The steps of the dump lose nothing of the files.
LEMMA FirmeDump ==
  ASSUME Tipado, Dump, ~Muerte, NEW t \in Tablas \ solapadas', Contigua(t), NEW r, Firme(t, r)
  PROVE  Firme(t, r)'
<1>1. UNCHANGED <<tmpc, bin, comp, caida>>
  BY CambiosDump DEF fallas
<1>2. EnTmp(t, r) => EnTmp(t, r)'
  BY TmpDump DEF EnTmp
<1> QED BY <1>1, <1>2, FirmeIgual

\* Of what an attention thread does, only CREATE takes anything from them.
LEMMA FirmeAtender ==
  ASSUME Tipado, SinEntradaNiHilo, NEW h \in Clientes, Atender(h), ~Muerte,
         NEW t \in Tablas \ solapadas, NEW r, Firme(t, r),
         CrearParticiones(h) => cl[h].t # t
  PROVE  Firme(t, r)'
<1>0. /\ DOMAIN tmp = Tablas /\ DOMAIN tmpc = Tablas /\ DOMAIN bin = Tablas /\ DOMAIN comp = Entradas
      /\ UNCHANGED caida
  BY CambiosAtender DEF Tipado, TipoTmp, TipoTmpc, TipoBin, Inv, Tipos, fallas
<1>1. BorrarArchivos(h) => cl[h].t # t
  BY DEF BorrarArchivos, En, DeDrop, Tipado, Inv, ClientesBien
<1>2. tmp'[t] = tmp[t] /\ tmpc'[t] = tmpc[t]
  <2>1. UNCHANGED <<tmp, tmpc>> \/ BorrarArchivos(h)
    BY CambiosAtender
  <2> QED BY <1>0, <1>1, <2>1 DEF BorrarArchivos
<1>3. bin'[t] = bin[t]
  <2>1. UNCHANGED bin \/ BorrarArchivos(h) \/ CrearParticiones(h)
    BY CambiosAtender
  <2> QED BY <1>0, <1>1, <2>1 DEF BorrarArchivos, CrearParticiones
<1>4. \A e \in Entradas : comp'[e] = comp[e] \/ (comp[e].pc \in Quietos /\ comp'[e].pc \notin ConLasClaves)
  <2>1. CASE UNCHANGED comp
    BY <2>1
  <2>2. CASE Anotar(h)
    <3>1. PICK e \in Entradas : mutex[e] = "nunca" /\ comp' = [comp EXCEPT ![e] = Hilo("nace", cl[h].t)]
      BY <2>2, EntradaNueva
    <3>2. comp[e].pc = "fin"
      BY <3>1 DEF SinEntradaNiHilo
    <3>3. comp'[e].pc = "nace" /\ \A f \in Entradas : f # e => comp'[f] = comp[f]
      BY <1>0, <3>1 DEF Hilo
    <3> QED BY <3>2, <3>3 DEF Quietos, ConLasClaves
  <2> QED BY <2>1, <2>2, CambiosAtender
<1>5. EnTmp(t, r) => EnTmp(t, r)'
  BY <1>2, EnTmpIgual, CambiosAtender
<1> QED BY <1>0, <1>2, <1>3, <1>4, <1>5, FirmeIgual

-----------------------------------------------------------------------------
\* A compaction of t loses nothing of it.
LEMMA FirmeComp ==
  ASSUME Tipado, NEW e \in Entradas, Compactacion(e), ~Muerte, NEW t \in Tablas \ solapadas,
         t \notin solapadas', comp[e].t = t, Contigua(t), NEW r \in Registros, Firme(t, r)
  PROVE  \E x \in Registros : Firme(t, x)' /\ Cubre(x, r)
<1>0. /\ DOMAIN tmp = Tablas /\ DOMAIN tmpc = Tablas /\ DOMAIN bin = Tablas
      /\ tmp[t] \in [Numeros -> Archivo] /\ tmpc[t] \in [Numeros -> Archivo]
      /\ bin[t] \in [NumerosBin -> Archivo]
      /\ DOMAIN comp = Entradas /\ DOMAIN comp[e] = CamposHilo /\ comp[e] \in TComp
      /\ UNCHANGED <<caida, dump>>
  BY CambiosComp DEF Tipado, TipoTmp, TipoTmpc, TipoBin, TipoComp, Inv, Tipos, fallas
<1>o. /\ DOMAIN comp' = Entradas /\ comp'[e].t = t
      /\ \A f \in Entradas : f # e => comp'[f] = comp[f]
  BY CompOtros
<1>m. ~CompMuere(e) /\ caida = "no"
  <2>1. ~CompMuere(e)
    BY DEF CompMuere, Muerte, Morir
  <2> QED BY <2>1, ZenonT(60) DEF Compactacion, EnComp, Nacer, CompDespertar, Tomar, Renombrar,
        LevantarClaves, BorrarTmpc, BorrarBin, CrearBin, EscribirBin, GuardarBin, Soltar
<1>c. Cubre(r, r)
  BY CubreSiempre
\* No other compaction of the table is at work.
<1>s. ASSUME Trabaja(e), NEW f \in Entradas, comp[f].t = t, f # e PROVE comp[f].pc \in Quietos
  BY <1>s, Sola DEF Trabaja
<1>f. ASSUME Trabaja(e), NEW x, NEW f \in Entradas, EnCurso(f, t, x) PROVE f = e
  BY <1>s, <1>f DEF EnCurso, Quietos, ConLasClaves
<1>b. ASSUME Trabaja(e), comp'[e].pc \notin ConLasClaves PROVE BinFirme(t)'
  BY <1>b, <1>s, <1>o DEF BinFirme, Quietos, ConLasClaves
<1>n. ASSUME comp[e].pc \in ConLasClaves PROVE ~BinFirme(t)
  BY <1>m, <1>n DEF BinFirme
<1>e. ASSUME UNCHANGED tmp, EnTmp(t, r) PROVE Firme(t, r)'
  BY <1>0, <1>e, EnTmpIgual DEF Firme
<1>1. CASE Nacer(e) \/ CompDespertar(e) \/ Tomar(e)
  <2>1. comp[e].pc \in Quietos /\ comp'[e].pc \notin ConLasClaves
    <3>1. CASE Nacer(e)
      BY <1>0, <3>1 DEF Nacer, Muerte, Morir, EnComp, Quietos, ConLasClaves, CamposHilo
    <3>2. CASE CompDespertar(e) \/ Tomar(e)
      BY <1>0, <3>2 DEF CompDespertar, Tomar, Avanza, EnComp, Quietos, ConLasClaves, CamposHilo
    <3> QED BY <1>1, <3>1, <3>2
  <2>2. UNCHANGED <<tmp, tmpc, bin>>
    <3>1. CASE Nacer(e)
      BY <3>1 DEF Nacer, Muerte, Morir, disco
    <3>2. CASE CompDespertar(e) \/ Tomar(e)
      BY <3>2 DEF CompDespertar, Tomar, disco
    <3> QED BY <1>1, <3>1, <3>2
  <2>3. Firme(t, r)'
    BY <1>0, <1>o, <1>e, <2>1, <2>2, FirmeIgual
  <2> QED BY <1>c, <2>3
<1>2. CASE Renombrar(e)
  <2>1. PICK n \in comp[e].porRenombrar :
           /\ \/ tmp[t][n] = NoExiste /\ UNCHANGED <<tmp, tmpc>>
              \/ /\ tmp[t][n] # NoExiste
                 /\ tmpc' = [tmpc EXCEPT ![t][n] = tmp[t][n]]
                 /\ tmp' = [tmp EXCEPT ![t][n] = NoExiste]
           /\ comp' = [comp EXCEPT ![e].porRenombrar = @ \ {n},
                ![e].pc = IF comp[e].porRenombrar = {n} THEN "leer" ELSE @]
           /\ UNCHANGED bin
    BY <1>2 DEF Renombrar
  <2>2. Renombrando(e, t) /\ Trabaja(e)
    BY <1>2 DEF Renombrar, EnComp, Renombrando, Trabaja, Quietos
  <2>3. n \in Numeros /\ tmp[t][n] # NoExiste
    BY <1>0, <1>m, <2>1, <2>2 DEF Contigua, Existentes
  <2>4. /\ tmp'[t] = [tmp[t] EXCEPT ![n] = NoExiste]
        /\ tmpc'[t] = [tmpc[t] EXCEPT ![n] = tmp[t][n]]
    BY <1>0, <2>1, <2>3
  <2>5. /\ comp'[e].porRenombrar = comp[e].porRenombrar \ {n}
        /\ comp'[e].pc = IF comp[e].porRenombrar = {n} THEN "leer" ELSE "renombrar"
        /\ comp'[e].pc \notin ConLasClaves
    BY <1>0, <2>1, <2>2 DEF CamposHilo, Renombrando, ConLasClaves
  <2>6. ASSUME NEW m \in Existentes(tmpc'[t]) \ comp'[e].porRenombrar, r \in ToSet(tmpc'[t][m])
        PROVE  Firme(t, r)'
    <3>1. EnCurso(e, t, r)'
      <4>1. CASE comp'[e].pc = "renombrar"
        BY <1>o, <2>6, <4>1 DEF EnCurso
      <4>2. CASE comp'[e].pc = "leer"
        BY <1>o, <2>6, <4>2 DEF EnCurso, EnArchivos
      <4> QED BY <2>5, <4>1, <4>2
    <3> QED BY <1>0, <1>m, <3>1 DEF Firme
  <2>7. CASE EnTmp(t, r)
    <3>1. PICK m \in Numeros : Asentado(t, m) /\ m \in Existentes(tmp[t]) /\ r \in ToSet(tmp[t][m])
      BY <2>7 DEF EnTmp, Asentado
    <3>2. CASE m = n
      <4>1. n \in Existentes(tmpc'[t]) \ comp'[e].porRenombrar /\ r \in ToSet(tmpc'[t][n])
        BY <1>0, <2>3, <2>4, <2>5, <3>1, <3>2 DEF Existentes
      <4> QED BY <1>c, <2>6, <4>1
    <3>3. CASE m # n
      <4>1. m \in Existentes(tmp'[t]) /\ tmp'[t][m] = tmp[t][m]
        BY <1>0, <2>4, <3>1, <3>3 DEF Existentes
      <4>2. EnTmp(t, r)'
        BY <1>0, <3>1, <4>1 DEF EnTmp, Asentado
      <4> QED BY <1>c, <4>2 DEF Firme
    <3> QED BY <3>2, <3>3
  <2>8. CASE r \in EnArchivos(bin[t])
    BY <1>b, <1>c, <2>1, <2>2, <2>5, <2>8 DEF Firme
  <2>9. ASSUME NEW f \in Entradas, EnCurso(f, t, r) PROVE Firme(t, r)'
    <3>1. PICK m \in Existentes(tmpc[t]) \ comp[e].porRenombrar : r \in ToSet(tmpc[t][m])
      BY <1>f, <2>2, <2>9 DEF EnCurso, Renombrando, ConLasClaves
    <3>2. m \in Existentes(tmpc'[t]) \ comp'[e].porRenombrar /\ tmpc'[t][m] = tmpc[t][m]
      BY <1>0, <2>1, <2>4, <2>5, <3>1 DEF Existentes
    <3> QED BY <2>6, <3>1, <3>2
  <2> QED BY <1>c, <2>7, <2>8, <2>9 DEF Firme
<1>3. CASE LevantarClaves(e)
  <2>1. PICK s \in Contenidos(tmpc[t]), b \in Contenidos(bin[t]) :
          comp' = [comp EXCEPT ![e].pc = "borrarTmpc", ![e].claves = Levantar(@, s \o b)]
    BY <1>3 DEF LevantarClaves
  <2>2. comp[e].pc = "leer" /\ Trabaja(e) /\ UNCHANGED tmp
    BY <1>3 DEF LevantarClaves, EnComp, Trabaja, Quietos, disco
  <2>3. PICK q \in Seq(Registros) : /\ q = s \o b
                                    /\ EnArchivos(tmpc[t]) \cup EnArchivos(bin[t]) \subseteq ToSet(q)
    BY LeidosTipo
  <2>4. PICK k \in Seq(Registros) : k = comp[e].claves
    BY <1>0 DEF TComp, THilo
  <2>5. PICK l \in Seq(Registros) : l = Levantar(k, q)
    BY LevantarTipo
  <2>6. comp'[e].pc = "borrarTmpc" /\ comp'[e].claves = l
    BY <1>0, <2>1, <2>3, <2>4, <2>5 DEF CamposHilo
  <2>7. CASE EnTmp(t, r)
    BY <1>c, <1>e, <2>2, <2>7
  <2>8. CASE r \in EnArchivos(bin[t]) \cup EnArchivos(tmpc[t])
    <3>1. PICK x \in ToSet(l) : Cubre(x, r)
      BY <2>3, <2>5, <2>8, LevantarCubre
    <3>2. x \in Registros
      BY <3>1 DEF ToSet
    <3>3. EnCurso(e, t, x)'
      BY <1>o, <2>6, <3>1 DEF EnCurso, ConLasClaves
    <3> QED BY <1>0, <1>m, <3>1, <3>2, <3>3 DEF Firme
  <2>9. ASSUME NEW f \in Entradas, EnCurso(f, t, r) PROVE r \in EnArchivos(tmpc[t])
    BY <1>f, <2>2, <2>9 DEF EnCurso, ConLasClaves
  <2> QED BY <2>7, <2>8, <2>9 DEF Firme
<1>4. CASE BorrarTmpc(e) \/ BorrarBin(e)
  <2>1. /\ comp[e].pc \in ConLasClaves /\ Trabaja(e) /\ UNCHANGED tmp
        /\ comp'[e].pc \in ConLasClaves /\ comp'[e].claves = comp[e].claves
    BY <1>0, <1>4 DEF BorrarTmpc, BorrarBin, EnComp, Avanza, ConLasClaves, Trabaja, Quietos, CamposHilo
  <2>2. ASSUME NEW f \in Entradas, EnCurso(f, t, r) PROVE Firme(t, r)'
    <3>1. r \in ToSet(comp[e].claves)
      BY <1>f, <2>1, <2>2 DEF EnCurso, ConLasClaves
    <3>2. EnCurso(e, t, r)'
      BY <1>o, <2>1, <3>1 DEF EnCurso
    <3> QED BY <1>0, <1>m, <3>2 DEF Firme
  <2> QED BY <1>c, <1>e, <1>n, <2>1, <2>2 DEF Firme
<1>5. CASE CrearBin(e)
  <2>1. /\ comp[e].pc \in ConLasClaves /\ Trabaja(e) /\ UNCHANGED tmp
        /\ comp'[e].pc = "escribir" /\ comp'[e].claves = comp[e].claves /\ comp'[e].j = 1
    BY <1>0, <1>5 DEF CrearBin, EnComp, ConLasClaves, Trabaja, Quietos, CamposHilo
  <2>2. ASSUME NEW f \in Entradas, EnCurso(f, t, r) PROVE Firme(t, r)'
    <3>1. r \in ToSet(comp[e].claves)
      BY <1>f, <2>1, <2>2 DEF EnCurso, ConLasClaves
    <3>2. PICK i \in 1..Len(comp[e].claves) : r = comp[e].claves[i]
      BY <1>0, <3>1 DEF ToSet, TComp, THilo
    <3>3. EnCurso(e, t, r)'
      BY <1>o, <2>1, <3>2 DEF EnCurso
    <3> QED BY <1>0, <1>m, <3>3 DEF Firme
  <2> QED BY <1>c, <1>e, <1>n, <2>1, <2>2 DEF Firme
<1>6. CASE EscribirBin(e)
  <2>0. PICK g \in Registros, p \in NumerosBin, s \in Seq(Registros) :
           /\ comp[e].j \in 1..Len(comp[e].claves) /\ g = comp[e].claves[comp[e].j]
           /\ p = Particion(g.key) /\ comp[e].t \in Tablas
           /\ s = bin[comp[e].t][p]
           /\ bin' = [bin EXCEPT ![comp[e].t][p] = Append(s, g)]
    BY <1>6, EscribirBinBien
  <2>1. /\ comp[e].j \in 1..Len(comp[e].claves) /\ g = comp[e].claves[comp[e].j]
        /\ s = bin[t][p]
        /\ bin' = [bin EXCEPT ![t][p] = Append(s, g)]
    BY <2>0
  <2>2. /\ comp[e].pc = "escribir" /\ Trabaja(e) /\ UNCHANGED tmp
        /\ comp'[e].pc = "guardar" /\ comp'[e].claves = comp[e].claves /\ comp'[e].j = comp[e].j
    BY <1>0, <1>6 DEF EscribirBin, EnComp, Avanza, Trabaja, Quietos, CamposHilo
  <2>3. PICK q : q = Append(s, g)
    OBVIOUS
  <2>4. q # NoExiste /\ ToSet(q) = ToSet(s) \cup {g} /\ s # NoExiste
    BY <2>3, DetrasDe, Constantes
  <2>5. bin'[t] = [bin[t] EXCEPT ![p] = q]
    BY <1>0, <2>1, <2>3
  <2>6. \A n \in Existentes(bin[t]) : n \in Existentes(bin'[t]) /\ ToSet(bin[t][n]) \subseteq ToSet(bin'[t][n])
    BY <1>0, <2>1, <2>4, <2>5 DEF Existentes
  <2>7. p \in Existentes(bin'[t]) /\ g \in ToSet(bin'[t][p])
    BY <1>0, <2>4, <2>5 DEF Existentes
  <2>8. EnArchivos(bin[t]) \cup {g} \subseteq EnArchivos(bin'[t])
    BY <2>6, <2>7 DEF EnArchivos
  <2>9. BinFirme(t)'
    BY <1>b, <2>2 DEF ConLasClaves
  <2>10. ASSUME NEW f \in Entradas, EnCurso(f, t, r) PROVE Firme(t, r)'
    <3>1. PICK i \in 1..Len(comp[e].claves) : i >= comp[e].j /\ r = comp[e].claves[i]
      BY <1>f, <2>2, <2>10 DEF EnCurso, ConLasClaves
    <3>2. CASE i = comp[e].j
      BY <2>1, <2>8, <2>9, <3>1, <3>2 DEF Firme
    <3>3. CASE i # comp[e].j
      <4>1. i > comp[e].j
        BY <1>0, <2>1, <3>1, <3>3
      <4>2. EnCurso(e, t, r)'
        BY <1>o, <2>2, <3>1, <4>1 DEF EnCurso
      <4> QED BY <1>0, <1>m, <4>2 DEF Firme
    <3> QED BY <3>2, <3>3
  <2> QED BY <1>c, <1>e, <2>2, <2>8, <2>9, <2>10 DEF Firme
<1>7. CASE GuardarBin(e)
  <2>1. /\ comp[e].pc = "guardar" /\ Trabaja(e) /\ UNCHANGED <<tmp, bin>>
        /\ comp'[e].pc = "escribir" /\ comp'[e].claves = comp[e].claves /\ comp'[e].j = comp[e].j + 1
        /\ comp[e].j \in Nat
    BY <1>0, <1>7 DEF GuardarBin, EnComp, Trabaja, Quietos, CamposHilo, TComp, THilo, disco
  <2>2. BinFirme(t)'
    BY <1>b, <2>1 DEF ConLasClaves
  <2>3. ASSUME NEW f \in Entradas, EnCurso(f, t, r) PROVE Firme(t, r)'
    <3>1. PICK i \in 1..Len(comp[e].claves) : i > comp[e].j /\ r = comp[e].claves[i]
      BY <1>f, <2>1, <2>3 DEF EnCurso, ConLasClaves
    <3>2. i >= comp[e].j + 1
      BY <2>1, <3>1
    <3>3. EnCurso(e, t, r)'
      BY <1>o, <2>1, <3>1, <3>2 DEF EnCurso
    <3> QED BY <1>0, <1>m, <3>3 DEF Firme
  <2> QED BY <1>c, <1>e, <2>1, <2>2, <2>3 DEF Firme
<1>8. CASE Soltar(e)
  <2>1. /\ comp[e].pc = "escribir" /\ comp[e].j > Len(comp[e].claves) /\ Trabaja(e)
        /\ UNCHANGED <<tmp, bin>> /\ comp'[e].pc = "dormida"
    BY <1>0, <1>8 DEF Soltar, EnComp, Trabaja, Quietos, CamposHilo, disco
  <2>2. BinFirme(t)'
    BY <1>b, <2>1 DEF ConLasClaves
  <2>3. ASSUME NEW f \in Entradas, EnCurso(f, t, r) PROVE FALSE
    <3>1. PICK i \in 1..Len(comp[e].claves) : i >= comp[e].j
      BY <1>f, <2>1, <2>3 DEF EnCurso, ConLasClaves
    <3>2. Len(comp[e].claves) \in Nat /\ comp[e].j \in Nat
      BY <1>0, LenProperties DEF TComp, THilo
    <3> QED BY <2>1, <3>1, <3>2
  <2> QED BY <1>c, <1>e, <2>1, <2>2, <2>3 DEF Firme
<1> QED BY <1>1, <1>2, <1>3, <1>4, <1>5, <1>6, <1>7, <1>8, <1>m DEF Compactacion

-----------------------------------------------------------------------------
(* What is not on disk yet. *)

\* The dump is at its table, and has it to write, or in the file.
PorVolcar(c) ==
  /\ dump.pc \in EnVolcado /\ dump.t = c.t
  /\ \/ \E i \in 1..dump.posicion : i \in DOMAIN Volcando /\ Volcando[i] = c.reg
     \/ /\ dump.pc # "crear" /\ dump.numero \in Existentes(tmp[c.t])
        /\ c.reg \in ToSet(tmp[c.t][dump.numero])

\* It is in the memtable, and the dump has it before it, or in the file it is at,
\* or nothing to clean.
EnMemoria(c) ==
  /\ caida = "no" /\ c.reg \in EnMemtable(c.t)
  /\ dump.pc = "dormido" \/ c.t \in dump.tablas \ dump.hechas \/ PorVolcar(c)

LEMMA EnLaCola ==
  ASSUME NEW T, NEW s \in Seq(T), NEW m \in Nat, NEW i \in 1..Len(s), i > m
  PROVE  s[i] \in ToSet(SubSeq(s, m + 1, Len(s)))
<1>1. PICK q : q = SubSeq(s, m + 1, Len(s))
  OBVIOUS
<1>2. Len(s) \in Nat /\ m + 1 \in 1..Len(s)
  OBVIOUS
<1>3. /\ DOMAIN q = 1..(Len(s) - (m + 1) + 1)
      /\ \A n \in 1..(Len(s) - (m + 1) + 1) : q[n] = s[n + (m + 1) - 1]
  BY <1>1, <1>2
<1>4. i - m \in DOMAIN q /\ q[i - m] = s[i]
  <2>1. PICK n \in Int : n = i - m
    OBVIOUS
  <2>2. n \in 1..(Len(s) - (m + 1) + 1) /\ n + (m + 1) - 1 = i
    BY <1>2, <2>1
  <2> QED BY <1>3, <2>1, <2>2
<1> QED BY <1>1, <1>4 DEF ToSet

LEMMA EnElTramo ==
  ASSUME NEW T, NEW s \in Seq(T), NEW u \in Nat, u <= Len(s), NEW x \in T
  PROVE  /\ SubSeq(s, 1, u) \in Seq(T) /\ Append(SubSeq(s, 1, u), x) \in Seq(T)
         /\ x \in ToSet(Append(SubSeq(s, 1, u), x))
         /\ \A i \in 1..u : s[i] \in ToSet(Append(SubSeq(s, 1, u), x))
<1>1. PICK q : q = SubSeq(s, 1, u)
  OBVIOUS
<1>2. /\ q \in Seq(T) /\ DOMAIN q = 1..u /\ Len(s) \in Nat
      /\ \A n \in 1..u : q[n] = s[n]
  BY <1>1
<1>3. Append(q, x) \in Seq(T) /\ ToSet(Append(q, x)) = ToSet(q) \cup {x}
  BY <1>2, DetrasDe
<1>4. \A n \in 1..u : s[n] \in ToSet(q)
  BY <1>2 DEF ToSet
<1> QED BY <1>1, <1>2, <1>3, <1>4

\* Another thread may take the list away, or the end of it.
LEMMA MemtableAtender ==
  ASSUME Tipado, NEW h \in Clientes, Atender(h), ~Muerte, NEW t \in Tablas, NEW r \in EnMemtable(t)
  PROVE  r \in EnMemtable(t)' \/ r.n \in dispensados'
<1>0. DOMAIN diccionario = Tablas /\ diccionario[t] \in Seq(Registros) \cup {SinLista}
  BY DEF Tipado, TipoMem
<1>1. /\ diccionario[t] # SinLista /\ diccionario[t] \in Seq(Registros)
      /\ r \in ToSet(diccionario[t])
  BY <1>0 DEF EnMemtable
<1>2. CASE diccionario'[t] = diccionario[t]
  BY <1>1, <1>2 DEF EnMemtable
<1>3. CASE Poner(h)
  <2>1. CASE cl[h].t = t /\ ~UNCHANGED diccionario
    <3>1. dispensados' = dispensados \cup LosN(EnMemtable(t))
      BY <1>3, <2>1 DEF Poner
    <3> QED BY <3>1 DEF LosN, EnMemtable
  <2>2. CASE cl[h].t # t \/ UNCHANGED diccionario
    BY <1>0, <1>2, <1>3, <2>2 DEF Poner
  <2> QED BY <2>1, <2>2
<1>4. CASE Enlazar(h)
  <2>1. CASE cl[h].t = t /\ cl[h].suLista = "vigente"
    <3>1. PICK s \in Seq(Registros) : s = diccionario[t]
      BY <1>1
    <3>2. PICK u \in Nat : u = cl[h].ultimo /\ u <= Len(s)
      BY <1>4, <2>1, <3>1 DEF Enlazar, En, Tipado, TipoCl, TCl
    <3>3. PICK x \in Registros : x = cl[h].reg
      BY <1>4 DEF Enlazar, En, Tipado, TipoCl, EnElInsert
    <3>4. /\ diccionario' = [diccionario EXCEPT ![t] = Append(SubSeq(s, 1, u), x)]
          /\ LosN(ToSet(SubSeq(s, u + 1, Len(s)))) \subseteq dispensados'
      BY <1>4, <2>1, <3>1, <3>2, <3>3 DEF Enlazar
    <3>5. PICK i \in 1..Len(s) : r = s[i]
      BY <1>1, <3>1 DEF ToSet
    <3>6. CASE i <= u
      <4>1. PICK q : q = Append(SubSeq(s, 1, u), x)
        OBVIOUS
      <4>2. q \in Seq(Registros) /\ r \in ToSet(q)
        BY <3>2, <3>5, <3>6, <4>1, EnElTramo
      <4>3. diccionario'[t] = q /\ q # SinLista
        BY <1>0, <3>4, <4>1, <4>2, Constantes
      <4> QED BY <4>2, <4>3 DEF EnMemtable
    <3>7. CASE i > u
      <4>1. r \in ToSet(SubSeq(s, u + 1, Len(s)))
        BY <3>5, <3>7, EnLaCola
      <4> QED BY <3>4, <4>1 DEF LosN
    <3> QED BY <3>2, <3>5, <3>6, <3>7
  <2>2. CASE ~(cl[h].t = t /\ cl[h].suLista = "vigente")
    BY <1>0, <1>2, <1>4, <2>2 DEF Enlazar
  <2> QED BY <2>1, <2>2
<1> QED BY <1>2, <1>3, <1>4, CambiosAtender

\* The dump goes on with the list it had, but for the end that is cut off it.
LEMMA VolcandoAtender ==
  ASSUME Tipado, NEW h \in Clientes, Atender(h), ~Muerte, dump.pc \in EnVolcado,
         NEW i \in DOMAIN Volcando
  PROVE  \/ i \in DOMAIN Volcando' /\ Volcando'[i] = Volcando[i]
         \/ Volcando[i].n \in dispensados'
<1>0. /\ DOMAIN diccionario = Tablas /\ dump.t \in Tablas /\ UNCHANGED dump
      /\ diccionario[dump.t] \in Seq(Registros) /\ diccionario[dump.t] # SinLista
  BY CambiosAtender, Constantes DEF Tipado, TipoMem, TipoDump, ListaVolcada
<1>1. CASE UNCHANGED <<diccionario, vieja>>
  BY <1>0, <1>1 DEF Volcando
<1>2. CASE Poner(h)
  <2>1. CASE vieja # SinLista
    <3>1. UNCHANGED vieja
      BY <1>2, <2>1 DEF Poner, cuenta
    <3> QED BY <2>1, <3>1 DEF Volcando
  <2>2. CASE vieja = SinLista /\ dump.t = cl[h].t
    <3>1. CASE vieja' = diccionario[dump.t]
      BY <1>0, <2>2, <3>1 DEF Volcando
    <3> QED BY <1>1, <1>2, <2>2, <3>1 DEF Poner, cuenta
  <2>3. CASE vieja = SinLista /\ dump.t # cl[h].t
    <3>1. UNCHANGED vieja /\ diccionario'[dump.t] = diccionario[dump.t]
      BY <1>0, <1>2, <2>3 DEF Poner, cuenta
    <3> QED BY <1>0, <2>3, <3>1 DEF Volcando
  <2> QED BY <2>1, <2>2, <2>3
<1>3. CASE Enlazar(h)
  <2>0. UNCHANGED vieja
    BY <1>3 DEF Enlazar, cuenta
  <2>1. CASE vieja # SinLista
    BY <2>0, <2>1 DEF Volcando
  <2>2. CASE vieja = SinLista /\ ~(cl[h].t = dump.t /\ cl[h].suLista = "vigente")
    <3>1. diccionario'[dump.t] = diccionario[dump.t]
      BY <1>0, <1>3, <2>2 DEF Enlazar
    <3> QED BY <1>0, <2>0, <2>2, <3>1 DEF Volcando
  <2>3. CASE vieja = SinLista /\ cl[h].t = dump.t /\ cl[h].suLista = "vigente"
    <3>1. PICK s \in Seq(Registros) : s = diccionario[dump.t]
      BY <1>0
    <3>2. PICK u \in Nat : u = cl[h].ultimo /\ u <= Len(s)
      BY <1>3, <2>3, <3>1 DEF Enlazar, En, Tipado, TipoCl, TCl
    <3>3. PICK x \in Registros : x = cl[h].reg
      BY <1>3 DEF Enlazar, En, Tipado, TipoCl, EnElInsert
    <3>4. PICK q : q = Append(SubSeq(s, 1, u), x)
      OBVIOUS
    <3>5. /\ diccionario' = [diccionario EXCEPT ![dump.t] = q]
          /\ LosN(ToSet(SubSeq(s, u + 1, Len(s)))) \subseteq dispensados'
      BY <1>3, <2>3, <3>1, <3>2, <3>3, <3>4 DEF Enlazar
    <3>6. Volcando' = q /\ Volcando = s
      BY <1>0, <2>0, <2>3, <3>1, <3>5 DEF Volcando
    <3>7. i \in 1..Len(s)
      BY <3>6
    <3>8. CASE i <= u
      <4>1. i \in DOMAIN q /\ q[i] = s[i]
        BY <3>2, <3>4, <3>7, <3>8
      <4> QED BY <3>6, <4>1
    <3>9. CASE i > u
      <4>1. s[i] \in ToSet(SubSeq(s, u + 1, Len(s)))
        BY <3>2, <3>7, <3>9, EnLaCola
      <4> QED BY <3>5, <3>6, <4>1 DEF LosN
    <3> QED BY <3>2, <3>7, <3>8, <3>9
  <2> QED BY <2>1, <2>2, <2>3
<1> QED BY <1>1, <1>2, <1>3, CambiosAtender

LEMMA MemoriaAtender ==
  ASSUME Tipado, NEW h \in Clientes, Atender(h), ~Muerte, NEW c, c.t \in Tablas \ solapadas, EnMemoria(c)
  PROVE  EnMemoria(c)' \/ c.reg.n \in dispensados'
<1>0. UNCHANGED <<dump, caida>>
  BY CambiosAtender DEF fallas
<1>1. tmp'[c.t] = tmp[c.t]
  <2>1. UNCHANGED tmp \/ BorrarArchivos(h)
    BY CambiosAtender
  <2>2. BorrarArchivos(h) => cl[h].t # c.t
    BY DEF BorrarArchivos, En, DeDrop, Tipado, Inv, ClientesBien
  <2> QED BY <2>1, <2>2 DEF BorrarArchivos, Tipado, TipoTmp
<1>2. PICK t \in Tablas : t = c.t
  OBVIOUS
<1>3. c.reg \in EnMemtable(t)' \/ c.reg.n \in dispensados'
  BY <1>2, MemtableAtender DEF EnMemoria
<1>4. EnMemtable(t)' = EnMemtable(c.t)'
  BY <1>2 DEF EnMemtable
<1>5. ASSUME PorVolcar(c) PROVE PorVolcar(c)' \/ c.reg.n \in dispensados'
  <2>1. CASE dump.pc # "crear" /\ dump.numero \in Existentes(tmp[c.t]) /\ c.reg \in ToSet(tmp[c.t][dump.numero])
    BY <1>0, <1>1, <1>5, <2>1 DEF PorVolcar
  <2>2. ASSUME NEW i \in 1..dump.posicion, i \in DOMAIN Volcando, Volcando[i] = c.reg
        PROVE  (i \in DOMAIN Volcando' /\ Volcando'[i] = c.reg) \/ c.reg.n \in dispensados'
    BY <1>2, <1>5, <2>2, VolcandoAtender DEF PorVolcar
  <2> QED BY <1>0, <1>5, <2>1, <2>2 DEF PorVolcar
<1> QED BY <1>0, <1>1, <1>2, <1>3, <1>4, <1>5 DEF EnMemoria

\* The dump writes what it finds before it cleans the memtable.
LEMMA MemoriaDump ==
  ASSUME Tipado, Dump, ~Muerte, NEW c, c.t \in Tablas \ solapadas', c.reg \in Registros, EnMemoria(c),
         ExisteLaTabla(c.t), Contigua(c.t)
  PROVE  EnMemoria(c)' \/ c.reg.n \in dispensados' \/ EnTmp(c.t, c.reg)'
<1>0. /\ UNCHANGED caida /\ DOMAIN diccionario = Tablas
      /\ diccionario[c.t] \in Seq(Registros) \cup {SinLista}
  BY CambiosDump DEF fallas, Tipado, TipoMem
<1>t. /\ Existentes(tmp[c.t]) \subseteq Existentes(tmp'[c.t])
      /\ \A n \in Existentes(tmp[c.t]) : ToSet(tmp[c.t][n]) \subseteq ToSet(tmp'[c.t][n])
  BY TmpDump
<1>1. /\ diccionario[c.t] # SinLista /\ diccionario[c.t] \in Seq(Registros)
      /\ c.reg \in ToSet(diccionario[c.t])
  BY <1>0 DEF EnMemoria, EnMemtable
<1>d. PICK d \in TDump : d = dump
  BY DEF Tipado, TipoDump
<1>2. CASE DumpSinNada
  BY <1>2 DEF DumpSinNada, EnDump, vars, EnMemoria, EnMemtable, fallas
<1>3. CASE DumpDespertar
  <2>1. PICK hay : hay = {t \in Tablas : diccionario[t] # SinLista}
    OBVIOUS
  <2>2. dump' = [DumpDormido EXCEPT !.pc = "iterar", !.tablas = hay] /\ UNCHANGED diccionario
    BY <1>3, <2>1 DEF DumpDespertar
  <2>3. dump'.tablas = hay /\ dump'.hechas = {}
    BY <2>2 DEF DumpDormido
  <2>4. c.t \in dump'.tablas \ dump'.hechas
    BY <1>1, <2>1, <2>3
  <2>5. caida' = "no" /\ c.reg \in EnMemtable(c.t)'
    BY <1>0, <2>2 DEF EnMemoria, EnMemtable
  <2> QED BY <2>4, <2>5 DEF EnMemoria
<1>4. ASSUME UNCHANGED diccionario PROVE caida' = "no" /\ c.reg \in EnMemtable(c.t)'
  BY <1>0, <1>4 DEF EnMemoria, EnMemtable
<1>v. ASSUME UNCHANGED <<diccionario, vieja>>, dump'.t = dump.t PROVE Volcando' = Volcando
  BY <1>v DEF Volcando
<1>5. ASSUME NEW u \in Tablas, Contar(u) PROVE EnMemoria(c)' \/ c.reg.n \in dispensados'
  <2>1. PICK n, b, l, m, x : n = NumeroDeTemporal(u) /\ b = elementos[u] % TopeUint8
                    /\ l = diccionario[u] /\ m = d.hechas \cup {u} /\ x = <<>>
    OBVIOUS
  <2>2. PICK f : f = [d EXCEPT !.pc = "crear", !.t = u, !.hechas = m, !.numero = n, !.posicion = b,
                          !.escritos = x]
    OBVIOUS
  <2>3. /\ f.pc = "crear" /\ f.t = u /\ f.hechas = m /\ f.posicion = b
        /\ f.tablas = d.tablas
    BY <2>2 DEF TDump
  <2>4. /\ dump' = f /\ d.pc = "iterar" /\ UNCHANGED diccionario
        /\ LosN(ToSet(SubSeq(l, b + 1, Len(l)))) \subseteq dispensados' /\ vieja' = SinLista
    BY <1>d, <1>5, <2>1, <2>2 DEF Contar, EnDump
  <2>5. CASE u = c.t
    <3>1. PICK i \in 1..Len(l) : c.reg = l[i]
      BY <1>1, <2>1, <2>5 DEF ToSet
    <3>2. b \in Nat /\ l \in Seq(Registros)
      BY <1>1, <1>5, <2>1, <2>5, ContarTipo
    <3>3. CASE i <= b
      <4>0. Volcando' = l
        BY <2>1, <2>3, <2>4 DEF Volcando
      <4>1. PorVolcar(c)'
        BY <2>3, <2>4, <2>5, <3>1, <3>2, <3>3, <4>0 DEF PorVolcar, EnVolcado
      <4> QED BY <1>4, <2>4, <4>1 DEF EnMemoria
    <3>4. CASE i > b
      <4>1. c.reg \in ToSet(SubSeq(l, b + 1, Len(l)))
        BY <3>1, <3>2, <3>4, EnLaCola
      <4> QED BY <2>4, <4>1 DEF LosN
    <3> QED BY <3>1, <3>2, <3>3, <3>4
  <2>6. CASE u # c.t
    <3>1. c.t \in d.tablas \ d.hechas
      BY <1>d, <2>4 DEF EnMemoria, PorVolcar, EnVolcado
    <3>2. c.t \in dump'.tablas \ dump'.hechas
      BY <2>1, <2>3, <2>4, <2>6, <3>1
    <3> QED BY <1>4, <2>4, <3>2 DEF EnMemoria
  <2> QED BY <2>5, <2>6
<1>6. ASSUME NEW u \in Tablas, ContarSinTabla(u) PROVE EnMemoria(c)'
  <2>1. u # c.t /\ d.pc = "iterar" /\ dump' = [d EXCEPT !.hechas = d.hechas \cup {u}] /\ UNCHANGED diccionario
    BY <1>d, <1>6 DEF ContarSinTabla, EnDump
  <2>2. c.t \in d.tablas \ d.hechas
    BY <1>d, <2>1 DEF EnMemoria, PorVolcar, EnVolcado
  <2>3. c.t \in dump'.tablas \ dump'.hechas
    BY <2>1, <2>2 DEF TDump
  <2> QED BY <1>4, <2>1, <2>3 DEF EnMemoria
<1>7. CASE Crear
  <2>1. d.pc = "crear" /\ dump' = [d EXCEPT !.pc = "guardar"] /\ UNCHANGED <<diccionario, vieja>>
    BY <1>d, <1>7 DEF Crear, EnDump, cuenta
  <2>2. /\ dump'.pc = "guardar" /\ dump'.t = d.t /\ dump'.tablas = d.tablas /\ dump'.hechas = d.hechas
        /\ dump'.posicion = d.posicion
    BY <2>1 DEF TDump
  <2>3. PorVolcar(c) => PorVolcar(c)'
    BY <1>d, <1>v, <2>1, <2>2 DEF PorVolcar, EnVolcado
  <2> QED BY <1>d, <1>4, <2>1, <2>2, <2>3 DEF EnMemoria
<1>8. CASE Guardar
  <2>1. PICK paso : paso = IF d.posicion > 0 THEN "escribir" ELSE "iterar"
    OBVIOUS
  <2>2. d.pc = "guardar" /\ dump' = [d EXCEPT !.pc = paso] /\ UNCHANGED <<diccionario, vieja>>
    BY <1>d, <1>8, <2>1 DEF Guardar, EnDump, cuenta
  <2>3. /\ dump'.pc = paso /\ dump'.t = d.t /\ dump'.tablas = d.tablas /\ dump'.hechas = d.hechas
        /\ dump'.posicion = d.posicion
    BY <2>2 DEF TDump
  <2>4. d.posicion \in Nat
    BY Constantes DEF TDump
  <2>5. CASE paso = "escribir"
    <3>1. PorVolcar(c) => PorVolcar(c)'
      BY <1>d, <1>t, <1>v, <2>2, <2>3, <2>5 DEF PorVolcar, EnVolcado
    <3> QED BY <1>d, <1>4, <2>2, <2>3, <3>1 DEF EnMemoria
  <2>6. CASE paso = "iterar" /\ PorVolcar(c)
    <3>1. d.numero \in Existentes(tmp'[c.t]) /\ c.reg \in ToSet(tmp'[c.t][d.numero])
      BY <1>d, <1>t, <2>1, <2>4, <2>6 DEF PorVolcar
    <3> QED BY <2>3, <2>6, <3>1 DEF EnTmp, Asentado, EnVolcado, TDump
  <2>7. CASE ~PorVolcar(c)
    BY <1>d, <1>4, <2>2, <2>3, <2>7 DEF EnMemoria
  <2> QED BY <2>1, <2>5, <2>6, <2>7
<1>9. CASE Escribir
  <2>0. d.pc = "escribir" /\ Volcando \in Seq(Registros)
    BY <1>d, <1>9, VolcandoTipo DEF Escribir, EnDump, EnVolcado
  <2>1. /\ d.posicion \in DOMAIN Volcando /\ d.posicion \in Nat \ {0}
        /\ d.t \in Tablas /\ tmp[d.t][d.numero] # NoExiste /\ d.numero \in Numeros
        /\ tmp' = [tmp EXCEPT ![d.t][d.numero] = Append(tmp[d.t][d.numero], Volcando[d.posicion])]
        /\ UNCHANGED <<diccionario, vieja>>
    BY <1>d, <1>9, <2>0 DEF Escribir, EnDump, EnVolcado, cuenta, TDump, Tipado, TipoDump
  <2>2. PICK p, q : p = d.posicion - 1 /\ q = Append(d.escritos, Volcando[d.posicion])
    OBVIOUS
  <2>3. dump' = [d EXCEPT !.pc = "guardar", !.posicion = p, !.escritos = q]
    BY <1>d, <1>9, <2>2 DEF Escribir
  <2>4. /\ dump'.pc = "guardar" /\ dump'.t = d.t /\ dump'.tablas = d.tablas /\ dump'.hechas = d.hechas
        /\ dump'.posicion = p
    BY <2>0, <2>3 DEF TDump
  <2>v. Volcando' = Volcando
    BY <1>d, <1>v, <2>1, <2>4
  <2>5. CASE d.t = c.t /\ Volcando[d.posicion] = c.reg
    <3>1. PICK s \in Seq(Registros) : s = tmp[c.t][d.numero]
      BY <2>1, <2>5 DEF Tipado, TipoTmp, Archivo
    <3>2. PICK f : f = Append(s, c.reg)
      OBVIOUS
    <3>3. f # NoExiste /\ c.reg \in ToSet(f)
      BY <3>2, DetrasDe, Constantes
    <3>4. tmp'[c.t][d.numero] = f /\ DOMAIN tmp'[c.t] = Numeros
      BY <2>1, <2>5, <3>1, <3>2 DEF Tipado, TipoTmp
    <3>5. d.numero \in Existentes(tmp'[c.t])
      BY <2>1, <3>3, <3>4 DEF Existentes
    <3>6. PorVolcar(c)'
      BY <2>1, <2>3, <2>4, <2>5, <3>3, <3>4, <3>5 DEF PorVolcar, EnVolcado, TDump
    <3> QED BY <1>4, <2>1, <3>6 DEF EnMemoria
  <2>6. CASE d.t # c.t \/ Volcando[d.posicion] # c.reg
    <3>1. PorVolcar(c) => PorVolcar(c)'
      <4>1. ASSUME NEW i \in 1..d.posicion, d.t = c.t, Volcando[i] = c.reg PROVE i \in 1..p
        BY <2>1, <2>2, <2>6, <4>1
      <4>2. dump'.numero = d.numero
        BY <2>3 DEF TDump
      <4>3. ASSUME d.t = c.t, NEW i \in 1..d.posicion, i \in DOMAIN Volcando, Volcando[i] = c.reg
            PROVE  PorVolcar(c)'
        <5>1. i \in 1..dump'.posicion /\ i \in DOMAIN Volcando' /\ Volcando'[i] = c.reg
          BY <2>4, <2>v, <4>1, <4>3
        <5> QED BY <2>4, <4>3, <5>1 DEF PorVolcar, EnVolcado
      <4>4. ASSUME d.t = c.t, d.numero \in Existentes(tmp[c.t]), c.reg \in ToSet(tmp[c.t][d.numero])
            PROVE  PorVolcar(c)'
        BY <1>t, <2>4, <4>2, <4>4 DEF PorVolcar, EnVolcado
      <4>5. PorVolcar(c) =>
              /\ d.t = c.t
              /\ \/ \E i \in 1..d.posicion : i \in DOMAIN Volcando /\ Volcando[i] = c.reg
                 \/ d.numero \in Existentes(tmp[c.t]) /\ c.reg \in ToSet(tmp[c.t][d.numero])
        BY <1>d DEF PorVolcar
      <4> QED BY <4>3, <4>4, <4>5
    <3> QED BY <1>d, <1>4, <2>0, <2>1, <2>4, <3>1 DEF EnMemoria
  <2> QED BY <2>5, <2>6
<1>10. ~Limpiar
  BY DEF Limpiar, EnDump, EnMemoria, PorVolcar, EnVolcado
<1>11. ~DumpMuere
  BY DEF DumpMuere, Muerte, Morir
<1> QED BY <1>2, <1>3, <1>5, <1>6, <1>7, <1>8, <1>9, <1>10, <1>11 DEF Dump

-----------------------------------------------------------------------------
(* What was answered is covered. *)

\* By a record that is safe on disk, or by itself, in memory.
Cubierto(c) ==
  \/ c.reg.n \in dispensados
  \/ c.t \in solapadas
  \/ \E r \in Registros : Firme(c.t, r) /\ Cubre(r, c.reg)
  \/ EnMemoria(c)

\* The record of an INSERT that has linked it: nobody has taken it away since.
Enlazado(h) ==
  cl[h].pc = "contar" =>
    \/ cl[h].reg.n \in dispensados
    \/ cl[h].suLista = "liberada"
    \/ cl[h].suLista = "vigente" /\ cl[h].reg \in EnMemtable(cl[h].t)
Enlazados == \A h \in Clientes : Enlazado(h)

Resguardo == Listadas /\ Numeradas /\ Enlazados /\ \A c \in confirmados : Cubierto(c)

LEMMA DispensadosCrece ==
  ASSUME [Next]_vars
  PROVE  dispensados \subseteq dispensados'
<1>1. ASSUME Muerte PROVE dispensados \subseteq dispensados'
  BY <1>1 DEF Muerte, Caer
<1>2. ASSUME NEW h \in Clientes, Pedido(h) PROVE dispensados \subseteq dispensados'
  BY <1>2, CambiosPedido
<1>3. ASSUME NEW h \in Clientes, Atender(h) PROVE dispensados \subseteq dispensados'
  BY <1>1, <1>3, CambiosAtender DEF Poner, Enlazar, Sumar, CrearParticiones
<1>4. ASSUME Dump PROVE dispensados \subseteq dispensados'
  BY <1>1, <1>4, CambiosDump DEF Contar
<1>5. ASSUME NEW e \in Entradas, Compactacion(e) PROVE dispensados \subseteq dispensados'
  BY <1>1, <1>5, CambiosComp
<1>6. ASSUME Apagar PROVE dispensados \subseteq dispensados'
  BY <1>1, <1>6 DEF Apagar, Muerte
<1>7. ASSUME Reiniciar \/ UNCHANGED vars PROVE dispensados \subseteq dispensados'
  BY <1>7 DEF Reiniciar, vars, historia
<1> QED BY <1>2, <1>3, <1>4, <1>5, <1>6, <1>7 DEF Next

\* Of the threads that have linked a record, only a new list of the table changes
\* what they are at.
LEMMA OtroSumando ==
  ASSUME Tipado, NEW h \in Clientes, Atender(h), ~Muerte, NEW g \in Clientes, g # h,
         cl[g].pc = "contar"
  PROVE  \/ cl'[g] = cl[g]
         \/ /\ cl[g].suLista \in {"vigente", "cortada"}
            /\ LosN(EnMemtable(cl[g].t)) \subseteq dispensados'
<1>0. DOMAIN cl = Clientes /\ DOMAIN cl[g] = CamposCl
  BY DEF Tipado, Inv, ClientesBien
<1>1. ASSUME NEW r, NEW otros, otros = [cl EXCEPT ![h] = r] PROVE otros[g] = cl[g]
  BY <1>0, <1>1
<1>2. ASSUME NEW otros, otros[g] = cl[g], NEW hilos, g \notin hilos, NEW como,
             cl' = Separar(hilos, como, otros)
      PROVE  cl'[g] = cl[g]
  BY <1>2 DEF Separar
<1>3. CASE Enlazar(h)
  <2>1. PICK n : n = elementos[cl[h].t]
    OBVIOUS
  <2>2. PICK r : r = [cl[h] EXCEPT !.pc = "contar", !.ultimo = n]
    OBVIOUS
  <2>3. PICK otros : otros = [cl EXCEPT ![h] = r]
    OBVIOUS
  <2>4. otros = [cl EXCEPT ![h].pc = "contar", ![h].ultimo = n]
    BY <2>2, <2>3
  <2>5. \E hilos : g \notin hilos /\ cl' = Separar(hilos, "cortada", otros)
    <3>1. PICK hilos : hilos = IF cl[h].suLista = "vigente" THEN PorEnlazar(cl[h].t, cl[h].ultimo) ELSE {}
      OBVIOUS
    <3>2. g \notin hilos
      BY <3>1 DEF PorEnlazar
    <3>3. cl' = Separar(hilos, "cortada", otros)
      BY <1>3, <2>1, <2>4, <3>1 DEF Enlazar
    <3> QED BY <3>2, <3>3
  <2> QED BY <1>1, <1>2, <2>3, <2>5
<1>4. CASE Poner(h)
  <2>1. PICK r : r = [cl[h] EXCEPT !.pc = "agregar"]
    OBVIOUS
  <2>2. PICK otros : otros = [cl EXCEPT ![h] = r]
    OBVIOUS
  <2>3. otros = [cl EXCEPT ![h].pc = "agregar"] /\ otros[g] = cl[g]
    BY <1>1, <2>1, <2>2
  <2>4. CASE cl' = otros
    BY <2>3, <2>4
  <2>5. CASE cl' # otros
    <3>1. /\ cl' = Separar(EnSuLista({cl[h].t}), "reemplazada", otros)
          /\ LosN(EnMemtable(cl[h].t)) \subseteq dispensados'
      BY <1>4, <2>3, <2>5 DEF Poner
    <3>2. CASE g \notin EnSuLista({cl[h].t})
      BY <1>2, <2>3, <3>1, <3>2
    <3>3. CASE g \in EnSuLista({cl[h].t})
      BY <3>1, <3>3 DEF EnSuLista
    <3> QED BY <3>2, <3>3
  <2> QED BY <2>4, <2>5
<1>5. CASE Anotar(h) \/ (Sacar(h) /\ ExisteLaTabla(cl[h].t))
  <2>0. g \notin PorAnotar
    BY DEF PorAnotar
  <2>1. PICK libre : libre = [cl EXCEPT ![h] = Libre]
    OBVIOUS
  <2>2. CASE Anotar(h)
    <3>1. \E hilos : g \notin hilos /\ cl' = Separar(hilos, "cortada", libre)
      BY <2>0, <2>1, <2>2 DEF Anotar
    <3> QED BY <1>1, <1>2, <2>1, <3>1
  <2>3. CASE Sacar(h) /\ ExisteLaTabla(cl[h].t)
    <3>1. PICK i : i = Indice(cl[h].t)
      OBVIOUS
    <3>2. PICK otros : otros = Correr(i, libre)
      OBVIOUS
    <3>3. PICK hilos : g \notin hilos /\ cl' = Separar(hilos, "liberada", otros)
      BY <2>0, <2>1, <2>3, <3>1, <3>2 DEF Sacar
    <3>4. otros[g] = cl[g]
      BY <1>1, <2>0, <2>1, <3>2 DEF Correr
    <3> QED BY <1>2, <3>3, <3>4
  <2> QED BY <1>5, <2>2, <2>3
<1>6. CASE ~(Poner(h) \/ Enlazar(h) \/ Anotar(h) \/ (Sacar(h) /\ ExisteLaTabla(cl[h].t)))
  BY <1>0, <1>6, ZenonT(60) DEF Atender, Morir, Caer, Sigue, Termina, Agregar, AgregarSinLista, Sumar,
    EnlazarLiberado, Compuerta, SelectMuere, LeerBin, ListarTmp, LeerTmp, MirarMemtable, Filtrar,
    Responder, Mkdir, CrearMetadata, CrearParticiones, Ingresar, AnotarLiberado, BorrarArchivos,
    QuitarDirectorio, Sacar, TablaMuere
<1> QED BY <1>3, <1>4, <1>5, <1>6

LEMMA EnlazadosPaso ==
  ASSUME Tipado, Enlazados, [Next]_vars
  PROVE  Enlazados'
<1> SUFFICES ASSUME NEW g \in Clientes, cl'[g].pc = "contar"
             PROVE  \/ cl'[g].reg.n \in dispensados'
                    \/ cl'[g].suLista = "liberada"
                    \/ cl'[g].suLista = "vigente" /\ cl'[g].reg \in EnMemtable(cl[g].t)'
  BY DEF Enlazados, Enlazado
<1>0. dispensados \subseteq dispensados' /\ Enlazado(g) /\ DOMAIN cl = Clientes
  BY DispensadosCrece DEF Enlazados, Tipado, Inv, ClientesBien
<1>1. ASSUME cl'[g] = cl[g], UNCHANGED diccionario
      PROVE  \/ cl'[g].reg.n \in dispensados'
             \/ cl'[g].suLista = "liberada"
             \/ cl'[g].suLista = "vigente" /\ cl'[g].reg \in EnMemtable(cl[g].t)'
  BY <1>0, <1>1 DEF Enlazado, EnMemtable
<1>2. CASE Muerte \/ Apagar
  BY <1>1, <1>2 DEF Muerte, Apagar, Caer
<1>3. ASSUME NEW h \in Clientes, Pedido(h) PROVE cl'[g] = cl[g] /\ UNCHANGED diccionario
  <2>1. g # h
    <3>1. cl'[h].pc = "contar" => cl[h].pc = "contar"
      BY <1>3, PedidoSinSumar
    <3> QED BY <1>3, <3>1, PedidoOtros
  <2> QED BY <1>3, <2>1, PedidoOtros, CambiosPedido
<1>4. ASSUME NEW h \in Clientes, Atender(h), ~Muerte, g # h
      PROVE  \/ cl'[g].reg.n \in dispensados'
             \/ cl'[g].suLista = "liberada"
             \/ cl'[g].suLista = "vigente" /\ cl'[g].reg \in EnMemtable(cl[g].t)'
  <2>1. /\ cl[g].pc = "contar" /\ cl'[g].reg = cl[g].reg
        /\ cl[g].t \in Tablas
    BY <1>4, AtenderOtros DEF Iguales, Tipado, Inv, ClientesBien
  <2>2. CASE cl[g].reg.n \in dispensados
    BY <1>0, <2>1, <2>2
  <2>3. CASE cl[g].suLista = "liberada"
    BY <1>4, <2>1, <2>3, OtroSumando
  <2>4. CASE cl[g].suLista = "vigente" /\ cl[g].reg \in EnMemtable(cl[g].t)
    <3>1. CASE LosN(EnMemtable(cl[g].t)) \subseteq dispensados'
      BY <2>1, <2>4, <3>1 DEF LosN
    <3>2. CASE cl'[g] = cl[g]
      <4>1. PICK t \in Tablas : t = cl[g].t
        BY <2>1
      <4>2. cl[g].reg \in EnMemtable(t)' \/ cl[g].reg.n \in dispensados'
        BY <1>4, <2>4, <4>1, MemtableAtender
      <4>3. EnMemtable(t)' = EnMemtable(cl[g].t)'
        BY <3>2, <4>1 DEF EnMemtable
      <4> QED BY <2>4, <3>2, <4>2, <4>3
    <3> QED BY <1>4, <2>1, <3>1, <3>2, OtroSumando
  <2> QED BY <1>0, <2>1, <2>2, <2>3, <2>4 DEF Enlazado
<1>5. ASSUME Atender(g), ~Muerte
      PROVE  \/ cl'[g].reg.n \in dispensados'
             \/ cl'[g].suLista = "liberada"
             \/ cl'[g].suLista = "vigente" /\ cl'[g].reg \in EnMemtable(cl[g].t)'
  <2>1. Enlazar(g) /\ cl[g].pc \in EnElInsert /\ cl'[g].t = cl[g].t /\ cl'[g].reg = cl[g].reg
    BY <1>5, PasoAlInsert DEF EnElInsert
  <2>2. CASE cl[g].suLista # "vigente"
    BY <2>1, <2>2 DEF Enlazar
  <2>3. CASE cl[g].suLista = "vigente"
    <3>1. PICK s \in Seq(Registros) : s = diccionario[cl[g].t]
      BY <2>1, <2>3 DEF Enlazar, En, Tipado, TipoCl
    <3>2. PICK u \in Nat : u = cl[g].ultimo /\ u <= Len(s)
      BY <2>1, <2>3, <3>1 DEF Enlazar, En, Tipado, TipoCl, TCl
    <3>3. PICK x \in Registros : x = cl[g].reg
      BY <2>1 DEF Tipado, TipoCl
    <3>4. PICK q : q = Append(SubSeq(s, 1, u), x)
      OBVIOUS
    <3>5. q \in Seq(Registros) /\ x \in ToSet(q)
      BY <3>2, <3>4, EnElTramo
    <3>6. diccionario' = [diccionario EXCEPT ![cl[g].t] = q]
      BY <2>1, <2>3, <3>1, <3>2, <3>3, <3>4 DEF Enlazar
    <3>7. cl[g].t \in Tablas /\ DOMAIN diccionario = Tablas
      BY <2>1 DEF Enlazar, En, Tipado, TipoMem, Inv, ClientesBien
    <3>8. diccionario'[cl'[g].t] = q /\ q # SinLista
      BY <2>1, <3>5, <3>6, <3>7, Constantes
    <3>9. cl'[g].reg \in EnMemtable(cl[g].t)'
      BY <2>1, <3>3, <3>5, <3>8 DEF EnMemtable
    <3>10. cl'[g].suLista = "vigente"
      <4>1. PICK n, hilos : n = elementos[cl[g].t] /\ hilos = PorEnlazar(cl[g].t, cl[g].ultimo)
        OBVIOUS
      <4>2. PICK otros : otros = [cl EXCEPT ![g].pc = "contar", ![g].ultimo = n]
        OBVIOUS
      <4>3. cl' = Separar(hilos, "cortada", otros)
        BY <2>1, <2>3, <4>1, <4>2 DEF Enlazar
      <4>4. g \notin hilos
        BY <3>2, <4>1 DEF PorEnlazar
      <4>5. otros[g].suLista = "vigente"
        BY <1>0, <2>3, <4>2
      <4> QED BY <4>3, <4>4, <4>5 DEF Separar
    <3> QED BY <3>9, <3>10
  <2> QED BY <2>2, <2>3
<1>6. ASSUME Dump, ~Muerte
      PROVE  \/ cl'[g].reg.n \in dispensados'
             \/ cl'[g].suLista = "liberada"
             \/ cl'[g].suLista = "vigente" /\ cl'[g].reg \in EnMemtable(cl[g].t)'
  <2>1. CASE Limpiar
    <3>1. cl'[g] = IF g \in EnSuLista(Tablas) THEN [cl[g] EXCEPT !.suLista = "liberada"] ELSE cl[g]
      BY <2>1 DEF Limpiar, Separar
    <3>2. DOMAIN cl[g] = CamposCl /\ (cl[g].pc = "contar" => cl[g].t \in Tablas)
      BY DEF Tipado, Inv, ClientesBien
    <3>3. CASE g \in EnSuLista(Tablas)
      BY <3>1, <3>2, <3>3 DEF CamposCl
    <3>4. CASE g \notin EnSuLista(Tablas)
      <4>1. cl'[g] = cl[g] /\ cl[g].suLista \notin {"vigente", "cortada"}
        BY <3>1, <3>2, <3>4 DEF EnSuLista
      <4> QED BY <1>0, <4>1 DEF Enlazado
    <3> QED BY <3>3, <3>4
  <2> QED BY <1>1, <1>6, <2>1, CambiosDump
<1>7. ASSUME NEW e \in Entradas, Compactacion(e) PROVE cl'[g] = cl[g] /\ UNCHANGED diccionario
  BY <1>7, CambiosComp DEF Muerte, Caer
<1>8. ~Reiniciar
  BY DEF Reiniciar, Libre
<1> QED BY <1>1, <1>2, <1>3, <1>4, <1>5, <1>6, <1>7, <1>8 DEF Next, vars

\* Only a living process dies.
LEMMA Viva ==
  ASSUME \/ \E h \in Clientes : Atender(h)
         \/ Dump
         \/ \E e \in Entradas : Compactacion(e)
  PROVE  caida = "no"
<1>1. ASSUME NEW h \in Clientes, Atender(h) PROVE caida = "no"
  BY <1>1, ZenonT(60) DEF Atender, En, Poner, Agregar, AgregarSinLista, Enlazar, Sumar,
    EnlazarLiberado, Anotar, AnotarLiberado, Compuerta, SelectMuere, LeerBin, ListarTmp, LeerTmp, MirarMemtable, Filtrar, Responder,
    Mkdir, CrearMetadata, CrearParticiones, Ingresar, BorrarArchivos, QuitarDirectorio, Sacar, TablaMuere
<1>2. ASSUME Dump PROVE caida = "no"
  BY <1>2, ZenonT(60) DEF Dump, EnDump, DumpSinNada, DumpDespertar, Contar, ContarSinTabla,
    Crear, Guardar, Escribir, DumpMuere, Limpiar
<1>3. ASSUME NEW e \in Entradas, Compactacion(e) PROVE caida = "no"
  BY <1>3, ZenonT(60) DEF Compactacion, EnComp, Nacer, CompDespertar, Tomar, Renombrar,
    LevantarClaves, BorrarTmpc, BorrarBin, CrearBin, EscribirBin, GuardarBin, CompMuere, Soltar
<1> QED BY <1>1, <1>2, <1>3

LEMMA Muertos ==
  ASSUME NEW t, NEW x,
         \/ x \in EnMemtable(t) \cup EnArchivos(tmpc[t])
         \/ \E e \in Compactando(t) : x \in ToSet(comp[e].claves)
  PROVE  x \in Mueren(t)
BY DEF Mueren

LEMMA Arrastrado ==
  ASSUME NEW c \in confirmados, NEW R, NEW r \in R, Cubre(r, c.reg)
  PROVE  c.reg.n \in Arrastran(c.t, R)
BY DEF Arrastran, Cubre

\* The process dies: what it had in its hands is forgiven, the rest is on disk.
LEMMA CaerCubre ==
  ASSUME Listadas, Muerte, caida = "no", NEW c \in confirmados, Cubierto(c)
  PROVE  Cubierto(c)'
<1>0. /\ c.t \in Tablas /\ c.reg \in Registros /\ \A e \in Entradas : comp[e] \in THilo
      /\ dispensados \subseteq dispensados' /\ solapadas \subseteq solapadas'
      /\ EnRiesgo(c.t) \subseteq dispensados' /\ UNCHANGED <<tmp, bin, comp, dump>>
  BY DEF Listadas, Tipado, TipoComp, TComp, Muerte, Caer, disco
<1>1. ASSUME NEW r \in Mueren(c.t), Cubre(r, c.reg) PROVE Cubierto(c)'
  BY <1>0, <1>1, Arrastrado DEF EnRiesgo, Cubierto
<1>2. ASSUME NEW r \in Registros, Firme(c.t, r), Cubre(r, c.reg) PROVE Cubierto(c)'
  <2>1. CASE EnTmp(c.t, r)
    BY <1>0, <1>2, <2>1, EnTmpIgual DEF Cubierto, Firme
  <2>2. CASE r \in EnArchivos(bin[c.t]) /\ BinFirme(c.t)
    BY <1>0, <1>2, <2>2 DEF Cubierto, Firme, BinFirme
  <2>3. ASSUME NEW e \in Entradas, EnCurso(e, c.t, r) PROVE r \in Mueren(c.t)
    <3>1. e \in Compactando(c.t)
      BY <2>3 DEF EnCurso, Compactando, ConLasClaves
    <3>2. CASE comp[e].pc \in {"renombrar", "leer"}
      <4>1. r \in EnArchivos(tmpc[c.t])
        BY <2>3, <3>2 DEF EnCurso, EnArchivos, ConLasClaves
      <4> QED BY <4>1, Muertos
    <3>3. CASE comp[e].pc \notin {"renombrar", "leer"}
      <4>1. r \in ToSet(comp[e].claves)
        <5>1. DOMAIN comp[e].claves = 1..Len(comp[e].claves)
          BY <1>0 DEF THilo
        <5> QED BY <2>3, <3>3, <5>1 DEF EnCurso, ToSet
      <4> QED BY <3>1, <4>1, Muertos
    <3> QED BY <3>2, <3>3
  <2> QED BY <1>1, <1>2, <2>1, <2>2, <2>3 DEF Firme
<1>3. CASE EnMemoria(c)
  <2>1. c.reg \in Mueren(c.t)
    BY <1>3, Muertos DEF EnMemoria
  <2> QED BY <1>0, <1>1, <2>1, CubreSiempre
<1> QED BY <1>0, <1>2, <1>3 DEF Cubierto

\* A CREATE makes the partitions of a table again.
LEMMA FirmeCrear ==
  ASSUME Listadas, NEW h \in Clientes, CrearParticiones(h), NEW c \in confirmados, c.t = cl[h].t,
         NEW r \in Registros, Firme(c.t, r), Cubre(r, c.reg)
  PROVE  c.reg.n \in dispensados' \/ Firme(c.t, r)'
<1>1. /\ UNCHANGED <<tmp, tmpc, comp, dump, fallas>>
      /\ Arrastran(c.t, EnArchivos(bin[c.t])) \subseteq dispensados'
  BY DEF CrearParticiones
<1>2. CASE r \in EnArchivos(bin[c.t])
  BY <1>1, <1>2, Arrastrado
<1>3. CASE EnTmp(c.t, r)
  BY <1>1, <1>3, EnTmpIgual DEF Firme
<1>4. ASSUME NEW e \in Entradas, EnCurso(e, c.t, r), caida = "no" PROVE Firme(c.t, r)'
  BY <1>1, <1>4 DEF Firme, EnCurso, fallas
<1> QED BY <1>2, <1>3, <1>4 DEF Firme

LEMMA FirmePaso ==
  ASSUME Listadas, Numeradas, [Next]_vars, ~Muerte, ~Apagar, NEW c \in confirmados, c.t \notin solapadas',
         NEW r \in Registros, Firme(c.t, r), Cubre(r, c.reg)
  PROVE  Cubierto(c)'
<1>0. /\ c.t \in Tablas \ solapadas /\ c.reg \in Registros /\ Tipado /\ SinEntradaNiHilo
      /\ Contigua(c.t)
  BY SolapadasCrece DEF Listadas, Numeradas
<1>1. ASSUME Firme(c.t, r)' PROVE Cubierto(c)'
  BY <1>1 DEF Cubierto
<1>2. CASE UNCHANGED <<tmp, tmpc, bin, comp, dump, caida>>
  BY <1>1, <1>2, EnTmpIgual, FirmeIgual
<1>3. ASSUME NEW h \in Clientes, Pedido(h) PROVE Cubierto(c)'
  BY <1>2, <1>3, CambiosPedido DEF fallas
<1>4. ASSUME NEW h \in Clientes, Atender(h) PROVE Cubierto(c)'
  <2>1. CASE CrearParticiones(h) /\ cl[h].t = c.t
    BY <1>1, <2>1, FirmeCrear DEF Cubierto
  <2>2. CASE ~(CrearParticiones(h) /\ cl[h].t = c.t)
    BY <1>0, <1>1, <1>4, <2>2, FirmeAtender
  <2> QED BY <2>1, <2>2
<1>5. CASE Dump
  BY <1>0, <1>1, <1>5, FirmeDump
<1>6. ASSUME NEW e \in Entradas, Compactacion(e) PROVE Cubierto(c)'
  <2>1. CASE comp[e].t = c.t
    <3>1. PICK x \in Registros : Firme(c.t, x)' /\ Cubre(x, r)
      BY <1>0, <1>6, <2>1, FirmeComp
    <3>2. Cubre(x, c.reg)
      BY <1>0, <3>1, CubreSigue
    <3> QED BY <3>1, <3>2 DEF Cubierto
  <2>2. CASE comp[e].t # c.t
    <3>0. /\ DOMAIN tmp = Tablas /\ DOMAIN tmpc = Tablas /\ DOMAIN bin = Tablas
          /\ UNCHANGED <<caida, dump>>
          /\ UNCHANGED tmp \/ Renombrar(e)
          /\ UNCHANGED tmpc \/ Renombrar(e) \/ BorrarTmpc(e)
          /\ UNCHANGED bin \/ BorrarBin(e) \/ CrearBin(e) \/ EscribirBin(e)
      <4>1. DOMAIN tmp = Tablas /\ DOMAIN tmpc = Tablas /\ DOMAIN bin = Tablas
        BY <1>0 DEF Tipado, TipoTmp, TipoTmpc, TipoBin
      <4> QED BY <1>6, <4>1, CambiosComp, Zenon DEF fallas
    <3>1. tmp'[c.t] = tmp[c.t] /\ tmpc'[c.t] = tmpc[c.t]
      <4>1. CASE Renombrar(e)
        BY <1>0, <2>2, <3>0, <4>1 DEF Renombrar
      <4>2. CASE BorrarTmpc(e)
        BY <1>0, <2>2, <3>0, <4>2 DEF BorrarTmpc
      <4> QED BY <3>0, <4>1, <4>2
    <3>3. bin'[c.t] = bin[c.t]
      BY <1>0, <2>2, <3>0 DEF BorrarBin, CrearBin, EscribirBin
    <3>4. \A f \in Entradas : comp'[f] = comp[f] \/ (comp[f].t # c.t /\ comp'[f].t # c.t)
      BY <1>0, <1>6, <2>2, CompOtros
    <3> QED BY <1>1, <3>0, <3>1, <3>3, <3>4, EnTmpIgual, FirmeIgual
  <2> QED BY <2>1, <2>2
<1>7. CASE Reiniciar
  <2>1. UNCHANGED <<tmp, bin>> /\ caida # "no" /\ \A e \in Entradas : comp'[e].pc \in {"nace", "fin"}
    BY <1>7 DEF Reiniciar, HilosDe, Hilo, disco
  <2>2. BinFirme(c.t)'
    BY <2>1 DEF BinFirme, ConLasClaves
  <2>3. EnTmp(c.t, r) => EnTmp(c.t, r)'
    BY <1>7, <2>1, TmpReinicio
  <2> QED BY <1>1, <2>1, <2>2, <2>3 DEF Firme
<1> QED BY <1>2, <1>3, <1>4, <1>5, <1>6, <1>7 DEF Next, vars, disco, fallas

LEMMA MemoriaPaso ==
  ASSUME Listadas, Numeradas, [Next]_vars, ~Muerte, ~Apagar, NEW c \in confirmados,
         c.t \notin solapadas', EnMemoria(c)
  PROVE  Cubierto(c)'
<1>0. /\ c.t \in Tablas /\ c.t \notin solapadas /\ c.reg \in Registros /\ Tipado /\ ExisteLaTabla(c.t)
      /\ Contigua(c.t)
  BY SolapadasCrece DEF Listadas, Conocida, Numeradas
<1>1. ASSUME EnMemoria(c)' \/ c.reg.n \in dispensados' PROVE Cubierto(c)'
  BY <1>1 DEF Cubierto
<1>2. CASE UNCHANGED <<diccionario, vieja, dump, caida>> /\ tmp'[c.t] = tmp[c.t]
  BY <1>1, <1>2 DEF EnMemoria, EnMemtable, PorVolcar, Volcando
<1>3. ASSUME NEW h \in Clientes, Pedido(h) PROVE Cubierto(c)'
  BY <1>2, <1>3, CambiosPedido DEF fallas, cuenta
<1>4. ASSUME NEW h \in Clientes, Atender(h) PROVE Cubierto(c)'
  BY <1>0, <1>1, <1>4, MemoriaAtender
<1>5. CASE Dump
  <2>1. CASE EnTmp(c.t, c.reg)'
    BY <1>0, <2>1, CubreSiempre DEF Cubierto, Firme
  <2> QED BY <1>0, <1>1, <1>5, <2>1, MemoriaDump
<1>6. ASSUME NEW e \in Entradas, Compactacion(e) PROVE Cubierto(c)'
  <2>1. UNCHANGED <<diccionario, vieja, dump, caida>> /\ (UNCHANGED tmp \/ Renombrar(e))
    BY <1>6, CambiosComp DEF fallas, cuenta
  <2>2. CASE tmp'[c.t] = tmp[c.t]
    BY <1>2, <2>1, <2>2
  <2>3. CASE Renombrar(e) /\ comp[e].t = c.t
    <3>1. dump.t = c.t => dump.pc \notin EnVolcado
      BY <1>0, <2>3 DEF Contigua, Renombrando, Renombrar, EnComp
    <3> QED BY <1>1, <2>1, <3>1 DEF EnMemoria, EnMemtable, PorVolcar
  <2>4. CASE Renombrar(e) /\ comp[e].t # c.t
    BY <1>0, <2>2, <2>4 DEF Renombrar, Tipado, TipoTmp
  <2> QED BY <2>1, <2>2, <2>3, <2>4
<1>7. CASE Reiniciar
  BY <1>7 DEF Reiniciar, EnMemoria
<1> QED BY <1>2, <1>3, <1>4, <1>5, <1>6, <1>7 DEF Next, vars, fallas, disco, cuenta

\* The record that is answered with INSERT_R is in the memtable, unless the list
\* was replaced or the dump will clean it without having seen it.
LEMMA CubreNuevo ==
  ASSUME Listadas, NEW h \in Clientes, Sumar(h), Enlazado(h),
         NEW c, c = [t |-> cl[h].t, reg |-> cl[h].reg]
  PROVE  Cubierto(c)'
<1>0. /\ c.t = cl[h].t /\ c.reg = cl[h].reg /\ caida = "no" /\ cl[h].pc = "contar"
      /\ UNCHANGED <<diccionario, dump, fallas>> /\ dispensados \subseteq dispensados'
  BY DEF Sumar, En
<1>1. CASE cl[h].suLista = "liberada" \/ SinVolcar(c.t)
  <2>1. c.reg.n \in dispensados'
    BY <1>0, <1>1 DEF Sumar
  <2> QED BY <2>1 DEF Cubierto
<1>2. CASE c.reg.n \in dispensados
  BY <1>0, <1>2 DEF Cubierto
<1>3. CASE ~SinVolcar(c.t) /\ c.reg \in EnMemtable(c.t)
  BY <1>0, <1>3 DEF Cubierto, EnMemoria, EnMemtable, SinVolcar, fallas
<1> QED BY <1>0, <1>1, <1>2, <1>3 DEF Enlazado

LEMMA ResguardoPaso == Resguardo /\ [Next]_vars => Resguardo'
<1> SUFFICES ASSUME Resguardo, [Next]_vars PROVE Resguardo'
  OBVIOUS
<1>0. /\ Listadas /\ Numeradas /\ Listadas' /\ Numeradas' /\ Enlazados /\ Enlazados' /\ Tipado
      /\ solapadas \subseteq solapadas' /\ dispensados \subseteq dispensados'
  BY ListadasPaso, NumeradasPaso, EnlazadosPaso, SolapadasCrece, DispensadosCrece DEF Resguardo, Listadas
<1>1. ASSUME NEW c \in confirmados', c \notin confirmados PROVE Cubierto(c)'
  <2>1. PICK h \in Clientes : /\ Sumar(h) /\ ~cl[h].error
                              /\ c = [t |-> cl[h].t, reg |-> cl[h].reg]
    BY <1>0, <1>1, ConfirmadosPaso
  <2> QED BY <1>0, <2>1, CubreNuevo DEF Enlazados
<1>2. ASSUME NEW c \in confirmados PROVE Cubierto(c)'
  <2>1. Cubierto(c)
    BY <1>2 DEF Resguardo
  <2>2. CASE Muerte \/ Apagar
    <3>1. Apagar => Muerte /\ caida = "no"
      BY DEF Apagar, Muerte
    <3>2. CASE caida = "no"
      BY <1>0, <2>1, <2>2, <3>1, <3>2, CaerCubre
    <3>3. CASE caida # "no"
      <4>1. \A h \in Clientes : ~Atender(h)
        BY <3>3, Viva
      <4>2. ~Dump /\ \A e \in Entradas : ~Compactacion(e)
        BY <3>3, Viva
      <4>3. \A h \in Clientes : ~Pedido(h)
        BY <3>3 DEF Pedido, Insert, Select, Create, Drop, Recibe
      <4>4. CASE UNCHANGED vars
        <5>1. UNCHANGED <<tmp, tmpc, bin, comp, caida, dispensados, solapadas, diccionario,
                         vieja, dump>>
          BY <4>4 DEF vars, disco, fallas, historia, cuenta
        <5> QED BY <2>1, <5>1, EnTmpIgual DEF Cubierto, Firme, BinFirme, EnCurso, EnMemoria, EnMemtable,
          PorVolcar, Volcando
      <4>5. CASE Reiniciar
        <5>1. /\ UNCHANGED <<tmp, bin, dispensados, solapadas>>
              /\ \A e \in Entradas : comp'[e].pc \in {"nace", "fin"}
          BY <4>5 DEF Reiniciar, HilosDe, Hilo, disco
        <5>2. BinFirme(c.t)'
          BY <5>1 DEF BinFirme, ConLasClaves
        <5>3. \A r : EnTmp(c.t, r) => EnTmp(c.t, r)'
          BY <4>5, TmpReinicio
        <5> QED BY <2>1, <3>3, <5>1, <5>2, <5>3 DEF Cubierto, Firme, EnMemoria
      <4> QED BY <3>1, <3>3, <4>1, <4>2, <4>3, <4>4, <4>5 DEF Next
    <3> QED BY <3>2, <3>3
  <2>3. CASE ~Muerte /\ ~Apagar
    <3>1. CASE c.reg.n \in dispensados' \/ c.t \in solapadas'
      BY <3>1 DEF Cubierto
    <3>2. CASE c.t \notin solapadas' /\ c.reg.n \notin dispensados
      <4>1. (\E r \in Registros : Firme(c.t, r) /\ Cubre(r, c.reg)) \/ EnMemoria(c)
        BY <1>0, <2>1, <3>2 DEF Cubierto
      <4> QED BY <1>0, <2>3, <3>2, <4>1, FirmePaso, MemoriaPaso
    <3> QED BY <1>0, <3>1, <3>2
  <2> QED BY <2>2, <2>3
<1> QED BY <1>0, <1>1, <1>2 DEF Resguardo

LEMMA ResguardoPropiedad == Resguardo => NadaSePierde
<1> SUFFICES ASSUME Resguardo, NEW c \in confirmados, c.reg.n \notin dispensados, c.t \notin solapadas
             PROVE  \E r \in Guardados(c.t) : Cubre(r, c.reg)
  BY DEF NadaSePierde, Cubre
<1>0. /\ Cubierto(c) /\ c.reg \in Registros /\ \A e \in Entradas : comp[e] \in THilo
  BY DEF Resguardo, Listadas, Tipado, TipoComp, TComp
<1>1. CASE EnMemoria(c)
  BY <1>0, <1>1, CubreSiempre DEF EnMemoria, Guardados
<1>2. ASSUME NEW r, Firme(c.t, r) PROVE r \in Guardados(c.t)
  <2>1. CASE EnTmp(c.t, r) \/ r \in EnArchivos(bin[c.t])
    BY <2>1 DEF Guardados, EnTmp, Asentado, EnArchivos
  <2>2. ASSUME NEW e \in Entradas, EnCurso(e, c.t, r) PROVE r \in Guardados(c.t)
    <3>1. CASE comp[e].pc \in {"renombrar", "leer"}
      <4>1. r \in EnArchivos(tmpc[c.t])
        BY <2>2, <3>1 DEF EnCurso, EnArchivos, ConLasClaves
      <4> QED BY <4>1 DEF Guardados
    <3>2. CASE comp[e].pc \notin {"renombrar", "leer"}
      <4>1. r \in ToSet(comp[e].claves)
        <5>1. DOMAIN comp[e].claves = 1..Len(comp[e].claves)
          BY <1>0 DEF THilo
        <5> QED BY <2>2, <3>2, <5>1 DEF EnCurso, ToSet
      <4>2. comp[e].t = c.t
        BY <2>2 DEF EnCurso
      <4> QED BY <4>1, <4>2 DEF Guardados
    <3> QED BY <3>1, <3>2
  <2> QED BY <1>2, <2>1, <2>2 DEF Firme
<1> QED BY <1>0, <1>1, <1>2 DEF Cubierto

\* insertLFS, pasarAArchivoTemporal and compactar: what was answered with
\* INSERT_R, or a newer record of its key, is in the memtable or in a file, or
\* one of the named races has put it at risk, in every execution.
THEOREM LoConfirmadoSeConserva == Spec => []NadaSePierde
<1>1. Init => Resguardo
  BY ListadasInit, NumeradasInit DEF Resguardo, Init, Enlazados, Enlazado, Libre
<1>2. Resguardo /\ [Next]_vars => Resguardo'
  BY ResguardoPaso
<1>3. Resguardo => NadaSePierde
  BY ResguardoPropiedad
<1> QED BY <1>1, <1>2, <1>3, PTL DEF Spec
-----------------------------------------------------------------------------
(* What a SELECT finds there is. *)

PorHacer(t) ==
  \/ \E e \in Entradas : comp[e].t = t /\ comp[e].pc = "crearBin"
  \/ \E h \in Clientes : cl[h].t = t /\ cl[h].pc = "particiones"
Enteras(t) == \A p \in NumerosBin : bin[t][p] # NoExiste

\* A table with Metadata has all its partitions, or somebody is about to make
\* them, but for those that were left without them when the process died.
ConPartes ==
  \A t \in metadatas \ (solapadas \cup cortadas) :
    Enteras(t) \/ (caida = "no" /\ PorHacer(t))

\* Who makes the partitions of t makes them all.
LEMMA EnterasNuevas ==
  ASSUME Tipado, NEW t \in Tablas,
         bin' = [bin EXCEPT ![t] = [p \in NumerosBin |-> <<>>]]
  PROVE  Enteras(t)'
BY VacioHay DEF Enteras, Tipado, TipoBin

LEMMA PartesAtender ==
  ASSUME Tipado, SinEntradaNiHilo, NEW h \in Clientes, Atender(h), ~Muerte,
         NEW t \in Tablas \ solapadas, t \in metadatas', t \notin cortadas',
         t \in metadatas \ cortadas => Enteras(t) \/ PorHacer(t)
  PROVE  Enteras(t)' \/ PorHacer(t)'
<1>0. /\ DOMAIN bin = Tablas /\ DOMAIN cl = Clientes /\ DOMAIN cl[h] = CamposCl
      /\ DOMAIN comp = Entradas
      /\ \A g \in Clientes : g # h => cl'[g].pc = cl[g].pc /\ cl'[g].t = cl[g].t
  BY AtenderOtros DEF Iguales, Tipado, TipoBin, Inv, ClientesBien, Tipos
<1>1. CASE CrearParticiones(h) /\ cl[h].t = t
  <2>1. bin' = [bin EXCEPT ![t] = [p \in NumerosBin |-> <<>>]]
    BY <1>1 DEF CrearParticiones
  <2> QED BY <2>1, EnterasNuevas
<1>2. CASE CrearMetadata(h) /\ cl[h].t = t
  <2>1. cl'[h].t = t /\ cl'[h].pc = "particiones"
    BY <1>0, <1>2 DEF CrearMetadata, Sigue, CamposCl
  <2> QED BY <2>1 DEF PorHacer
<1>3. CASE ~(CrearParticiones(h) /\ cl[h].t = t) /\ ~(CrearMetadata(h) /\ cl[h].t = t)
  <2>0. BorrarArchivos(h) => cl[h].t # t
    BY DEF BorrarArchivos, En, DeDrop, Tipado, Inv, ClientesBien
  <2>1. t \in metadatas
    <3>1. UNCHANGED metadatas \/ CrearMetadata(h) \/ BorrarArchivos(h)
      BY CambiosAtender DEF Mkdir, QuitarDirectorio
    <3> QED BY <1>3, <3>1 DEF CrearMetadata, BorrarArchivos
  <2>2. t \notin cortadas
    <3>1. UNCHANGED cortadas \/ CrearParticiones(h)
      BY CambiosAtender
    <3> QED BY <1>3, <3>1 DEF CrearParticiones
  <2>3. bin'[t] = bin[t]
    <3>1. UNCHANGED bin \/ BorrarArchivos(h) \/ CrearParticiones(h)
      BY CambiosAtender
    <3> QED BY <1>0, <1>3, <2>0, <3>1 DEF BorrarArchivos, CrearParticiones
  <2>4. ASSUME NEW e \in Entradas, comp[e].pc = "crearBin" PROVE comp'[e] = comp[e]
    <3>1. CASE UNCHANGED comp
      BY <3>1
    <3>2. CASE Anotar(h)
      <4>1. PICK f \in Entradas : mutex[f] = "nunca" /\ comp' = [comp EXCEPT ![f] = Hilo("nace", cl[h].t)]
        BY <3>2, EntradaNueva
      <4>2. comp[f].pc = "fin"
        BY <4>1 DEF SinEntradaNiHilo
      <4> QED BY <1>0, <2>4, <4>1, <4>2
    <3> QED BY <3>1, <3>2, CambiosAtender
  <2>5. ASSUME cl[h].t = t, cl[h].pc = "particiones" PROVE FALSE
    <3>1. ~TablaMuere(h)
      BY DEF TablaMuere, Muerte, Morir
    <3> QED BY <1>3, <2>5, <3>1, ZenonT(60) DEF Atender, En, Poner, Agregar, AgregarSinLista, Enlazar,
      Sumar, EnlazarLiberado, Anotar, AnotarLiberado, Compuerta, SelectMuere, LeerBin, ListarTmp, LeerTmp, MirarMemtable, Filtrar,
      Responder, Mkdir, CrearMetadata, CrearParticiones, Ingresar, BorrarArchivos, QuitarDirectorio, Sacar
  <2>6. PorHacer(t) => PorHacer(t)'
    BY <1>0, <2>4, <2>5 DEF PorHacer
  <2>7. Enteras(t) => Enteras(t)'
    BY <2>3 DEF Enteras
  <2> QED BY <2>1, <2>2, <2>6, <2>7
<1> QED BY <1>1, <1>2, <1>3

LEMMA PartesComp ==
  ASSUME Tipado, NEW e \in Entradas, Compactacion(e), ~Muerte,
         NEW t \in Tablas \ solapadas, t \in metadatas', t \notin cortadas',
         t \in metadatas \ cortadas => Enteras(t) \/ PorHacer(t)
  PROVE  Enteras(t)' \/ PorHacer(t)'
<1>0. /\ DOMAIN bin = Tablas /\ bin[t] \in [NumerosBin -> Archivo]
      /\ DOMAIN comp = Entradas /\ DOMAIN comp[e] = CamposHilo
  BY DEF Tipado, TipoBin, Inv, Tipos
<1>o. /\ comp'[e].t = comp[e].t /\ cl' = cl
      /\ \A f \in Entradas : f # e => comp'[f] = comp[f]
  BY CompOtros
<1>1. CASE CrearBin(e) /\ comp[e].t = t
  <2>1. bin' = [bin EXCEPT ![t] = [p \in NumerosBin |-> <<>>]]
    BY <1>1 DEF CrearBin
  <2> QED BY <2>1, EnterasNuevas
<1>2. CASE BorrarBin(e) /\ comp[e].t = t
  <2>1. comp'[e].pc = "crearBin"
    BY <1>0, <1>2 DEF BorrarBin, Avanza, CamposHilo
  <2> QED BY <1>2, <1>o, <2>1 DEF PorHacer
<1>3. CASE ~(CrearBin(e) /\ comp[e].t = t) /\ ~(BorrarBin(e) /\ comp[e].t = t)
  <2>1. t \in metadatas
    BY CambiosComp
  <2>2. t \notin cortadas
    <3>1. UNCHANGED cortadas \/ CrearBin(e)
      BY CambiosComp
    <3> QED BY <1>3, <3>1 DEF CrearBin
  <2>3. Enteras(t) => Enteras(t)'
    <3>1. CASE UNCHANGED bin \/ BorrarBin(e) \/ CrearBin(e)
      <4>1. bin'[t] = bin[t]
        BY <1>0, <1>3, <3>1 DEF BorrarBin, CrearBin
      <4> QED BY <4>1 DEF Enteras
    <3>2. CASE EscribirBin(e)
      <4>1. PICK r \in Registros, p \in NumerosBin, q \in Seq(Registros) :
               /\ comp[e].j \in 1..Len(comp[e].claves) /\ r = comp[e].claves[comp[e].j]
               /\ p = Particion(r.key) /\ comp[e].t \in Tablas
               /\ q = bin[comp[e].t][p]
               /\ bin' = [bin EXCEPT ![comp[e].t][p] = Append(q, r)]
        BY <3>2, EscribirBinBien
      <4>2. PICK v \in Seq(Registros) : v = Append(q, r)
        <5>1. Append(q, r) \in Seq(Registros)
          OBVIOUS
        <5> QED BY <5>1
      <4>3. v # NoExiste
        BY Constantes
      <4> QED BY <1>0, <4>1, <4>2, <4>3 DEF Enteras
    <3> QED BY <3>1, <3>2, CambiosComp
  <2>4. ASSUME comp[e].pc = "crearBin", comp[e].t = t PROVE FALSE
    <3>1. ~CompMuere(e)
      BY DEF CompMuere, Muerte, Morir
    <3> QED BY <1>3, <2>4, <3>1, ZenonT(60) DEF Compactacion, EnComp, Nacer, CompDespertar, Tomar,
      Renombrar, LevantarClaves, BorrarTmpc, BorrarBin, CrearBin, EscribirBin, GuardarBin, Soltar
  <2>5. PorHacer(t) => PorHacer(t)'
    BY <1>o, <2>4 DEF PorHacer
  <2> QED BY <2>1, <2>2, <2>3, <2>5
<1> QED BY <1>1, <1>2, <1>3

LEMMA PartesCaer ==
  ASSUME Tipado, Muerte, ConPartes, NEW t \in metadatas' \ (solapadas' \cup cortadas')
  PROVE  Enteras(t)'
<1>1. /\ UNCHANGED <<metadatas, bin>> /\ t \notin solapadas \cup cortadas
      /\ t \in Tablas => ~PorHacer(t)
  <2>1. ASSUME t \in Tablas, PorHacer(t) PROVE t \in cortadas'
    <3>1. CASE \E e \in Entradas : comp[e].t = t /\ comp[e].pc = "crearBin"
      BY <2>1, <3>1 DEF Compactando, Muerte, Caer
    <3>2. CASE \E h \in Clientes : cl[h].t = t /\ cl[h].pc = "particiones"
      BY <2>1, <3>2 DEF Muerte, Caer
    <3> QED BY <2>1, <3>1, <3>2 DEF PorHacer
  <2> QED BY <2>1 DEF Muerte, Caer, disco
<1>2. t \in Tablas
  BY <1>1 DEF Tipado, TipoDir
<1> QED BY <1>1, <1>2 DEF ConPartes, Enteras

LEMMA PartesPaso ==
  ASSUME Tipado, SinEntradaNiHilo, ConPartes, [Next]_vars
  PROVE  ConPartes'
<1> SUFFICES ASSUME NEW t \in metadatas', t \notin solapadas', t \notin cortadas'
             PROVE  Enteras(t)' \/ (caida' = "no" /\ PorHacer(t)')
  BY DEF ConPartes
<1>0. t \in Tablas \ solapadas
  BY PasoTipado, SolapadasCrece DEF Tipado, TipoDir
<1>a. t \in metadatas \ cortadas => Enteras(t) \/ (caida = "no" /\ PorHacer(t))
  BY <1>0 DEF ConPartes
<1>1. CASE Muerte \/ Apagar
  <2>1. Muerte
    BY <1>1 DEF Apagar, Muerte
  <2> QED BY <2>1, PartesCaer
<1>2. ASSUME UNCHANGED <<metadatas, bin, comp, caida, cortadas>>,
             \A h \in Clientes : cl[h].pc = "particiones" => cl'[h].pc = cl[h].pc /\ cl'[h].t = cl[h].t
      PROVE  Enteras(t)' \/ (caida' = "no" /\ PorHacer(t)')
  BY <1>a, <1>2 DEF Enteras, PorHacer
<1>3. ASSUME NEW h \in Clientes, Pedido(h) PROVE Enteras(t)' \/ (caida' = "no" /\ PorHacer(t)')
  <2>1. cl[h].pc = "libre" /\ \A g \in Clientes : g # h => cl'[g] = cl[g]
    BY <1>3, PedidoOtros
  <2> QED BY <1>2, <1>3, <2>1, CambiosPedido DEF fallas
<1>4. ASSUME NEW h \in Clientes, Atender(h), ~Muerte PROVE Enteras(t)' \/ (caida' = "no" /\ PorHacer(t)')
  <2>1. caida = "no" /\ caida' = "no"
    BY <1>4, Viva, CambiosAtender DEF fallas
  <2> QED BY <1>0, <1>4, <1>a, <2>1, PartesAtender
<1>5. ASSUME Dump, ~Muerte PROVE Enteras(t)' \/ (caida' = "no" /\ PorHacer(t)')
  <2>1. \A h \in Clientes : cl'[h].pc = cl[h].pc /\ cl'[h].t = cl[h].t
    BY <1>5, DumpOtros DEF Iguales
  <2> QED BY <1>2, <1>5, <2>1, CambiosDump DEF fallas
<1>6. ASSUME NEW e \in Entradas, Compactacion(e), ~Muerte PROVE Enteras(t)' \/ (caida' = "no" /\ PorHacer(t)')
  <2>1. caida = "no" /\ caida' = "no"
    BY <1>6, Viva, CambiosComp DEF fallas
  <2> QED BY <1>0, <1>6, <1>a, <2>1, PartesComp
<1>7. CASE Reiniciar
  <2>1. caida # "no" /\ UNCHANGED <<metadatas, bin, cortadas>>
    BY <1>7 DEF Reiniciar, disco
  <2> QED BY <1>a, <2>1 DEF Enteras
<1>8. CASE UNCHANGED vars
  BY <1>2, <1>8 DEF vars, disco, fallas, historia
<1> QED BY <1>1, <1>3, <1>4, <1>5, <1>6, <1>7, <1>8 DEF Next

LEMMA PartesInit == Init => ConPartes
BY VacioHay, ConstantesValidas DEF Init, ConPartes, Enteras
-----------------------------------------------------------------------------
(* The threads that read. *)

EnLectura == {"bin", "listar", "tmp", "filtrar", "responder"}
DeLectura == EnLectura \cup {"compuerta"}

LeeUnPaso(h) ==
  Compuerta(h) \/ LeerBin(h) \/ ListarTmp(h) \/ LeerTmp(h) \/ MirarMemtable(h) \/ Filtrar(h)

\* Of the steps of an attention thread, those leave it reading.
LEMMA PasoALeer ==
  ASSUME Tipado, NEW h \in Clientes, Atender(h), ~Muerte, cl'[h].pc \in DeLectura
  PROVE  LeeUnPaso(h)
<1>0. DOMAIN cl = Clientes /\ DOMAIN cl[h] = CamposCl
  BY DEF Tipado, Inv, ClientesBien
<1> USE DEF DeLectura, EnLectura
<1>1. ~Poner(h)
  <2>1. SUFFICES ASSUME Poner(h) PROVE FALSE
    OBVIOUS
  <2>2. PICK o : o = [cl EXCEPT ![h].pc = "agregar"]
    OBVIOUS
  <2>3. o[h].pc = "agregar" /\ DOMAIN o[h] = CamposCl
    BY <1>0, <2>2 DEF CamposCl
  <2>4. cl' = o \/ \E hilos : cl' = Separar(hilos, "reemplazada", o)
    BY <2>1, <2>2 DEF Poner
  <2>5. cl'[h].pc = "agregar"
    BY <2>3, <2>4 DEF Separar, CamposCl
  <2> QED BY <2>5
<1>2. ~Enlazar(h)
  <2>2. SUFFICES ASSUME Enlazar(h) PROVE FALSE
    OBVIOUS
  <2>3. PICK n : n = elementos[cl[h].t]
    OBVIOUS
  <2>4. PICK o : o = [cl EXCEPT ![h].pc = "contar", ![h].ultimo = n]
    OBVIOUS
  <2>5. o[h].pc = "contar" /\ DOMAIN o[h] = CamposCl
    BY <1>0, <2>4 DEF CamposCl
  <2>6. \E hilos : cl' = Separar(hilos, "cortada", o)
    BY <2>2, <2>3, <2>4 DEF Enlazar
  <2>7. cl'[h].pc = "contar"
    BY <2>5, <2>6 DEF Separar, CamposCl
  <2> QED BY <2>7
<1>3. ~Agregar(h) /\ ~Ingresar(h)
  BY <1>0 DEF Agregar, Ingresar, CamposCl
<1>4. /\ ~AgregarSinLista(h) /\ ~EnlazarLiberado(h) /\ ~SelectMuere(h) /\ ~TablaMuere(h)
      /\ ~AnotarLiberado(h)
  BY DEF Muerte, Morir, AgregarSinLista, EnlazarLiberado, SelectMuere, TablaMuere, AnotarLiberado
<1>5. ~Responder(h) /\ ~Sumar(h)
  BY <1>0 DEF Responder, Sumar, Termina, Libre
<1>6. ~CrearMetadata(h) /\ ~CrearParticiones(h) /\ ~BorrarArchivos(h) /\ ~QuitarDirectorio(h)
  BY <1>0 DEF CrearMetadata, CrearParticiones, BorrarArchivos, QuitarDirectorio, Sigue, CamposCl
<1>7. ~Mkdir(h)
  BY <1>0 DEF Mkdir, Sigue, TrasMkdir, CamposCl
<1>8. ~Anotar(h) /\ ~Sacar(h)
  <2>1. PICK o : o = [cl EXCEPT ![h] = Libre]
    OBVIOUS
  <2>2. o[h].pc = "libre" /\ DOMAIN o[h] = CamposCl
    BY <1>0, <2>1 DEF Libre, CamposCl
  <2>3. ASSUME Anotar(h) PROVE FALSE
    <3>1. \E hilos : cl' = Separar(hilos, "cortada", o)
      BY <2>1, <2>3 DEF Anotar
    <3>2. cl'[h].pc = "libre"
      BY <2>2, <3>1 DEF Separar, CamposCl
    <3> QED BY <3>2
  <2>4. ASSUME Sacar(h), ExisteLaTabla(cl[h].t) PROVE FALSE
    <3>1. PICK i : i = Indice(cl[h].t)
      OBVIOUS
    <3>2. PICK p : p = Correr(i, o)
      OBVIOUS
    <3>3. \E hilos : cl' = Separar(hilos, "liberada", p)
      BY <2>1, <2>4, <3>1, <3>2 DEF Sacar
    <3>4. p[h] = o[h]
      BY <2>4, <3>2 DEF Correr, PorAnotar, Sacar, En
    <3>5. cl'[h].pc = "libre"
      BY <2>2, <3>3, <3>4 DEF Separar, CamposCl
    <3> QED BY <3>5
  <2>5. ASSUME Sacar(h), ~ExisteLaTabla(cl[h].t) PROVE FALSE
    BY <2>1, <2>2, <2>5 DEF Sacar
  <2> QED BY <2>3, <2>4, <2>5
<1> QED BY <1>1, <1>2, <1>3, <1>4, <1>5, <1>6, <1>7, <1>8, Zenon DEF Atender, LeeUnPaso

LEMMA LectorSigue ==
  ASSUME Tipado, [Next]_vars, NEW g \in Clientes, cl'[g].pc \in DeLectura
  PROVE  \/ Iguales(cl'[g], cl[g])
         \/ \E t \in Tablas, k \in Claves : Select(g, t, k)
         \/ LeeUnPaso(g)
<1>0. DOMAIN cl = Clientes /\ DOMAIN cl[g] = CamposCl
  BY DEF Tipado, Inv, ClientesBien
<1>1. CASE UNCHANGED cl
  BY <1>1 DEF Iguales
<1>2. ASSUME NEW h \in Clientes, Pedido(h)
      PROVE  cl'[g] = cl[g] \/ \E t \in Tablas, k \in Claves : Select(g, t, k)
  <2>1. CASE g # h
    BY <1>2, <2>1, PedidoOtros
  <2>2. CASE g = h
    <3>1. ASSUME NEW t \in Tablas, NEW k \in Claves, Insert(h, t, k)
          PROVE  cl'[h].pc \notin DeLectura
      <4>1. PICK ahora : cl' = [cl EXCEPT ![h] =
               [Libre EXCEPT !.pc = IF diccionario[t] = SinLista THEN "poner" ELSE "agregar",
                          !.t = t, !.error = ~ExisteLaTabla(t),
                          !.reg = [timestamp |-> ahora, key |-> k, n |-> cuantos + 1]]]
        BY <3>1 DEF Insert
      <4>2. PICK paso : paso = IF diccionario[t] = SinLista THEN "poner" ELSE "agregar"
        OBVIOUS
      <4>3. PICK b, x : b = ~ExisteLaTabla(t) /\ x = [timestamp |-> ahora, key |-> k, n |-> cuantos + 1]
        OBVIOUS
      <4>4. cl' = [cl EXCEPT ![h] = [Libre EXCEPT !.pc = paso, !.t = t, !.error = b, !.reg = x]]
        BY <4>1, <4>2, <4>3
      <4>5. cl'[h].pc = paso
        BY <1>0, <4>4 DEF Libre
      <4> QED BY <4>2, <4>5 DEF DeLectura, EnLectura
    <3>2. ASSUME NEW t \in Tablas, Create(h, t) \/ Drop(h, t)
          PROVE  cl'[h].pc \notin DeLectura
      BY <1>0, <3>2 DEF Create, Drop, Libre, DeLectura, EnLectura
    <3> QED BY <1>2, <2>2, <3>1, <3>2 DEF Pedido
  <2> QED BY <2>1, <2>2
<1>3. ASSUME NEW h \in Clientes, Atender(h), ~Muerte PROVE Iguales(cl'[g], cl[g]) \/ LeeUnPaso(g)
  <2>1. CASE g = h
    BY <1>3, <2>1, PasoALeer
  <2>2. CASE g # h
    BY <1>3, <2>2, AtenderOtros
  <2> QED BY <2>1, <2>2
<1>4. ASSUME Dump PROVE Iguales(cl'[g], cl[g])
  BY <1>4, DumpOtros
<1>5. ASSUME NEW e \in Entradas, Compactacion(e) PROVE UNCHANGED cl
  BY <1>5, CambiosComp DEF Muerte, Caer
<1>6. ASSUME Muerte \/ Apagar PROVE UNCHANGED cl
  BY <1>6 DEF Muerte, Apagar, Caer
<1>7. ~Reiniciar
  BY DEF Reiniciar, Libre, DeLectura, EnLectura
<1> QED BY <1>1, <1>2, <1>3, <1>4, <1>5, <1>6, <1>7 DEF Next, vars, Iguales

\* A reading thread keeps its table, key and mutex.
LEMMA LeeLoMismo ==
  ASSUME Tipado, NEW h \in Clientes, LeeUnPaso(h)
  PROVE  /\ cl[h].pc \in DeLectura \ {"responder"} /\ caida = "no"
         /\ cl'[h].t = cl[h].t /\ cl'[h].k = cl[h].k /\ cl'[h].entrada = cl[h].entrada
<1>0. DOMAIN cl = Clientes /\ DOMAIN cl[h] = CamposCl
  BY DEF Tipado, Inv, ClientesBien
<1>1. CASE Compuerta(h)
  BY <1>0, <1>1 DEF Compuerta, En, Sigue, CamposCl, DeLectura, EnLectura
<1>2. CASE LeerBin(h)
  <2>1. PICK v : cl' = [cl EXCEPT ![h].pc = "listar", ![h].visto = v]
    BY <1>2 DEF LeerBin
  <2> QED BY <1>0, <1>2, <2>1 DEF LeerBin, En, CamposCl, DeLectura, EnLectura
<1>3. CASE ListarTmp(h)
  <2>1. PICK v : cl' = [cl EXCEPT ![h].pc = "tmp", ![h].vistos = v]
    BY <1>3 DEF ListarTmp
  <2> QED BY <1>0, <1>3, <2>1 DEF ListarTmp, En, CamposCl, DeLectura, EnLectura
<1>4. CASE LeerTmp(h)
  <2>1. PICK v, w : cl' = [cl EXCEPT ![h].visto = v, ![h].vistos = w]
    BY <1>4 DEF LeerTmp
  <2> QED BY <1>0, <1>4, <2>1 DEF LeerTmp, En, CamposCl, DeLectura, EnLectura
<1>5. CASE MirarMemtable(h)
  BY <1>0, <1>5 DEF MirarMemtable, En, Sigue, CamposCl, DeLectura, EnLectura
<1>6. CASE Filtrar(h)
  <2>1. PICK v : cl' = [cl EXCEPT ![h].pc = "responder", ![h].visto = v]
    BY <1>6 DEF Filtrar
  <2> QED BY <1>0, <1>6, <2>1 DEF Filtrar, En, CamposCl, DeLectura, EnLectura
<1> QED BY <1>1, <1>2, <1>3, <1>4, <1>5, <1>6 DEF LeeUnPaso

\* What the SELECTs are known by, but for its steps, they keep.
LEMMA LecturaPaso ==
  ASSUME [Next]_vars
  PROVE  \/ UNCHANGED lectura
         \/ Limpiar \/ Reiniciar \/ \E e \in Entradas : Tomar(e)
         \/ \E h \in Clientes : \/ Compuerta(h) \/ Responder(h)
                               \/ \E t \in Tablas, k \in Claves : Select(h, t, k)
<1>1. ASSUME NEW h \in Clientes, Pedido(h)
      PROVE  UNCHANGED lectura \/ \E t \in Tablas, k \in Claves : Select(h, t, k)
  BY <1>1, ZenonT(60) DEF Pedido, Insert, Create, Drop, historia
<1>2. ASSUME NEW h \in Clientes, Atender(h)
      PROVE  UNCHANGED lectura \/ Compuerta(h) \/ Responder(h)
  BY <1>2, ZenonT(60) DEF Atender, historia, Morir, Caer, Poner, Agregar, AgregarSinLista, Enlazar, Sumar,
    EnlazarLiberado, Anotar, AnotarLiberado, SelectMuere, LeerBin, ListarTmp, LeerTmp, MirarMemtable, Filtrar,
    Mkdir, CrearMetadata, CrearParticiones, Ingresar, BorrarArchivos, QuitarDirectorio, Sacar, TablaMuere
<1>3. ASSUME Dump PROVE UNCHANGED lectura \/ Limpiar
  BY <1>3, ZenonT(60) DEF Dump, historia, vars, Morir, Caer, DumpSinNada, DumpDespertar, Contar,
    ContarSinTabla, Crear, Guardar, Escribir, DumpMuere
<1>4. ASSUME NEW e \in Entradas, Compactacion(e) PROVE UNCHANGED lectura \/ Tomar(e)
  BY <1>4, ZenonT(60) DEF Compactacion, historia, Morir, Caer, Nacer, CompDespertar, Renombrar,
    LevantarClaves, BorrarTmpc, BorrarBin, CrearBin, EscribirBin, GuardarBin, CompMuere, Soltar
<1>5. ASSUME Apagar PROVE UNCHANGED lectura
  BY <1>5 DEF Apagar, Caer
<1>6. ASSUME UNCHANGED vars PROVE UNCHANGED lectura
  BY <1>6 DEF vars, historia
<1> QED BY <1>1, <1>2, <1>3, <1>4, <1>5, <1>6, Zenon DEF Next

\* The entry of a table is the one at its first place, before a step and after it.
LEMMA EntradaDe == \A t : Entrada(t) = listaDeTablas[IndiceEn(listaDeTablas, t)][2]
BY Conocidas DEF Entrada

LEMMA EntradaDespues == (\A t : Entrada(t) = listaDeTablas[IndiceEn(listaDeTablas, t)][2])'
BY EntradaDe, PTL

\* A table that was not dropped, nor an entry lost of it, keeps its first one, in the
\* life of the process.
LEMMA EntradaFija ==
  ASSUME Tipado, [Next]_vars, ~Reiniciar, NEW t \in Tablas \ solapadas, t \notin solapadas',
         ExisteLaTabla(t)
  PROVE  ExisteLaTabla(t)' /\ Entrada(t)' = Entrada(t)
<1>0. Esta(listaDeTablas, t) /\ listaDeTablas \in Seq(Tablas \X Entradas)
  BY Conocidas DEF Tipado, Inv, Tipos
<1>1. SUFFICES /\ Esta(listaDeTablas', t)
               /\ listaDeTablas'[IndiceEn(listaDeTablas', t)] = listaDeTablas[IndiceEn(listaDeTablas, t)]
  <2>1. Entrada(t) = listaDeTablas[IndiceEn(listaDeTablas, t)][2]
    BY EntradaDe
  <2>2. Entrada(t)' = listaDeTablas'[IndiceEn(listaDeTablas', t)][2]
    BY EntradaDespues
  <2>3. ExisteLaTabla(t)' <=> Esta(listaDeTablas', t)
    BY DEF ExisteLaTabla, Esta
  <2> QED BY <2>1, <2>2, <2>3
<1>2. CASE UNCHANGED listaDeTablas
  BY <1>0, <1>2
<1>3. ASSUME NEW h \in Clientes, Pedido(h) PROVE UNCHANGED listaDeTablas
  BY <1>3, CambiosPedido DEF listas
<1>4. ASSUME NEW h \in Clientes, Atender(h)
      PROVE  /\ Esta(listaDeTablas', t)
             /\ listaDeTablas'[IndiceEn(listaDeTablas', t)] = listaDeTablas[IndiceEn(listaDeTablas, t)]
  <2>0. cl[h].pc # "libre" => cl[h].t \in Tablas
    BY DEF Tipado, Inv, ClientesBien
  <2>1. CASE Anotar(h)
    <3>1. PICK e \in Entradas : listaDeTablas' = IF cl[h].suLista = "vigente"
             THEN Append(SubSeq(listaDeTablas, 1, cl[h].ultimo), <<cl[h].t, e>>)
             ELSE listaDeTablas
      BY <2>1, EntradaNueva
    <3>2. /\ cl[h].pc = "anotar" /\ cl[h].t \in Tablas
          /\ solapadas' = solapadas \cup
               (IF cl[h].suLista = "vigente"
                THEN {listaDeTablas[i][1] : i \in (cl[h].ultimo + 1)..Len(listaDeTablas)}
                ELSE {cl[h].t})
      BY <2>0, <2>1 DEF Anotar, En
    <3> QED BY <1>0, <3>1, <3>2, AnotarLista DEF Tipado
  <2>2. CASE Sacar(h)
    <3>1. CASE ExisteLaTabla(cl[h].t)
      <4>1. cl[h].t \in solapadas
        BY <2>2 DEF Sacar, En, DeDrop, Tipado, Inv, ClientesBien
      <4>2. PICK u : u = cl[h].t
        OBVIOUS
      <4>3. /\ listaDeTablas' = RemoveAt(listaDeTablas, IndiceEn(listaDeTablas, u))
            /\ Esta(listaDeTablas, u) /\ u # t
        BY <2>2, <3>1, <4>1, <4>2, Conocidas DEF Sacar
      <4>4. PICK m : m = IndiceEn(listaDeTablas, u)
        OBVIOUS
      <4>5. m \in 1..Len(listaDeTablas) /\ listaDeTablas[m][1] = u
        BY <1>0, <4>3, <4>4, EsElPrimero
      <4> QED BY <1>0, <4>3, <4>4, <4>5, AlSacar
    <3>2. CASE ~ExisteLaTabla(cl[h].t)
      BY <1>2, <2>2, <3>2 DEF Sacar, listas
    <3> QED BY <3>1, <3>2
  <2> QED BY <1>2, <1>4, <2>1, <2>2, AtenderClientes DEF Tipado, listas
<1>5. ASSUME Dump PROVE UNCHANGED listaDeTablas
  BY <1>5, DumpClientes DEF Tipado, listas
<1>6. ASSUME NEW e \in Entradas, Compactacion(e) PROVE UNCHANGED listaDeTablas
  BY <1>6, CambiosComp DEF Muerte, Caer, listas
<1>7. ASSUME Apagar PROVE UNCHANGED listaDeTablas
  BY <1>7 DEF Apagar, Caer, listas
<1> QED BY <1>2, <1>3, <1>4, <1>5, <1>6, <1>7 DEF Next, vars, listas

\* No compaction of t is at work.
Quieta(t) == \A e \in Entradas : comp[e].t = t => comp[e].pc \in Quietos

\* The mutex lets a SELECT through when none is.
LEMMA PasaQuieta ==
  ASSUME Tipado, NEW t \in Tablas \ solapadas, Pasa(Entrada(t))
  PROVE  Quieta(t)
<1>1. ASSUME NEW e \in Entradas, comp[e].t = t, Trabaja(e) PROVE FALSE
  <2>1. HiloBien(e)
    BY DEF Tipado, Inv, HilosBien
  <2>2. comp[e].mutex = Entrada(t) /\ mutex[comp[e].mutex] = "tomado"
    BY <1>1, <2>1, Conocidas DEF HiloBien, Trabaja, Quietos, Entrada
  <2> QED BY <2>2 DEF Pasa
<1> QED BY <1>1 DEF Quieta, Trabaja

LEMMA QuietaSigue ==
  ASSUME Tipado, SinEntradaNiHilo, [Next]_vars, ~Reiniciar, NEW t \in Tablas, Quieta(t),
         \A e \in Entradas : Tomar(e) => comp[e].t # t
  PROVE  Quieta(t)'
<1>0. DOMAIN comp = Entradas
  BY DEF Tipado, Inv, Tipos
<1>1. CASE UNCHANGED comp
  BY <1>1 DEF Quieta
<1>2. ASSUME NEW h \in Clientes, Pedido(h) PROVE UNCHANGED comp
  BY <1>2, CambiosPedido
<1>3. ASSUME NEW h \in Clientes, Atender(h), ~Muerte PROVE Quieta(t)'
  <2>1. CASE Anotar(h)
    <3>1. PICK f \in Entradas : comp' = [comp EXCEPT ![f] = Hilo("nace", cl[h].t)]
      BY <2>1, EntradaNueva
    <3>2. comp'[f].pc \in Quietos /\ \A e \in Entradas : e # f => comp'[e] = comp[e]
      BY <1>0, <3>1 DEF Hilo, Quietos
    <3> QED BY <3>2 DEF Quieta
  <2> QED BY <1>1, <1>3, <2>1, CambiosAtender
<1>4. ASSUME Dump, ~Muerte PROVE UNCHANGED comp
  BY <1>4, CambiosDump
<1>5. ASSUME NEW e \in Entradas, Compactacion(e), ~Muerte PROVE Quieta(t)'
  <2>0. /\ comp'[e].t = comp[e].t /\ \A f \in Entradas : f # e => comp'[f] = comp[f]
        /\ DOMAIN comp[e] = CamposHilo
    BY <1>5, CompOtros DEF Tipado, Inv, Tipos
  <2>1. SUFFICES ASSUME comp[e].t = t PROVE comp'[e].pc \in Quietos
    BY <2>0 DEF Quieta
  <2>2. comp[e].pc \in Quietos /\ ~Tomar(e)
    BY <2>1 DEF Quieta
  <2>3. CASE Nacer(e)
    BY <1>0, <1>5, <2>0, <2>3 DEF Nacer, Morir, Muerte, Quietos, CamposHilo
  <2>4. CASE CompDespertar(e)
    BY <1>0, <2>0, <2>4 DEF CompDespertar, Avanza, Quietos, CamposHilo
  <2>5. ~Nacer(e) /\ ~CompDespertar(e) => comp[e].pc \notin Quietos
    BY <1>5, <2>2, ZenonT(60) DEF Compactacion, EnComp, Quietos, Renombrar, LevantarClaves, BorrarTmpc,
      BorrarBin, CrearBin, EscribirBin, GuardarBin, CompMuere, Soltar
  <2> QED BY <2>2, <2>3, <2>4, <2>5
<1>6. ASSUME Muerte \/ Apagar PROVE UNCHANGED comp
  BY <1>6 DEF Muerte, Apagar, Caer
<1>7. ASSUME UNCHANGED vars PROVE UNCHANGED comp
  BY <1>7 DEF vars
<1> QED BY <1>1, <1>2, <1>3, <1>4, <1>5, <1>6, <1>7 DEF Next

\* What it reads of a table stays meanwhile.
LEMMA MesaServida ==
  ASSUME Tipado, [Next]_vars, ~Reiniciar, ~Limpiar, NEW t \in Tablas \ solapadas',
         t \notin solapadas, Contigua(t), Quieta(t)
  PROVE  /\ Existentes(tmp[t]) \subseteq Existentes(tmp'[t])
         /\ \A n : Asentado(t, n) => Asentado(t, n)' /\ tmp'[t][n] = tmp[t][n]
         /\ diccionario[t] # SinLista => diccionario'[t] # SinLista
<1>0. DOMAIN tmp = Tablas /\ DOMAIN diccionario = Tablas
  BY DEF Tipado, TipoTmp, TipoMem
<1>1. CASE tmp'[t] = tmp[t] /\ dump' = dump /\ diccionario'[t] = diccionario[t]
  BY <1>1 DEF Asentado
<1>2. ASSUME NEW h \in Clientes, Pedido(h) PROVE UNCHANGED <<tmp, dump, diccionario>>
  BY <1>2, CambiosPedido
<1>3. ASSUME NEW h \in Clientes, Atender(h), ~Muerte
      PROVE  /\ tmp'[t] = tmp[t] /\ dump' = dump
             /\ diccionario[t] # SinLista => diccionario'[t] # SinLista
  <2>1. tmp'[t] = tmp[t]
    <3>1. UNCHANGED tmp \/ BorrarArchivos(h)
      BY <1>3, CambiosAtender
    <3>2. BorrarArchivos(h) => cl[h].t # t
      BY DEF BorrarArchivos, En, DeDrop, Tipado, Inv, ClientesBien
    <3> QED BY <1>0, <3>1, <3>2 DEF BorrarArchivos
  <2>2. CASE Poner(h)
    <3>1. UNCHANGED diccionario \/ diccionario' = [diccionario EXCEPT ![cl[h].t] = <<>>]
      BY <2>2 DEF Poner
    <3>2. diccionario'[t] = diccionario[t] \/ diccionario'[t] = <<>>
      BY <1>0, <3>1
    <3> QED BY <1>3, <2>1, <3>2, VacioHay, CambiosAtender
  <2>3. CASE Enlazar(h)
    <3>1. CASE cl[h].suLista = "vigente" /\ cl[h].t = t
      <4>1. PICK s \in Seq(Registros) : s = diccionario[t]
        BY <2>3, <3>1 DEF Enlazar, En, Tipado, TipoCl
      <4>2. PICK u \in Nat : u = cl[h].ultimo /\ u <= Len(s)
        BY <2>3, <3>1, <4>1 DEF Enlazar, En, Tipado, TipoCl, TCl
      <4>3. PICK x \in Registros : x = cl[h].reg
        BY <2>3 DEF Enlazar, En, Tipado, TipoCl, EnElInsert
      <4>4. PICK q : q = Append(SubSeq(s, 1, u), x)
        OBVIOUS
      <4>5. q \in Seq(Registros)
        BY <4>2, <4>4, EnElTramo
      <4>6. diccionario' = [diccionario EXCEPT ![t] = q]
        BY <2>3, <3>1, <4>1, <4>2, <4>3, <4>4 DEF Enlazar
      <4>7. diccionario'[t] # SinLista
        BY <1>0, <4>5, <4>6, Constantes
      <4> QED BY <1>3, <2>1, <4>7, CambiosAtender
    <3>2. CASE ~(cl[h].suLista = "vigente" /\ cl[h].t = t)
      <4>1. diccionario'[t] = diccionario[t]
        BY <1>0, <2>3, <3>2 DEF Enlazar
      <4> QED BY <1>3, <2>1, <4>1, CambiosAtender
    <3> QED BY <3>1, <3>2
  <2> QED BY <1>3, <2>1, <2>2, <2>3, CambiosAtender
<1>4. ASSUME Dump, ~Muerte PROVE UNCHANGED diccionario
  BY <1>4, CambiosDump
<1>5. ASSUME NEW e \in Entradas, Compactacion(e) PROVE tmp'[t] = tmp[t] /\ dump' = dump /\ diccionario'[t] = diccionario[t]
  <2>1. UNCHANGED <<dump, diccionario>> /\ (UNCHANGED tmp \/ Renombrar(e))
    BY <1>5, CambiosComp DEF Muerte, Caer, disco
  <2>2. Renombrar(e) => comp[e].t # t
    BY DEF Renombrar, EnComp, Quieta, Quietos
  <2> QED BY <1>0, <2>1, <2>2 DEF Renombrar
<1>6. ASSUME Muerte \/ Apagar PROVE UNCHANGED <<tmp, dump, diccionario>>
  BY <1>6 DEF Muerte, Apagar, Caer, disco
<1>7. ASSUME UNCHANGED vars PROVE UNCHANGED <<tmp, dump, diccionario>>
  BY <1>7 DEF vars, disco
<1>8. CASE Dump /\ ~Muerte
  BY <1>4, <1>8, TmpDump
<1>9. ASSUME NEW h \in Clientes, Atender(h), ~Muerte PROVE \A n : Asentado(t, n)' <=> Asentado(t, n)
  BY <1>3, <1>9 DEF Asentado
<1> QED BY <1>1, <1>2, <1>3, <1>5, <1>6, <1>7, <1>8, <1>9 DEF Next

\* The same as long as it reads: it was let through, and no dump has cleaned
\* the memtable nor a compaction taken its table since.
Lecturas == sereno \in [Clientes -> BOOLEAN] /\ DOMAIN debe = Clientes

LEMMA LecturasPaso ==
  ASSUME Lecturas, [Next]_vars
  PROVE  Lecturas'
<1>1. CASE UNCHANGED lectura
  BY <1>1 DEF Lecturas, lectura
<1>2. CASE Limpiar
  BY <1>2 DEF Lecturas, Limpiar, Perturbar
<1>3. CASE Reiniciar
  BY <1>3 DEF Lecturas, Reiniciar
<1>4. CASE \E e \in Entradas : Tomar(e)
  BY <1>4 DEF Lecturas, Tomar, Perturbar
<1>5. CASE \E h \in Clientes : \/ Compuerta(h) \/ Responder(h)
                               \/ \E t \in Tablas, k \in Claves : Select(h, t, k)
  BY <1>5 DEF Lecturas, Compuerta, Responder, Select
<1> QED BY <1>1, <1>2, <1>3, <1>4, <1>5, LecturaPaso

LEMMA SerenoPaso ==
  ASSUME Tipado, Lecturas, [Next]_vars, NEW h \in Clientes, cl'[h].pc \in EnLectura, sereno'[h],
         ~Compuerta(h)
  PROVE  /\ sereno[h] /\ debe'[h] = debe[h] /\ ~Reiniciar /\ ~Limpiar
         /\ \A e \in Entradas : Tomar(e) => comp[e].t # cl[h].t
<1>0. DOMAIN sereno = Clientes /\ DOMAIN debe = Clientes /\ DOMAIN cl = Clientes
  BY DEF Lecturas, Tipado, Inv, ClientesBien
<1>1. ~Reiniciar
  BY DEF Reiniciar
<1>2. ~Limpiar
  <2>1. SUFFICES ASSUME Limpiar PROVE FALSE
    OBVIOUS
  <2>2. cl'[h].pc = cl[h].pc
    BY <2>1, DumpOtros DEF Dump, Iguales
  <2>3. cl[h].t \in Tablas
    BY <2>2 DEF Tipado, Inv, ClientesBien, EnLectura
  <2> QED BY <2>1, <2>3 DEF Limpiar, Perturbar
<1>3. ASSUME NEW e \in Entradas, Tomar(e)
      PROVE  comp[e].t # cl[h].t /\ sereno[h] /\ debe'[h] = debe[h]
  BY <1>3 DEF Tomar, Perturbar
<1>4. ASSUME NEW g \in Clientes, Compuerta(g) PROVE sereno'[h] = sereno[h] /\ debe'[h] = debe[h]
  BY <1>0, <1>4 DEF Compuerta
<1>5. ASSUME NEW g \in Clientes, Responder(g) PROVE sereno'[h] = sereno[h] /\ debe'[h] = debe[h]
  BY <1>0, <1>5 DEF Responder
<1>6. ASSUME NEW g \in Clientes, NEW t \in Tablas, NEW k \in Claves, Select(g, t, k)
      PROVE  sereno'[h] = sereno[h] /\ debe'[h] = debe[h]
  BY <1>0, <1>6 DEF Select
<1> QED BY <1>1, <1>2, <1>3, <1>4, <1>5, <1>6, LecturaPaso DEF lectura

\* A SELECT has the mutex of its table; once let through, and while nothing
\* crosses it, no compaction of the table is at work, the .tmp files it has
\* listed are there, and so is the list it has seen in the memtable.
Servido(h) ==
  /\ Quieta(cl[h].t)
  /\ cl[h].pc = "tmp" => cl[h].vistos \subseteq Existentes(tmp[cl[h].t])
  /\ cl[h].pc = "filtrar" => diccionario[cl[h].t] # SinLista

Lector(h) ==
  cl[h].pc \in DeLectura /\ cl[h].t \notin solapadas =>
    /\ ExisteLaTabla(cl[h].t) /\ cl[h].entrada = Entrada(cl[h].t)
    /\ cl[h].pc \in EnLectura /\ sereno[h] => Servido(h)

LEMMA ServidoPaso ==
  ASSUME Listadas, Numeradas, Lecturas, [Next]_vars, NEW h \in Clientes, Lector(h),
         Iguales(cl'[h], cl[h]) \/ LeeUnPaso(h), cl[h].pc \in DeLectura,
         NEW t \in Tablas \ solapadas', t = cl[h].t, t = cl'[h].t, t \notin solapadas,
         cl'[h].pc \in EnLectura, sereno'[h]
  PROVE  Servido(h)'
<1>0. DOMAIN cl = Clientes /\ DOMAIN cl[h] = CamposCl /\ Tipado /\ SinEntradaNiHilo
  BY DEF Listadas, Tipado, Inv, ClientesBien
<1>1. CASE Compuerta(h)
  <2>1. Quieta(t) /\ UNCHANGED comp
    BY <1>0, <1>1, PasaQuieta DEF Lector, Compuerta
  <2>2. cl'[h].pc = "bin"
    BY <1>0, <1>1 DEF Compuerta, Sigue, CamposCl
  <2>3. Quieta(t)'
    BY <2>1 DEF Quieta
  <2>4. Quieta(t)' => Quieta(cl[h].t)'
    BY DEF Quieta
  <2> QED BY <2>2, <2>3, <2>4 DEF Servido
<1>2. CASE ~Compuerta(h)
  <2>1. /\ sereno[h] /\ ~Reiniciar /\ ~Limpiar
        /\ \A e \in Entradas : Tomar(e) => comp[e].t # t
    BY <1>0, <1>2, SerenoPaso
  <2>2. cl[h].pc \in EnLectura
    BY <1>2 DEF LeeUnPaso, Iguales, En, LeerBin, ListarTmp, LeerTmp, MirarMemtable, Filtrar, EnLectura
  <2>3. Servido(h) /\ Quieta(t)
    BY <2>1, <2>2 DEF Lector, Servido
  <2>4. Quieta(t)' /\ (Quieta(t)' => Quieta(cl[h].t)')
    BY <1>0, <2>1, <2>3, QuietaSigue DEF Quieta
  <2>5. /\ Existentes(tmp[t]) \subseteq Existentes(tmp'[t])
        /\ diccionario[t] # SinLista => diccionario'[t] # SinLista
    BY <1>0, <2>1, <2>3, MesaServida DEF Numeradas
  <2>6. /\ cl'[h].pc = "tmp" => cl'[h].vistos \subseteq Existentes(tmp'[t])
        /\ cl'[h].pc = "filtrar" => diccionario'[t] # SinLista
    <3>1. CASE Iguales(cl'[h], cl[h])
      BY <2>3, <2>5, <3>1 DEF Iguales, Servido
    <3>2. CASE LeerBin(h)
      <4>1. PICK v : cl' = [cl EXCEPT ![h].pc = "listar", ![h].visto = v]
        BY <3>2 DEF LeerBin
      <4> QED BY <1>0, <4>1 DEF CamposCl
    <3>3. CASE ListarTmp(h)
      <4>1. PICK v : /\ v \subseteq Existentes(tmp[t])
                     /\ cl' = [cl EXCEPT ![h].pc = "tmp", ![h].vistos = v]
        BY <3>3 DEF ListarTmp
      <4>2. UNCHANGED tmp
        BY <3>3 DEF ListarTmp, disco
      <4> QED BY <1>0, <4>1, <4>2 DEF CamposCl
    <3>4. CASE LeerTmp(h)
      <4>1. PICK v, n : cl' = [cl EXCEPT ![h].visto = v, ![h].vistos = @ \ {n}]
        BY <3>4 DEF LeerTmp
      <4>2. cl'[h].vistos \subseteq cl[h].vistos /\ cl'[h].pc = "tmp" /\ cl[h].pc = "tmp"
        BY <1>0, <3>4, <4>1 DEF CamposCl, LeerTmp, En
      <4> QED BY <2>3, <2>5, <4>2 DEF Servido
    <3>5. CASE MirarMemtable(h)
      <4>1. cl'[h].pc = IF diccionario[t] = SinLista THEN "responder" ELSE "filtrar"
        BY <1>0, <3>5 DEF MirarMemtable, Sigue, CamposCl
      <4> QED BY <2>5, <4>1
    <3>6. CASE Filtrar(h)
      <4>1. PICK v : cl' = [cl EXCEPT ![h].pc = "responder", ![h].visto = v]
        BY <3>6 DEF Filtrar
      <4> QED BY <1>0, <4>1 DEF CamposCl
    <3> QED BY <1>2, <3>1, <3>2, <3>3, <3>4, <3>5, <3>6 DEF LeeUnPaso
  <2> QED BY <2>4, <2>6 DEF Servido
<1> QED BY <1>1, <1>2

LEMMA LectorPaso ==
  ASSUME Listadas, Numeradas, Lecturas, [Next]_vars, NEW h \in Clientes, Lector(h)
  PROVE  Lector(h)'
<1> SUFFICES ASSUME cl'[h].pc \in DeLectura, cl'[h].t \notin solapadas'
             PROVE  /\ ExisteLaTabla(cl[h].t)' /\ cl'[h].entrada = Entrada(cl[h].t)'
                    /\ cl'[h].pc \in EnLectura /\ sereno'[h] => Servido(h)'
  BY DEF Lector
<1>0. Tipado /\ Tipado' /\ solapadas \subseteq solapadas' /\ DOMAIN cl = Clientes
  BY PasoTipado, SolapadasCrece DEF Listadas, Tipado, Inv, ClientesBien
<1>1. ASSUME NEW t \in Tablas, NEW k \in Claves, Select(h, t, k)
      PROVE  /\ ExisteLaTabla(cl[h].t)' /\ cl'[h].entrada = Entrada(cl[h].t)'
             /\ ~sereno'[h]
  <2>1. PICK e : e = Entrada(t)
    OBVIOUS
  <2>2. cl' = [cl EXCEPT ![h] = [Libre EXCEPT !.pc = "compuerta", !.t = t, !.k = k, !.entrada = e]]
    BY <1>1, <2>1 DEF Select
  <2>3. cl'[h].t = t /\ cl'[h].entrada = e /\ UNCHANGED listaDeTablas
    BY <1>0, <1>1, <2>2 DEF Libre, Select, listas
  <2>4. ExisteLaTabla(cl[h].t)'
    BY <1>1, <2>3 DEF Select, ExisteLaTabla
  <2>5. Entrada(cl[h].t)' = Entrada(t)
    <3>1. Entrada(cl[h].t)' = Entrada(t)'
      BY <2>3, EntradaDespues
    <3>2. Entrada(t)' = Entrada(t)
      BY <2>3, EntradaDe, EntradaDespues
    <3> QED BY <3>1, <3>2
  <2>6. ~sereno'[h]
    BY <1>1 DEF Select, Lecturas
  <2> QED BY <2>1, <2>3, <2>4, <2>5, <2>6
<1>2. ASSUME Iguales(cl'[h], cl[h]) \/ LeeUnPaso(h)
      PROVE  /\ ExisteLaTabla(cl[h].t)' /\ cl'[h].entrada = Entrada(cl[h].t)'
             /\ cl'[h].pc \in EnLectura /\ sereno'[h] => Servido(h)'
  <2>1. cl[h].pc \in DeLectura /\ cl'[h].t = cl[h].t /\ cl'[h].entrada = cl[h].entrada
    BY <1>0, <1>2, LeeLoMismo DEF Iguales
  <2>2. PICK t \in Tablas : t = cl[h].t
    BY <1>0, <2>1 DEF Tipado, Inv, ClientesBien, DeLectura, EnLectura
  <2>3. t \notin solapadas' /\ t \notin solapadas
    BY <1>0, <2>1, <2>2
  <2>4. ~Reiniciar
    BY DEF Reiniciar, Libre, DeLectura, EnLectura
  <2>5. ExisteLaTabla(t) /\ cl[h].entrada = Entrada(t)
    BY <2>1, <2>2, <2>3 DEF Lector
  <2>6. ExisteLaTabla(t)' /\ Entrada(t)' = Entrada(t)
    BY <1>0, <2>3, <2>4, <2>5, EntradaFija
  <2>7. ExisteLaTabla(cl[h].t)' /\ Entrada(cl[h].t)' = Entrada(t)'
    <3>1. ExisteLaTabla(cl[h].t)' <=> ExisteLaTabla(t)'
      BY <2>1, <2>2 DEF ExisteLaTabla
    <3>2. Entrada(cl[h].t)' = Entrada(t)'
      BY <2>1, <2>2, EntradaDespues
    <3> QED BY <2>6, <3>1, <3>2
  <2>8. cl'[h].pc \in EnLectura /\ sereno'[h] => Servido(h)'
    BY <1>2, <2>1, <2>2, <2>3, ServidoPaso
  <2> QED BY <2>1, <2>5, <2>6, <2>7, <2>8
<1> QED BY <1>0, <1>1, <1>2, LectorSigue

\* What kills a SELECT, as far as it is not a save.
DelSelect == {"selectSinMetadata", "selectSinBin", "selectSinTmp", "selectSinLista"}

LEMMA MuereElSelect ==
  ASSUME [Next]_vars, caida = "no", caida' \in DelSelect
  PROVE  \E h \in Clientes : SelectMuere(h)
<1> USE DEF DelSelect
<1>1. ASSUME NEW h \in Clientes, Atender(h) PROVE SelectMuere(h)
  <2>1. CASE ~Muerte
    BY <1>1, <2>1, CambiosAtender DEF fallas
  <2>2. ~AgregarSinLista(h) /\ ~EnlazarLiberado(h) /\ ~AnotarLiberado(h) /\ ~TablaMuere(h)
    BY DEF AgregarSinLista, EnlazarLiberado, AnotarLiberado, TablaMuere, Morir, Caer
  <2>3. UNCHANGED fallas => FALSE
    BY DEF fallas
  <2> QED BY <1>1, <2>2, <2>3, ZenonT(60) DEF Atender, Poner, Agregar, Enlazar, Compuerta, LeerBin,
    ListarTmp, LeerTmp, MirarMemtable, Filtrar, Responder, Mkdir, CrearMetadata, CrearParticiones,
    Sumar, Ingresar, Anotar, BorrarArchivos, QuitarDirectorio, Sacar
<1>2. ASSUME NEW h \in Clientes, Pedido(h) PROVE FALSE
  BY <1>2, CambiosPedido DEF fallas
<1>3. ASSUME Dump PROVE FALSE
  <2>1. ~DumpMuere
    BY DEF DumpMuere, Morir, Caer
  <2>2. UNCHANGED fallas => FALSE
    BY DEF fallas
  <2> QED BY <1>3, <2>1, <2>2, ZenonT(60) DEF Dump, vars, DumpSinNada, DumpDespertar, Contar,
    ContarSinTabla, Crear, Guardar, Escribir, Limpiar
<1>4. ASSUME NEW e \in Entradas, Compactacion(e) PROVE FALSE
  <2>1. ~CompMuere(e)
    BY DEF CompMuere, Morir, Caer
  <2>2. (UNCHANGED fallas => FALSE) /\ ~Morir("compactacionSinTabla")
    BY DEF fallas, Morir, Caer
  <2> QED BY <1>4, <2>1, <2>2, ZenonT(60) DEF Compactacion, Nacer, CompDespertar, Tomar, Renombrar,
    LevantarClaves, BorrarTmpc, BorrarBin, CrearBin, EscribirBin, GuardarBin, Soltar
<1>5. ~Apagar /\ ~Reiniciar
  BY DEF Apagar, Reiniciar, Caer
<1> QED BY <1>1, <1>2, <1>3, <1>4, <1>5 DEF Next, vars, fallas

\* The dead take no step.
LEMMA Muerto ==
  ASSUME [Next]_vars, caida # "no", caida' # "no"
  PROVE  UNCHANGED vars
<1>1. \A h \in Clientes : ~Pedido(h)
  BY DEF Pedido, Insert, Select, Create, Drop, Recibe
<1>2. ~Apagar /\ ~Reiniciar
  BY DEF Apagar, Reiniciar
<1> QED BY <1>1, <1>2, Viva DEF Next

\* The SELECT that kills the process had been crossed, or its table was one of
\* those without partitions.
LEMMA SelectMuereConMotivo ==
  ASSUME Listadas, ConPartes, ConPartes', [Next]_vars, solapadas \subseteq solapadas',
         NEW h \in Clientes, Lector(h), SelectMuere(h), caida' \in DelSelect
  PROVE  /\ cl'[h].pc \in {"bin", "tmp", "filtrar"}
         /\ ~sereno'[h] \/ cl'[h].t \in solapadas' \cup cortadas'
<1>1. /\ cl[h].pc \in {"bin", "tmp", "filtrar"} /\ Muerte
      /\ UNCHANGED <<cl, metadatas, bin, tmp, diccionario, sereno>>
  BY DEF SelectMuere, En, Morir, Caer, Muerte, disco, lectura
<1> SUFFICES ASSUME sereno[h], cl[h].t \notin solapadas', cl[h].t \notin cortadas'
             PROVE  FALSE
  BY <1>1
<1>2. PICK t \in Tablas \ solapadas : t = cl[h].t
  BY <1>1 DEF Listadas, Tipado, Inv, ClientesBien
<1>3. /\ ExisteLaTabla(t)
      /\ cl[h].pc = "tmp" => cl[h].vistos \subseteq Existentes(tmp[t])
      /\ cl[h].pc = "filtrar" => diccionario[t] # SinLista
  BY <1>1, <1>2 DEF Lector, Servido, DeLectura, EnLectura
<1>4. t \in metadatas
  BY <1>3 DEF Listadas
<1>5. bin[t][Particion(cl[h].k)] # NoExiste
  <2>1. t \in metadatas' \ (solapadas' \cup cortadas') /\ caida' # "no"
    BY <1>1, <1>2, <1>4 DEF DelSelect
  <2>2. \A p \in NumerosBin : bin[t][p] # NoExiste
    BY <1>1, <2>1 DEF ConPartes, Enteras
  <2>3. cl[h].k \in Claves \cup {0}
    BY DEF Listadas, Tipado, TipoCl, TCl
  <2> QED BY <2>2, <2>3, ParticionBien
<1>6. \A n \in cl[h].vistos : cl[h].pc = "tmp" => tmp[t][n] # NoExiste
  BY <1>3 DEF Existentes
<1> QED BY <1>2, <1>3, <1>4, <1>5, <1>6 DEF SelectMuere, En, Morir, Caer, DelSelect

\* What the SELECTs rely on.
Lectores ==
  Listadas /\ Numeradas /\ ConPartes /\ Lecturas /\ \A h \in Clientes : Lector(h)

LEMMA LectoresPaso == Lectores /\ [Next]_vars => Lectores'
<1> SUFFICES ASSUME Lectores, [Next]_vars PROVE Lectores'
  OBVIOUS
<1>1. Listadas' /\ Numeradas'
  <2>1. Tipado /\ SinEntradaNiHilo
    BY DEF Lectores, Listadas
  <2> QED BY <2>1, ListadasPaso, NumeradasPaso DEF Lectores
<1>2. ConPartes' /\ Lecturas'
  BY PartesPaso, LecturasPaso DEF Lectores, Listadas
<1>3. \A h \in Clientes : Lector(h)'
  BY LectorPaso DEF Lectores
<1> QED BY <1>1, <1>2, <1>3 DEF Lectores

LEMMA LectoresInit == Init => Lectores
<1> SUFFICES ASSUME Init PROVE Lectores
  OBVIOUS
<1>1. \A h \in Clientes : cl[h].pc = "libre"
  BY DEF Init, Libre
<1>2. \A h \in Clientes : Lector(h)
  BY <1>1 DEF Lector, DeLectura, EnLectura
<1>3. Lecturas
  BY DEF Init, Lecturas
<1> QED BY <1>2, <1>3, ListadasInit, NumeradasInit, PartesInit DEF Lectores

LEMMA NoMataPaso == Lectores /\ SelectNoMata /\ [Next]_vars => SelectNoMata'
<1> SUFFICES ASSUME Lectores, SelectNoMata, [Next]_vars, caida' \in DelSelect
             PROVE  \E h \in Clientes : /\ cl'[h].pc \in {"bin", "tmp", "filtrar"}
                                        /\ ~sereno'[h] \/ cl'[h].t \in solapadas' \cup cortadas'
  BY DEF SelectNoMata, DelSelect
<1>1. CASE caida = "no"
  <2>1. PICK h \in Clientes : SelectMuere(h)
    BY <1>1, MuereElSelect
  <2>2. Lectores' /\ solapadas \subseteq solapadas'
    BY LectoresPaso, SolapadasCrece DEF Lectores, Listadas
  <2> QED BY <2>1, <2>2, SelectMuereConMotivo DEF Lectores
<1>2. CASE caida # "no"
  <2>1. UNCHANGED vars
    BY <1>2, Muerto DEF DelSelect
  <2>2. UNCHANGED <<caida, cl, sereno, solapadas, cortadas>>
    BY <2>1 DEF vars, fallas, historia, lectura
  <2> QED BY <2>2 DEF SelectNoMata, DelSelect
<1> QED BY <1>1, <1>2

\* A SELECT kills the process (config_create of a file that is not there, the
\* list of the memtable freed under it) only if a compaction or the clean of a
\* dump has come between its parts, or the table has no partitions, or was dropped
\* or lost its entry: selectLFS asks for the mutex of the table before it reads and
\* gives it back at once.
THEOREM SelectNoMataSinMotivo == Spec => []SelectNoMata
<1>1. Init => Lectores /\ SelectNoMata
  BY LectoresInit DEF Init, SelectNoMata
<1>2. Lectores /\ SelectNoMata /\ [Next]_vars => Lectores' /\ SelectNoMata'
  BY LectoresPaso, NoMataPaso
<1> QED BY <1>1, <1>2, PTL DEF Spec

-----------------------------------------------------------------------------
(* What a SELECT answers. *)

AlDia(q, r) == q # Nulo /\ q.timestamp >= r.timestamp

LEMMA MasNuevoAlDia ==
  ASSUME NEW q1 \in Registros \cup {Nulo}, NEW q2 \in Registros \cup {Nulo}, NEW r \in Registros,
         AlDia(q1, r) \/ AlDia(q2, r)
  PROVE  AlDia(RegistroMasNuevo(q1, q2), r)
<1>1. \A q \in Registros : q.timestamp \in Nat /\ q # Nulo
  BY CubreSiempre, ConstantesValidas
<1> QED BY <1>1 DEF AlDia, RegistroMasNuevo

\* The one record of its key in a file is what is found there.
LEMMA LaUnica ==
  ASSUME NEW s \in Seq(Registros), NEW q \in ToSet(s),
         \A i, j \in DOMAIN s : s[i].key = q.key /\ s[j].key = q.key => i = j
  PROVE  PrimeroDe(s, q.key) = q /\ UltimoDe(s, q.key) = q
<1>1. PICK a, b \in 0..Len(s) :
        /\ PrimeroDe(s, q.key) = IF a = 0 THEN Nulo ELSE s[a]
        /\ UltimoDe(s, q.key) = IF b = 0 THEN Nulo ELSE s[b]
        /\ (a # 0 => s[a].key = q.key) /\ (b # 0 => s[b].key = q.key)
        /\ (\E i \in 1..Len(s) : s[i].key = q.key) => a # 0 /\ b # 0
  BY Hallados
<1>2. DOMAIN s = 1..Len(s) /\ Len(s) \in Nat
  OBVIOUS
<1>3. PICK i \in 1..Len(s) : s[i] = q
  BY <1>2 DEF ToSet
<1>4. a \in DOMAIN s /\ b \in DOMAIN s /\ s[a].key = q.key /\ s[b].key = q.key
  BY <1>1, <1>2, <1>3
<1>5. a = i /\ b = i
  BY <1>2, <1>3, <1>4
<1> QED BY <1>1, <1>3, <1>4, <1>5

LEMMA MasDeUna ==
  ASSUME NEW m \in Nat, NEW I \in SUBSET (1..m), NEW i \in I, NEW j \in I, i # j
  PROVE  Cardinality(I) > 1
<1>1. IsFiniteSet(1..m)
  <2>1. 1 \in Int /\ m \in Int
    OBVIOUS
  <2> QED BY <2>1, FS_Interval, Zenon
<1>2. IsFiniteSet(I) /\ Cardinality(I) \in Nat
  BY <1>1, FS_Subset, FS_CardinalityType
<1>3. IsFiniteSet({i}) /\ Cardinality({i}) = 1
  BY FS_Singleton
<1>4. {i} \in SUBSET I /\ Cardinality({i}) <= Cardinality(I) /\ (Cardinality(I) = Cardinality({i}) => I = {i})
  BY <1>2, FS_Subset
<1>5. I # {i}
  OBVIOUS
<1> QED BY <1>2, <1>3, <1>4, <1>5

\* Where a SELECT that has got so far will find, or has found, a record as new:
\* in what it has seen, in the partition or the .tmp files it has yet to read,
\* or in the memtable.
Halla(h, r) ==
  \/ r.n \in dispensados
  \/ cl[h].pc # "bin" /\ AlDia(cl[h].visto, r)
  \/ /\ cl[h].pc = "bin" /\ bin[cl[h].t][Particion(cl[h].k)] # NoExiste
     /\ AlDia(PrimeroDe(bin[cl[h].t][Particion(cl[h].k)], cl[h].k), r)
  \/ /\ cl[h].pc \in {"bin", "listar", "tmp"}
     /\ \E n \in Numeros : /\ Asentado(cl[h].t, n) /\ (cl[h].pc = "tmp" => n \in cl[h].vistos)
                          /\ AlDia(UltimoDe(tmp[cl[h].t][n], cl[h].k), r)
  \/ cl[h].pc \in {"bin", "listar", "tmp", "filtrar"} /\ r \in EnMemtable(cl[h].t)

\* What a SELECT must find was answered before.
Debidos(h) ==
  cl[h].pc \in DeLectura =>
    \A r \in debe[h] :
      r.key = cl[h].k /\ \E c \in confirmados : c.t = cl[h].t /\ c.reg = r

LoHalla(h) ==
  cl[h].pc \in EnLectura /\ cl[h].t \notin solapadas /\ sereno[h] =>
    \A r \in debe[h] : Halla(h, r)

LEMMA ConfirmadosCrece ==
  ASSUME [Next]_vars
  PROVE  confirmados \subseteq confirmados'
<1>1. ASSUME Muerte \/ Apagar \/ Reiniciar \/ UNCHANGED vars PROVE UNCHANGED confirmados
  BY <1>1 DEF Muerte, Apagar, Caer, Reiniciar, vars, historia
<1>2. ASSUME NEW h \in Clientes, Pedido(h) PROVE UNCHANGED confirmados
  BY <1>2, CambiosPedido
<1>3. ASSUME NEW h \in Clientes, Atender(h) PROVE confirmados \subseteq confirmados'
  BY <1>1, <1>3, CambiosAtender DEF Sumar
<1>4. ASSUME Dump PROVE UNCHANGED confirmados
  BY <1>1, <1>4, CambiosDump
<1>5. ASSUME NEW e \in Entradas, Compactacion(e) PROVE UNCHANGED confirmados
  BY <1>1, <1>5, CambiosComp
<1> QED BY <1>1, <1>2, <1>3, <1>4, <1>5 DEF Next

LEMMA DebidosPaso ==
  ASSUME Tipado, Lecturas, [Next]_vars, NEW h \in Clientes, Debidos(h)
  PROVE  Debidos(h)'
<1> SUFFICES ASSUME cl'[h].pc \in DeLectura, NEW r \in debe'[h]
             PROVE  r.key = cl'[h].k /\ \E c \in confirmados' : c.t = cl'[h].t /\ c.reg = r
  BY DEF Debidos
<1>0. DOMAIN cl = Clientes /\ DOMAIN debe = Clientes /\ confirmados \subseteq confirmados'
  BY ConfirmadosCrece DEF Tipado, Inv, ClientesBien, Lecturas
<1>1. ASSUME NEW t \in Tablas, NEW k \in Claves, Select(h, t, k)
      PROVE  r.key = cl'[h].k /\ \E c \in confirmados' : c.t = cl'[h].t /\ c.reg = r
  <2>1. PICK e : e = Entrada(t)
    OBVIOUS
  <2>2. cl' = [cl EXCEPT ![h] = [Libre EXCEPT !.pc = "compuerta", !.t = t, !.k = k, !.entrada = e]]
    BY <1>1, <2>1 DEF Select
  <2>3. cl'[h].t = t /\ cl'[h].k = k
    BY <1>0, <2>2 DEF Libre
  <2>4. PICK c \in confirmados : c.t = t /\ c.reg.key = k /\ r = c.reg
    BY <1>0, <1>1 DEF Select
  <2> QED BY <1>0, <2>3, <2>4
<1>2. ASSUME Iguales(cl'[h], cl[h]) \/ LeeUnPaso(h), r \in debe[h]
      PROVE  r.key = cl'[h].k /\ \E c \in confirmados' : c.t = cl'[h].t /\ c.reg = r
  <2>1. cl[h].pc \in DeLectura /\ cl'[h].t = cl[h].t /\ cl'[h].k = cl[h].k
    BY <1>2, LeeLoMismo DEF Iguales
  <2> QED BY <1>0, <1>2, <2>1 DEF Debidos
<1>3. (\E t \in Tablas, k \in Claves : Select(h, t, k)) \/ r \in debe[h]
  <2>1. ASSUME NEW g \in Clientes, Compuerta(g) \/ Responder(g) PROVE r \in debe[h]
    BY <1>0, <2>1 DEF Compuerta, Responder
  <2>2. ASSUME NEW g \in Clientes, NEW t \in Tablas, NEW k \in Claves, Select(g, t, k), g # h
        PROVE  r \in debe[h]
    BY <1>0, <2>2 DEF Select
  <2>3. CASE UNCHANGED lectura \/ Limpiar \/ \E e \in Entradas : Tomar(e)
    BY <2>3 DEF lectura, Limpiar, Tomar
  <2>4. ~Reiniciar
    BY DEF Reiniciar, Libre, DeLectura, EnLectura
  <2> QED BY <2>1, <2>2, <2>3, <2>4, LecturaPaso
<1> QED BY <1>1, <1>2, <1>3, LectorSigue

\* The partitions of a table no compaction is at work on, only a CREATE changes.
LEMMA BinQuieto ==
  ASSUME Tipado, [Next]_vars, NEW t \in Tablas \ solapadas, Quieta(t)
  PROVE  bin'[t] = bin[t] \/ \E g \in Clientes : CrearParticiones(g) /\ cl[g].t = t
<1>0. DOMAIN bin = Tablas
  BY DEF Tipado, TipoBin
<1>1. ASSUME Muerte \/ Apagar \/ Reiniciar \/ UNCHANGED vars PROVE UNCHANGED bin
  BY <1>1 DEF Muerte, Apagar, Caer, Reiniciar, vars, disco
<1>2. ASSUME NEW h \in Clientes, Pedido(h) PROVE UNCHANGED bin
  BY <1>2, CambiosPedido
<1>3. ASSUME NEW h \in Clientes, Atender(h)
      PROVE  bin'[t] = bin[t] \/ (CrearParticiones(h) /\ cl[h].t = t)
  <2>1. UNCHANGED bin \/ BorrarArchivos(h) \/ CrearParticiones(h)
    BY <1>1, <1>3, CambiosAtender
  <2>2. BorrarArchivos(h) => cl[h].t # t
    BY DEF BorrarArchivos, En, DeDrop, Tipado, Inv, ClientesBien
  <2> QED BY <1>0, <2>1, <2>2 DEF BorrarArchivos, CrearParticiones
<1>4. ASSUME Dump PROVE UNCHANGED bin
  BY <1>1, <1>4, CambiosDump
<1>5. ASSUME NEW e \in Entradas, Compactacion(e) PROVE bin'[t] = bin[t]
  <2>1. UNCHANGED bin \/ BorrarBin(e) \/ CrearBin(e) \/ EscribirBin(e)
    BY <1>1, <1>5, CambiosComp
  <2>2. BorrarBin(e) \/ CrearBin(e) \/ EscribirBin(e) => comp[e].t # t
    BY DEF BorrarBin, CrearBin, EscribirBin, EnComp, Quieta, Quietos
  <2>3. CASE BorrarBin(e) \/ CrearBin(e)
    BY <1>0, <2>2, <2>3 DEF BorrarBin, CrearBin
  <2>4. CASE EscribirBin(e)
    <3>1. PICK p, v : bin' = [bin EXCEPT ![comp[e].t][p] = v]
      BY <2>4 DEF EscribirBin
    <3> QED BY <1>0, <2>2, <2>4, <3>1
  <2> QED BY <2>1, <2>3, <2>4
<1> QED BY <1>1, <1>2, <1>3, <1>4, <1>5 DEF Next

LEMMA MemtableSigue ==
  ASSUME Tipado, [Next]_vars, ~Reiniciar, ~Limpiar, NEW t \in Tablas, NEW r \in EnMemtable(t)
  PROVE  r \in EnMemtable(t)' \/ r.n \in dispensados'
<1>1. CASE UNCHANGED diccionario
  BY <1>1 DEF EnMemtable
<1>2. ASSUME Muerte \/ Apagar \/ UNCHANGED vars PROVE UNCHANGED diccionario
  BY <1>2 DEF Muerte, Apagar, Caer, vars
<1>3. ASSUME NEW h \in Clientes, Pedido(h) PROVE UNCHANGED diccionario
  BY <1>3, CambiosPedido
<1>4. ASSUME Dump PROVE UNCHANGED diccionario
  BY <1>2, <1>4, CambiosDump
<1>5. ASSUME NEW e \in Entradas, Compactacion(e) PROVE UNCHANGED diccionario
  BY <1>2, <1>5, CambiosComp
<1> QED BY <1>1, <1>2, <1>3, <1>4, <1>5, MemtableAtender DEF Next

\* Others' steps.
LEMMA HallaSigue ==
  ASSUME Listadas, Numeradas, [Next]_vars, ~Reiniciar, ~Limpiar, NEW h \in Clientes,
         Iguales(cl'[h], cl[h]), cl[h].pc \in EnLectura, NEW t \in Tablas \ solapadas',
         t = cl[h].t, t \notin solapadas, Quieta(t), Debidos(h), NEW r \in debe[h], Halla(h, r)
  PROVE  Halla(h, r)'
<1>0. /\ cl'[h].pc = cl[h].pc /\ cl'[h].t = t /\ cl'[h].k = cl[h].k
      /\ cl'[h].visto = cl[h].visto /\ cl'[h].vistos = cl[h].vistos
      /\ dispensados \subseteq dispensados' /\ Tipado /\ Contigua(t)
  BY DispensadosCrece DEF Iguales, Listadas, Numeradas
<1>1. CASE r.n \in dispensados
  BY <1>0, <1>1 DEF Halla
<1>2. CASE cl[h].pc # "bin" /\ AlDia(cl[h].visto, r)
  BY <1>0, <1>2 DEF Halla, AlDia
<1>3. ASSUME cl[h].pc = "bin", bin[t][Particion(cl[h].k)] # NoExiste,
             AlDia(PrimeroDe(bin[t][Particion(cl[h].k)], cl[h].k), r)
      PROVE  Halla(h, r)'
  <2>1. CASE bin'[t] = bin[t]
    BY <1>0, <1>3, <2>1 DEF Halla, AlDia
  <2>2. ASSUME NEW g \in Clientes, CrearParticiones(g), cl[g].t = t PROVE r.n \in dispensados'
    <3>1. PICK k \in Claves \cup {0} : k = cl[h].k
      BY <1>0 DEF Tipado, TipoCl, TCl
    <3>2. PICK p \in NumerosBin : p = Particion(k)
      BY ParticionBien
    <3>3. bin[t][p] \in Archivo /\ bin[t][p] # NoExiste /\ p \in DOMAIN bin[t]
      BY <1>0, <1>3, <3>1, <3>2 DEF Tipado, TipoBin
    <3>4. PICK s \in Seq(Registros) : s = bin[t][p]
      BY <3>3 DEF Archivo
    <3>5. PICK q : q = PrimeroDe(s, k)
      OBVIOUS
    <3>6. q \in ToSet(s) /\ q.key = k /\ q.timestamp >= r.timestamp
      BY <1>3, <3>1, <3>2, <3>4, <3>5, LectoresTipo DEF AlDia
    <3>7. q \in EnArchivos(bin[t])
      BY <3>3, <3>4, <3>6 DEF EnArchivos, Existentes
    <3>8. PICK c \in confirmados : c.t = t /\ c.reg = r /\ r.key = k
      BY <3>1 DEF Debidos, DeLectura
    <3>9. c.reg.n \in Arrastran(c.t, EnArchivos(bin[t]))
      BY <3>6, <3>7, <3>8, Arrastrado DEF Cubre
    <3> QED BY <2>2, <3>8, <3>9 DEF CrearParticiones
  <2>3. CASE r.n \in dispensados'
    BY <2>3 DEF Halla
  <2> QED BY <1>0, <2>1, <2>2, <2>3, BinQuieto
<1>4. ASSUME cl[h].pc \in {"bin", "listar", "tmp"}, NEW n \in Numeros, Asentado(t, n),
             cl[h].pc = "tmp" => n \in cl[h].vistos, AlDia(UltimoDe(tmp[t][n], cl[h].k), r)
      PROVE  Halla(h, r)'
  <2>1. Asentado(t, n)' /\ tmp'[t][n] = tmp[t][n]
    BY <1>0, <1>4, MesaServida
  <2>2. Asentado(cl[h].t, n)'
    BY <1>0, <2>1 DEF Asentado
  <2>3. AlDia(UltimoDe(tmp'[t][n], cl'[h].k), r)
    BY <1>0, <1>4, <2>1
  <2> QED BY <1>0, <1>4, <2>2, <2>3 DEF Halla, AlDia
<1>5. ASSUME cl[h].pc \in {"bin", "listar", "tmp", "filtrar"}, r \in EnMemtable(t) PROVE Halla(h, r)'
  <2>1. r \in EnMemtable(t)' \/ r.n \in dispensados'
    BY <1>0, <1>5, MemtableSigue
  <2>2. EnMemtable(t)' = EnMemtable(cl[h].t)'
    BY <1>0 DEF EnMemtable
  <2> QED BY <1>0, <1>5, <2>1, <2>2 DEF Halla
<1> QED BY <1>1, <1>2, <1>3, <1>4, <1>5 DEF Halla

\* Its own steps, once it was let through.
LEMMA HallaLeyendo ==
  ASSUME Tipado, NEW h \in Clientes, LeeUnPaso(h), ~Compuerta(h), Debidos(h),
         NEW r \in debe[h], r \in Registros, Halla(h, r),
         Contigua(cl[h].t), Quieta(cl[h].t)
  PROVE  Halla(h, r)'
<1>0. /\ DOMAIN cl = Clientes /\ DOMAIN cl[h] = CamposCl /\ cl[h] \in TCl
      /\ cl'[h].t = cl[h].t /\ cl'[h].k = cl[h].k
  BY LeeLoMismo DEF Tipado, Inv, ClientesBien, TipoCl
<1>1. PICK t, k : t = cl[h].t /\ k = cl[h].k /\ t \in Tablas /\ k \in Claves \cup {0} /\ r.key = k
  BY <1>0, LeeLoMismo DEF Tipado, Inv, ClientesBien, DeLectura, EnLectura, TCl, Debidos
<1>2. UNCHANGED <<diccionario, tmp, bin, dump, dispensados>>
  BY ZenonT(60) DEF LeeUnPaso, LeerBin, ListarTmp, LeerTmp, MirarMemtable, Filtrar, disco, historia
<1>3. CASE r.n \in dispensados
  BY <1>2, <1>3 DEF Halla
<1>4. ASSUME cl'[h].pc # "bin", AlDia(cl'[h].visto, r) PROVE Halla(h, r)'
  BY <1>4 DEF Halla, AlDia
<1>5. ASSUME cl'[h].pc \in {"listar", "tmp", "filtrar"}, r \in EnMemtable(t) PROVE Halla(h, r)'
  <2>1. EnMemtable(cl[h].t)' = EnMemtable(t)
    BY <1>0, <1>1, <1>2 DEF EnMemtable
  <2> QED BY <1>5, <2>1 DEF Halla
<1>6. ASSUME cl'[h].pc \in {"listar", "tmp"}, NEW n \in Numeros, Asentado(t, n),
             cl'[h].pc = "tmp" => n \in cl'[h].vistos, AlDia(UltimoDe(tmp[t][n], k), r)
      PROVE  Halla(h, r)'
  <2>1. Asentado(cl[h].t, n)'
    BY <1>0, <1>1, <1>2, <1>6 DEF Asentado
  <2>2. AlDia(UltimoDe(tmp'[cl'[h].t][n], cl'[h].k), r)
    BY <1>0, <1>1, <1>2, <1>6
  <2> QED BY <1>6, <2>1, <2>2 DEF Halla, AlDia
<1>7. CASE LeerBin(h)
  <2>1. PICK v : v = PrimeroDe(bin[t][Particion(k)], k)
    OBVIOUS
  <2>2. cl' = [cl EXCEPT ![h].pc = "listar", ![h].visto = v]
    BY <1>1, <1>7, <2>1 DEF LeerBin
  <2>3. cl[h].pc = "bin" /\ cl'[h].pc = "listar" /\ cl'[h].visto = v
    BY <1>0, <1>7, <2>2 DEF LeerBin, En, CamposCl
  <2> QED BY <1>1, <1>3, <1>4, <1>5, <1>6, <2>1, <2>3 DEF Halla
<1>8. CASE ListarTmp(h)
  <2>1. PICK v \in SUBSET Existentes(tmp[t]) :
          /\ Cardinality(v) = Cardinality(Existentes(tmp[t])) % TopeUint8
          /\ cl' = [cl EXCEPT ![h].pc = "tmp", ![h].vistos = v]
    BY <1>1, <1>8 DEF ListarTmp
  <2>2. /\ cl[h].pc = "listar" /\ cl'[h].pc = "tmp" /\ cl'[h].visto = cl[h].visto
        /\ cl'[h].vistos = v
    BY <1>0, <1>8, <2>1 DEF ListarTmp, En, CamposCl
  <2>3. v = Existentes(tmp[t])
    <3>1. \A e \in Entradas : ~Renombrando(e, t)
      BY <1>1 DEF Quieta, Quietos, Renombrando
    <3>2. PICK k0 \in Nat : k0 < TopeUint8 /\ Existentes(tmp[t]) = Hasta(k0)
      BY <1>1, <3>1 DEF Contigua
    <3>3. Cardinality(Existentes(tmp[t])) = k0
      BY <3>2, CuantosHasta
    <3>4. k0 % TopeUint8 = k0
      BY <3>2, ConstantesValidas
    <3>5. IsFiniteSet(Existentes(tmp[t]))
      BY <3>2, FS_Interval DEF Hasta
    <3> QED BY <2>1, <3>3, <3>4, <3>5, FS_Subset
  <2>4. \A n : Asentado(t, n) => n \in cl'[h].vistos
    BY <2>2, <2>3 DEF Asentado
  <2> QED BY <1>1, <1>3, <1>4, <1>5, <1>6, <2>2, <2>4 DEF Halla
<1>9. CASE LeerTmp(h)
  <2>1. PICK m \in cl[h].vistos :
          /\ tmp[t][m] # NoExiste /\ cl[h].pc = "tmp"
          /\ cl' = [cl EXCEPT ![h].visto = RegistroMasNuevo(@, UltimoDe(tmp[t][m], k)), ![h].vistos = @ \ {m}]
    BY <1>1, <1>9 DEF LeerTmp, En
  <2>2. m \in Numeros /\ tmp[t][m] \in Seq(Registros) /\ cl[h].visto \in Registros \cup {Nulo}
    BY <1>0, <1>1, <2>1 DEF Tipado, TipoTmp, Archivo, TCl
  <2>3. PICK u \in Registros \cup {Nulo} : u = UltimoDe(tmp[t][m], k)
    BY <2>2, LectoresTipo
  <2>4. PICK w, V : w = RegistroMasNuevo(cl[h].visto, u) /\ V = cl[h].vistos \ {m}
    OBVIOUS
  <2>5. cl' = [cl EXCEPT ![h].visto = w, ![h].vistos = V]
    BY <1>0, <2>1, <2>3, <2>4
  <2>6. cl'[h].visto = w /\ cl'[h].vistos = V /\ cl'[h].pc = "tmp"
    BY <1>0, <2>1, <2>5 DEF CamposCl
  <2>7. AlDia(cl[h].visto, r) \/ AlDia(u, r) => AlDia(w, r)
    BY <2>2, <2>4, MasNuevoAlDia
  <2>8. ASSUME NEW n \in Numeros, Asentado(t, n), n \in cl[h].vistos, AlDia(UltimoDe(tmp[t][n], k), r)
        PROVE  Halla(h, r)'
    <3>1. CASE n = m
      BY <1>4, <2>3, <2>6, <2>7, <2>8, <3>1
    <3>2. CASE n # m
      BY <1>6, <2>4, <2>6, <2>8, <3>2
    <3> QED BY <3>1, <3>2
  <2> QED BY <1>1, <1>3, <1>4, <1>5, <2>1, <2>6, <2>7, <2>8 DEF Halla
<1>10. CASE MirarMemtable(h)
  <2>1. /\ cl[h].pc = "tmp" /\ cl[h].vistos = {} /\ cl'[h].visto = cl[h].visto
        /\ cl'[h].pc = IF diccionario[t] = SinLista THEN "responder" ELSE "filtrar"
    BY <1>0, <1>1, <1>10 DEF MirarMemtable, En, Sigue, CamposCl
  <2>2. r \in EnMemtable(t) => cl'[h].pc = "filtrar"
    BY <2>1 DEF EnMemtable
  <2> QED BY <1>1, <1>3, <1>4, <1>5, <2>1, <2>2 DEF Halla
<1>11. CASE Filtrar(h)
  <2> DEFINE suyos == {q \in EnMemtable(cl[h].t) : q.key = cl[h].k}
             nuevos == {q \in suyos : \A x \in suyos : q.timestamp >= x.timestamp}
  <2>0. suyos = {q \in EnMemtable(t) : q.key = k}
    BY <1>1
  <2>1. nuevos = {q \in suyos : \A x \in suyos : q.timestamp >= x.timestamp}
    OBVIOUS
  <2>2. PICK v \in IF suyos = {} THEN {Nulo} ELSE nuevos :
          cl' = [cl EXCEPT ![h].pc = "responder", ![h].visto = RegistroMasNuevo(v, @)]
    BY <1>11 DEF Filtrar
  <2> HIDE DEF suyos, nuevos
  <2>3. PICK w : w = RegistroMasNuevo(v, cl[h].visto)
    OBVIOUS
  <2>4. cl[h].pc = "filtrar" /\ cl'[h].pc = "responder" /\ cl'[h].visto = w
    <3>1. cl' = [cl EXCEPT ![h].pc = "responder", ![h].visto = w]
      BY <1>0, <2>2, <2>3
    <3> QED BY <1>0, <1>11, <3>1 DEF Filtrar, En, CamposCl
  <2>5. EnMemtable(t) \subseteq Registros
    BY <1>1 DEF EnMemtable, Tipado, TipoMem, ToSet
  <2>6. v \in Registros \cup {Nulo} /\ cl[h].visto \in Registros \cup {Nulo}
    BY <1>0, <2>0, <2>1, <2>2, <2>5 DEF TCl
  <2>7. AlDia(v, r) \/ AlDia(cl[h].visto, r) => AlDia(w, r)
    BY <2>3, <2>6, MasNuevoAlDia
  <2>8. ASSUME r \in EnMemtable(t) PROVE AlDia(v, r)
    <3>1. r \in suyos /\ v \in nuevos
      BY <1>1, <2>0, <2>2, <2>8
    <3>2. v.timestamp >= r.timestamp /\ v \in Registros
      BY <2>0, <2>1, <2>5, <3>1
    <3> QED BY <3>2, ConstantesValidas DEF AlDia
  <2> QED BY <1>1, <1>3, <1>4, <2>4, <2>7, <2>8 DEF Halla
<1> QED BY <1>7, <1>8, <1>9, <1>10, <1>11 DEF LeeUnPaso

\* It is let through: what was answered is covered, and where it is covered no
\* compaction is at work.
LEMMA HallaAlPasar ==
  ASSUME Resguardo, Bines, Lecturas, NEW h \in Clientes, Compuerta(h), Lector(h), Debidos(h),
         cl[h].t \notin solapadas, NEW r \in debe'[h]
  PROVE  Halla(h, r)'
<1>0. /\ DOMAIN cl = Clientes /\ DOMAIN cl[h] = CamposCl /\ cl[h] \in TCl /\ Tipado
      /\ cl[h].pc = "compuerta" /\ cl'[h].pc = "bin" /\ cl'[h].t = cl[h].t /\ cl'[h].k = cl[h].k
      /\ caida = "no" /\ UNCHANGED <<diccionario, tmp, bin, dump, dispensados>>
  BY DEF Resguardo, Listadas, Tipado, Inv, ClientesBien, TipoCl, Compuerta, En, Sigue, CamposCl, disco
<1>1. PICK t, k : t = cl[h].t /\ k = cl[h].k /\ t \in Tablas \ solapadas /\ k \in Claves \cup {0}
  BY <1>0 DEF Tipado, Inv, ClientesBien, TCl
<1>2. r \in debe[h] /\ ~Repetida(t, k)
  <2>1. debe'[h] = IF Repetida(t, k) THEN {} ELSE debe[h]
    BY <1>1 DEF Compuerta, Lecturas
  <2> QED BY <2>1
<1>3. PICK c \in confirmados : c.t = t /\ c.reg = r /\ r.key = k
  BY <1>0, <1>1, <1>2 DEF Debidos, DeLectura
<1>4. Quieta(t) /\ Cubierto(c)
  BY <1>0, <1>1, PasaQuieta DEF Resguardo, Lector, DeLectura, Compuerta
<1>5. CASE r.n \in dispensados
  BY <1>0, <1>5 DEF Halla
<1>6. CASE EnMemoria(c)
  <2>1. r \in EnMemtable(cl[h].t)'
    BY <1>0, <1>1, <1>3, <1>6 DEF EnMemoria, EnMemtable
  <2> QED BY <1>0, <2>1 DEF Halla
<1>7. ASSUME NEW q \in Registros, Firme(t, q), Cubre(q, r) PROVE Halla(h, r)'
  <2>0. AlDia(q, r) /\ q.key = k
    BY <1>3, <1>7, ConstantesValidas DEF AlDia, Cubre
  <2>1. \A e \in Entradas : ~EnCurso(e, t, q)
    BY <1>4 DEF EnCurso, Quieta, Quietos, ConLasClaves
  <2>2. CASE q \in EnArchivos(bin[t])
    <3>1. PICK p \in Existentes(bin[t]) : q \in ToSet(bin[t][p])
      BY <2>2 DEF EnArchivos
    <3>2. PICK s \in Seq(Registros) : s = bin[t][p]
      BY <1>0, <1>1, <3>1 DEF Existentes, Tipado, TipoBin, Archivo
    <3>3. BinBien(t)
      BY <1>1 DEF Bines
    <3>4. Particion(q.key) = p
      BY <3>1, <3>3 DEF BinBien, ToSet
    <3>5. \A i, j \in DOMAIN s : s[i].key = s[j].key => i = j
      BY <3>1, <3>2, <3>3 DEF BinBien, Distintas
    <3>6. PrimeroDe(s, q.key) = q
      BY <3>1, <3>2, <3>5, LaUnica
    <3>7. /\ bin'[cl'[h].t][Particion(cl'[h].k)] # NoExiste
          /\ AlDia(PrimeroDe(bin'[cl'[h].t][Particion(cl'[h].k)], cl'[h].k), r)
      BY <1>0, <1>1, <2>0, <3>1, <3>2, <3>4, <3>6 DEF Existentes
    <3> QED BY <1>0, <3>7 DEF Halla, AlDia
  <2>3. ASSUME NEW n \in Numeros, Asentado(t, n), q \in ToSet(tmp[t][n]) PROVE Halla(h, r)'
    <3>1. n \in Existentes(tmp[t])
      BY <2>3 DEF Asentado
    <3>2. PICK s \in Seq(Registros) : s = tmp[t][n]
      BY <1>0, <1>1, <3>1 DEF Existentes, Tipado, TipoTmp, Archivo
    <3>3. ASSUME NEW i \in DOMAIN s, NEW j \in DOMAIN s, s[i].key = k, s[j].key = k, i # j PROVE FALSE
      <4>1. PICK I : I = {x \in DOMAIN s : s[x].key = k}
        OBVIOUS
      <4>2. Len(s) \in Nat /\ DOMAIN s = 1..Len(s)
        OBVIOUS
      <4>3. I \in SUBSET (1..Len(s)) /\ i \in I /\ j \in I
        BY <3>3, <4>1, <4>2
      <4>4. Cardinality(I) > 1
        BY <3>3, <4>2, <4>3, MasDeUna
      <4> QED BY <1>2, <3>1, <3>2, <4>1, <4>4 DEF Repetida
    <3>4. UltimoDe(s, q.key) = q
      <4>1. \A i, j \in DOMAIN s : s[i].key = q.key /\ s[j].key = q.key => i = j
        BY <2>0, <3>3
      <4> QED BY <2>3, <3>2, <4>1, LaUnica
    <3>5. Asentado(cl[h].t, n)'
      BY <1>0, <1>1, <2>3 DEF Asentado
    <3>6. AlDia(UltimoDe(tmp'[cl'[h].t][n], cl'[h].k), r)
      BY <1>0, <1>1, <2>0, <3>2, <3>4
    <3> QED BY <1>0, <3>5, <3>6 DEF Halla, AlDia
  <2> QED BY <1>7, <2>1, <2>2, <2>3 DEF Firme, EnTmp
<1> QED BY <1>1, <1>3, <1>4, <1>5, <1>6, <1>7 DEF Cubierto

LEMMA LoHallaPaso ==
  ASSUME Resguardo, Bines, Lecturas, [Next]_vars, NEW h \in Clientes, Lector(h), Debidos(h), LoHalla(h)
  PROVE  LoHalla(h)'
<1> SUFFICES ASSUME cl'[h].pc \in EnLectura, cl'[h].t \notin solapadas', sereno'[h], NEW r \in debe'[h]
             PROVE  Halla(h, r)'
  BY DEF LoHalla
<1>0. Listadas /\ Numeradas /\ Tipado /\ solapadas \subseteq solapadas'
  BY SolapadasCrece DEF Resguardo, Listadas
<1>1. ASSUME NEW t \in Tablas, NEW k \in Claves, Select(h, t, k) PROVE FALSE
  BY <1>1 DEF Select, Lecturas
<1>2. Iguales(cl'[h], cl[h]) \/ LeeUnPaso(h)
  BY <1>0, <1>1, LectorSigue DEF DeLectura
<1>3. PICK t \in Tablas : t = cl[h].t /\ t = cl'[h].t /\ cl[h].pc \in DeLectura
  BY <1>0, <1>2, LeeLoMismo DEF Iguales, Tipado, Inv, ClientesBien, DeLectura, EnLectura
<1>4. t \notin solapadas /\ t \notin solapadas'
  BY <1>0, <1>3
<1>5. CASE Compuerta(h)
  BY <1>3, <1>4, <1>5, HallaAlPasar
<1>6. CASE ~Compuerta(h)
  <2>1. sereno[h] /\ r \in debe[h] /\ ~Reiniciar /\ ~Limpiar
    BY <1>0, <1>6, SerenoPaso
  <2>2. cl[h].pc \in EnLectura
    BY <1>2, <1>6 DEF LeeUnPaso, Iguales, En, LeerBin, ListarTmp, LeerTmp, MirarMemtable, Filtrar, EnLectura
  <2>3. Quieta(t) /\ Halla(h, r)
    BY <1>3, <1>4, <2>1, <2>2 DEF Lector, Servido, LoHalla, DeLectura
  <2>4. r \in Registros
    BY <1>0, <1>3, <2>1 DEF Debidos, Listadas
  <2>5. CASE Iguales(cl'[h], cl[h])
    BY <1>0, <1>3, <1>4, <2>1, <2>2, <2>3, <2>5, HallaSigue
  <2>6. CASE LeeUnPaso(h)
    <3>1. Contigua(cl[h].t) /\ Quieta(cl[h].t)
      BY <1>0, <1>3, <1>4, <2>3 DEF Numeradas
    <3> QED BY <1>0, <1>6, <2>1, <2>3, <2>4, <2>6, <3>1, HallaLeyendo
  <2> QED BY <1>2, <2>5, <2>6
<1> QED BY <1>5, <1>6

\* All that the answer rests on.
Respuestas ==
  Lectores /\ Resguardo /\ Bines /\ \A h \in Clientes : Debidos(h) /\ LoHalla(h)

LEMMA RespuestasInit == Init => Respuestas
<1> SUFFICES ASSUME Init PROVE Respuestas
  OBVIOUS
<1>1. \A h \in Clientes : cl[h].pc = "libre"
  BY DEF Init, Libre
<1>2. \A h \in Clientes : Debidos(h) /\ LoHalla(h)
  BY <1>1 DEF Debidos, LoHalla, DeLectura, EnLectura
<1>3. Resguardo
  BY ListadasInit, NumeradasInit DEF Resguardo, Init, Enlazados, Enlazado, Libre
<1> QED BY <1>2, <1>3, LectoresInit, BinesInit DEF Respuestas

LEMMA RespuestasPaso == Respuestas /\ [Next]_vars => Respuestas'
<1> SUFFICES ASSUME Respuestas, [Next]_vars PROVE Respuestas'
  OBVIOUS
<1>1. Lectores' /\ Resguardo' /\ Bines'
  BY LectoresPaso, ResguardoPaso, BinesPaso DEF Respuestas
<1>2. ASSUME NEW h \in Clientes PROVE Debidos(h)' /\ LoHalla(h)'
  BY DebidosPaso, LoHallaPaso DEF Respuestas, Lectores, Listadas
<1> QED BY <1>1, <1>2 DEF Respuestas

LEMMA RespuestasPropiedad == Respuestas => SelectAlDia
<1> SUFFICES ASSUME Respuestas, NEW h \in Clientes, cl[h].pc = "responder", sereno[h],
                    cl[h].t \notin solapadas, NEW r \in debe[h]
             PROVE  r.n \in dispensados \/ (cl[h].visto # Nulo /\ cl[h].visto.timestamp >= r.timestamp)
  BY DEF SelectAlDia
<1>1. Halla(h, r)
  BY DEF Respuestas, LoHalla, EnLectura
<1> QED BY <1>1 DEF Halla, AlDia

\* What selectLFS answers is at least as new as any record of the key that was
\* answered with INSERT_R before it was asked, if no compaction took its table
\* and no dump cleaned the memtable while it read, no .tmp had the key twice
\* when it was let through, and no named race has put the record at risk.
THEOREM ElSelectRespondeAlDia == Spec => []SelectAlDia
<1>1. Init => Respuestas
  BY RespuestasInit
<1>2. Respuestas /\ [Next]_vars => Respuestas'
  BY RespuestasPaso
<1>3. Respuestas => SelectAlDia
  BY RespuestasPropiedad
<1> QED BY <1>1, <1>2, <1>3, PTL DEF Spec
=============================================================================
