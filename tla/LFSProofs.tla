----------------------------- MODULE LFSProofs -----------------------------
(***************************************************************************)
(* For any tables, threads, files, kills and restarts:                     *)
(*                                                                         *)
(* Two compactions never work on a table at once.  Every thread of a table *)
(* that was not dropped has found the mutex of its first entry in the      *)
(* list, which appends (AlAgregar) and removals of other tables (AlSacar)  *)
(* leave where it is to be found; one at work holds it (HilosBien).        *)
(* Mutexes of two tables are never confused, for an entry is of one table  *)
(* while the process lives (EntradasBien); and entries go with a DROP of   *)
(* their table only (ClientesBien).                                        *)
(*                                                                         *)
(* The variables keep their types (Tipado), which needs that a thread that *)
(* has found the last node of a list still has it there; and the process   *)
(* can be started again (Arranca), but for the tables it names.            *)
(*                                                                         *)
(* What becomes of the records is the subject of LFSDatosProofs.           *)
(***************************************************************************)
EXTENDS LFSProp, Lemas

\* The first entry of a table in any list.
IndiceEn(s, t) == SelectInSeq(s, LAMBDA x : x[1] = t)
Esta(s, t) == \E i \in DOMAIN s : s[i][1] = t

LEMMA EsElPrimero ==
  ASSUME NEW s \in Seq(Tablas \X Entradas), NEW t, Esta(s, t)
  PROVE  /\ IndiceEn(s, t) \in 1..Len(s)
         /\ s[IndiceEn(s, t)][1] = t
         /\ \A i \in 1..Len(s) : s[i][1] = t => IndiceEn(s, t) <= i
<1> DEFINE I == {i \in 1..Len(s) : s[i][1] = t}
<1>1. I # {} /\ I \in SUBSET Int
  BY DEF Esta
<1>2. IsFiniteSet(I)
  <2>1. Len(s) \in Int /\ 1 \in Int
    OBVIOUS
  <2>2. IsFiniteSet(1..Len(s))
    BY <2>1, FS_Interval
  <2> QED BY <2>2, FS_Subset
<1>3. IndiceEn(s, t) = Min(I)
  BY <1>1 DEF IndiceEn, SelectInSeq
<1> QED BY <1>1, <1>2, <1>3, MinimoExiste

\* Adding an entry leaves the first one of every table that had one ...
LEMMA AlAgregar ==
  ASSUME NEW s \in Seq(Tablas \X Entradas), NEW x \in Tablas \X Entradas, NEW t, Esta(s, t)
  PROVE  /\ Esta(Append(s, x), t)
         /\ Append(s, x)[IndiceEn(Append(s, x), t)] = s[IndiceEn(s, t)]
<1> DEFINE r == Append(s, x)  k == IndiceEn(s, t)  n == IndiceEn(r, t)
<1>1. /\ r \in Seq(Tablas \X Entradas) /\ Len(r) = Len(s) + 1 /\ Len(s) \in Nat
      /\ \A i \in 1..Len(s) : r[i] = s[i]
  OBVIOUS
<1>2. k \in 1..Len(s) /\ s[k][1] = t /\ \A i \in 1..Len(s) : s[i][1] = t => k <= i
  BY EsElPrimero
<1>3. Esta(r, t)
  <2>1. k \in DOMAIN r /\ r[k][1] = t
    BY <1>1, <1>2
  <2> QED BY <2>1 DEF Esta
<1>4. n \in 1..Len(r) /\ r[n][1] = t /\ \A i \in 1..Len(r) : r[i][1] = t => n <= i
  BY <1>1, <1>3, EsElPrimero
<1> HIDE DEF r, k, n
<1>5. n <= k
  BY <1>1, <1>2, <1>4
<1>6. n \in 1..Len(s)
  BY <1>1, <1>2, <1>4, <1>5
<1>7. k <= n
  BY <1>1, <1>2, <1>4, <1>6
<1>8. n = k
  BY <1>2, <1>4, <1>5, <1>7
<1> QED BY <1>1, <1>2, <1>3, <1>8 DEF r, k, n

\* ... and so does taking out one of another table.
LEMMA AlSacar ==
  ASSUME NEW s \in Seq(Tablas \X Entradas), NEW m \in 1..Len(s), NEW t, s[m][1] # t, Esta(s, t)
  PROVE  /\ Esta(RemoveAt(s, m), t)
         /\ RemoveAt(s, m)[IndiceEn(RemoveAt(s, m), t)] = s[IndiceEn(s, t)]
<1> DEFINE r == RemoveAt(s, m)  k == IndiceEn(s, t)  n == IndiceEn(r, t)
<1>1. /\ r \in Seq(Tablas \X Entradas) /\ Len(r) = Len(s) - 1 /\ Len(s) \in Nat
      /\ \A i \in 1..Len(s) - 1 : r[i] = IF i < m THEN s[i] ELSE s[i + 1]
  <2> DEFINE P == Tablas \X Entradas
  <2>1. s \in Seq(P)
    OBVIOUS
  <2> HIDE DEF P
  <2>2. /\ r \in Seq(P) /\ Len(r) = Len(s) - 1
        /\ \A i \in 1..Len(s) - 1 : r[i] = IF i < m THEN s[i] ELSE s[i + 1]
    BY <2>1, RemoveAtProps
  <2>3. Len(s) \in Nat
    BY <2>1, LenProperties
  <2>4. r \in Seq(Tablas \X Entradas)
    BY <2>2 DEF P
  <2> HIDE DEF r
  <2> QED BY <2>2, <2>3, <2>4
<1>2. k \in 1..Len(s) /\ s[k][1] = t /\ \A i \in 1..Len(s) : s[i][1] = t => k <= i
  BY EsElPrimero
<1>3. DOMAIN r = 1..Len(r)
  BY <1>1
<1> HIDE DEF r, k
<1> DEFINE q == IF k < m THEN k ELSE k - 1
<1>4. q \in 1..Len(r) /\ r[q] = s[k]
  <2>1. k # m
    BY <1>2
  <2> QED BY <1>1, <1>2, <2>1
<1>5. Esta(r, t)
  BY <1>2, <1>3, <1>4 DEF Esta
<1>6. n \in 1..Len(r) /\ r[n][1] = t /\ \A i \in 1..Len(r) : r[i][1] = t => n <= i
  BY <1>1, <1>5, EsElPrimero
<1> HIDE DEF n
<1>7. n <= q
  BY <1>2, <1>4, <1>6
<1>8. CASE n < m
  <2>0. n \in 1..Len(s) - 1
    BY <1>1, <1>6
  <2>4. r[n] = IF n < m THEN s[n] ELSE s[n + 1]
    BY <1>1, <2>0
  <2>1. n \in 1..Len(s) /\ r[n] = s[n]
    BY <1>1, <1>8, <2>0, <2>4
  <2>2. k <= n
    BY <1>2, <1>6, <2>1
  <2>3. n = q
    BY <1>2, <1>6, <1>7, <1>8, <2>2
  <2> QED BY <1>4, <1>5, <2>3 DEF r, k, n
<1>9. CASE ~(n < m)
  <2>1. n + 1 \in 1..Len(s) /\ r[n] = s[n + 1]
    BY <1>1, <1>6, <1>9
  <2>2. k <= n + 1
    BY <1>2, <1>6, <2>1
  <2>3. n = q
    BY <1>2, <1>6, <1>7, <1>9, <2>2
  <2> QED BY <1>4, <1>5, <2>3 DEF r, k, n
<1> QED BY <1>8, <1>9

\* ... and cutting off a tail where it has none.
LEMMA AlCortar ==
  ASSUME NEW s \in Seq(Tablas \X Entradas), NEW u \in 0..Len(s), NEW t, Esta(s, t),
         \A i \in (u + 1)..Len(s) : s[i][1] # t
  PROVE  /\ Esta(SubSeq(s, 1, u), t)
         /\ SubSeq(s, 1, u)[IndiceEn(SubSeq(s, 1, u), t)] = s[IndiceEn(s, t)]
<1> DEFINE r == SubSeq(s, 1, u)  k == IndiceEn(s, t)  n == IndiceEn(r, t)
<1>1. /\ r \in Seq(Tablas \X Entradas) /\ Len(r) = u /\ Len(s) \in Nat
      /\ \A i \in 1..u : r[i] = s[i]
  OBVIOUS
<1>2. k \in 1..Len(s) /\ s[k][1] = t /\ \A i \in 1..Len(s) : s[i][1] = t => k <= i
  BY EsElPrimero
<1>3. k \in 1..u
  <2>1. k \notin (u + 1)..Len(s)
    BY <1>2
  <2> HIDE DEF k
  <2> QED BY <1>1, <1>2, <2>1
<1>4. Esta(r, t)
  <2>1. k \in DOMAIN r /\ r[k][1] = t
    BY <1>1, <1>2, <1>3
  <2> QED BY <2>1 DEF Esta
<1>5. n \in 1..Len(r) /\ r[n][1] = t /\ \A i \in 1..Len(r) : r[i][1] = t => n <= i
  BY <1>1, <1>4, EsElPrimero
<1> HIDE DEF r, k, n
<1>6. n <= k
  BY <1>1, <1>2, <1>3, <1>5
<1>7. n \in 1..Len(s) /\ s[n][1] = t
  BY <1>1, <1>5
<1>8. n = k
  BY <1>1, <1>2, <1>3, <1>5, <1>6, <1>7
<1> QED BY <1>1, <1>3, <1>4, <1>8 DEF r, k, n

-----------------------------------------------------------------------------
(* The invariant. *)

CamposCl ==
  {"pc", "t", "k", "reg", "error", "ultimo", "suLista", "entrada", "visto", "vistos"}
CamposHilo == {"pc", "t", "mutex", "porRenombrar", "claves", "j"}
DeDrop == {"borrar", "rmdir", "sacar"}
Quietos == {"nace", "dormida", "espera", "fin"}

\* A thread that has found the last entry of the list has it there still, if
\* that has not been cut off or freed.
TieneUltima(c, s) ==
  c.pc = "anotar" /\ c.suLista = "vigente" => c.ultimo \in 0..Len(s)

\* Whoever takes tables out of the list is at a DROP.
ClientesBien ==
  /\ directorios \subseteq Tablas
  /\ DOMAIN cl = Clientes
  /\ \A h \in Clientes :
       /\ DOMAIN cl[h] = CamposCl
       /\ cl[h].pc # "libre" => cl[h].t \in Tablas
       /\ cl[h].pc \in DeDrop => cl[h].t \in solapadas
       /\ TieneUltima(cl[h], listaDeTablas)

Tipos ==
  /\ listaDeTablas \in Seq(Tablas \X Entradas)
  /\ mutex \in [Entradas -> {"libre", "tomado", "destruido", "nunca"}]
  /\ DOMAIN comp = Entradas
  /\ \A e \in Entradas : DOMAIN comp[e] = CamposHilo

\* An entry is of one table in the life of the process, and its mutex is
\* destroyed by a DROP of that table only; a thread has a mutex of its table.
EntradasBien ==
  /\ \A i \in 1..Len(listaDeTablas) :
       /\ mutex[listaDeTablas[i][2]] # "nunca"
       /\ comp[listaDeTablas[i][2]].t = listaDeTablas[i][1]
  /\ \A e \in Entradas :
       /\ mutex[e] = "destruido" => comp[e].t \in solapadas
       /\ comp[e].mutex # 0 =>
            /\ comp[e].mutex \in Entradas
            /\ mutex[comp[e].mutex] # "nunca"
            /\ comp[comp[e].mutex].t = comp[e].t

\* The thread e is at work.
Trabaja(e) == comp[e].pc \notin Quietos

\* All the threads of a table that was not dropped have the mutex of its first
\* entry, and the one at work, if there is one, holds it.
HiloBien(e) ==
  comp[e].t \notin solapadas =>
    /\ comp[e].pc \notin {"nace", "fin"} =>
         /\ Esta(listaDeTablas, comp[e].t)
         /\ comp[e].mutex = listaDeTablas[IndiceEn(listaDeTablas, comp[e].t)][2]
    /\ Trabaja(e) =>
         /\ mutex[comp[e].mutex] = "tomado"
         /\ \A f \in Entradas : Trabaja(f) /\ comp[f].t = comp[e].t => f = e

HilosBien == \A e \in Entradas : HiloBien(e)

Inv == ClientesBien /\ Tipos /\ EntradasBien /\ HilosBien

LEMMA Conocidas ==
  /\ \A t : ExisteLaTabla(t) <=> Esta(listaDeTablas, t)
  /\ \A t : Indice(t) = IndiceEn(listaDeTablas, t)
BY DEF ExisteLaTabla, Esta, Indice, IndiceEn

LEMMA InvUna == Inv => UnaCompactacion
<1> SUFFICES ASSUME Inv, NEW t \in Tablas \ solapadas PROVE Cardinality(Compactando(t)) <= 1
  BY DEF UnaCompactacion
<1>1. \A e, f \in Compactando(t) : e = f
  BY DEF Inv, HilosBien, HiloBien, Compactando, Trabaja, Quietos
<1>2. CASE Compactando(t) = {}
  BY <1>2, FS_EmptySet
<1>3. CASE Compactando(t) # {}
  <2>1. PICK e : e \in Compactando(t)
    BY <1>3
  <2>2. Compactando(t) = {e}
    BY <1>1, <2>1
  <2> QED BY <2>2, FS_Singleton
<1> QED BY <1>2, <1>3

-----------------------------------------------------------------------------
\* A step that takes no mutex, makes no entry and brings no thread to work.
LEMMA ListasQuietas ==
  ASSUME Inv, UNCHANGED listas, solapadas \subseteq solapadas',
         DOMAIN comp' = Entradas,
         \A e \in Entradas :
           /\ DOMAIN comp'[e] = CamposHilo
           /\ comp'[e].t = comp[e].t /\ comp'[e].mutex = comp[e].mutex
           /\ comp'[e].pc \in {"nace", "fin"} \/ comp[e].pc \notin {"nace", "fin"}
           /\ comp'[e].pc \in Quietos \/ comp[e].pc \notin Quietos
  PROVE  Tipos' /\ EntradasBien' /\ HilosBien'
<1>1. Tipos'
  BY DEF Inv, Tipos, listas
<1>2. EntradasBien'
  <2>1. \A i \in 1..Len(listaDeTablas) : listaDeTablas[i][2] \in Entradas
    BY DEF Inv, Tipos
  <2> QED BY <2>1 DEF Inv, EntradasBien, listas
<1>3. HilosBien'
  BY DEF Inv, HilosBien, HiloBien, Trabaja, listas
<1> QED BY <1>1, <1>2, <1>3

\* A thread gets the mutex of the first entry its table has when it starts.
LEMMA NacerBien ==
  ASSUME Inv, NEW e \in Entradas, ExisteLaTabla(comp[e].t), comp[e].pc = "nace",
         comp' = [comp EXCEPT ![e].pc = "dormida", ![e].mutex = Entrada(comp[e].t)],
         UNCHANGED <<listas, solapadas>>
  PROVE  Tipos' /\ EntradasBien' /\ HilosBien'
<1> DEFINE t == comp[e].t
           i == IndiceEn(listaDeTablas, t)
           m == listaDeTablas[i][2]
<1>1. Esta(listaDeTablas, t) /\ Entrada(t) = m
  BY Conocidas DEF Entrada
<1>2. i \in 1..Len(listaDeTablas) /\ listaDeTablas[i][1] = t
  BY <1>1, EsElPrimero DEF Inv, Tipos
<1>3. m \in Entradas
  BY <1>2 DEF Inv, Tipos
<1>4. mutex[m] # "nunca" /\ comp[m].t = t
  BY <1>2 DEF Inv, EntradasBien
<1>5. /\ DOMAIN comp' = Entradas
      /\ \A f \in Entradas : DOMAIN comp'[f] = CamposHilo /\ comp'[f].t = comp[f].t
      /\ comp'[e].pc = "dormida" /\ comp'[e].mutex = m
      /\ \A f \in Entradas : f # e => comp'[f] = comp[f]
  BY <1>1 DEF Inv, Tipos, CamposHilo
<1> HIDE DEF t, i, m
<1>6. Tipos'
  BY <1>5 DEF Inv, Tipos, listas
<1>7. EntradasBien'
  <2>1. \A k \in 1..Len(listaDeTablas) : listaDeTablas[k][2] \in Entradas
    BY DEF Inv, Tipos
  <2>2. \A f \in Entradas : comp'[f].mutex # 0 =>
          /\ comp'[f].mutex \in Entradas
          /\ mutex[comp'[f].mutex] # "nunca"
          /\ comp'[comp'[f].mutex].t = comp'[f].t
    <3>1. TAKE f \in Entradas
    <3>2. CASE f = e
      BY <1>3, <1>4, <1>5, <3>2 DEF t
    <3>3. CASE f # e
      BY <1>5, <3>3 DEF Inv, EntradasBien
    <3> QED BY <3>2, <3>3
  <2> QED BY <1>5, <2>1, <2>2 DEF Inv, EntradasBien, listas
<1>8. HilosBien'
  <2>1. \A f \in Entradas : Trabaja(f)' => Trabaja(f) /\ f # e
    BY <1>5 DEF Trabaja, Quietos
  <2>2. ASSUME NEW f \in Entradas, comp[f].t \notin solapadas
        PROVE  comp'[f].pc \notin {"nace", "fin"} =>
                 /\ Esta(listaDeTablas, comp[f].t)
                 /\ comp'[f].mutex = listaDeTablas[IndiceEn(listaDeTablas, comp[f].t)][2]
    <3>1. CASE f = e
      BY <1>1, <1>5, <3>1 DEF t, i, m
    <3>2. CASE f # e
      BY <1>5, <2>2, <3>2 DEF Inv, HilosBien, HiloBien
    <3> QED BY <3>1, <3>2
  <2> QED BY <1>5, <2>1, <2>2 DEF Inv, HilosBien, HiloBien, listas
<1> QED BY <1>6, <1>7, <1>8

\* What the mutex of a thread's table is to the others.
LEMMA DueloDeMutex ==
  ASSUME Inv, NEW e \in Entradas, NEW f \in Entradas,
         comp[e].pc \notin {"nace", "fin"}, comp[f].pc \notin {"nace", "fin"},
         comp[e].t \notin solapadas, comp[f].t \notin solapadas
  PROVE  /\ comp[e].mutex \in Entradas
         /\ mutex[comp[e].mutex] \in {"libre", "tomado"}
         /\ comp[comp[e].mutex].t = comp[e].t
         /\ comp[e].mutex = comp[f].mutex <=> comp[e].t = comp[f].t
<1>1. ASSUME NEW x \in Entradas, comp[x].pc \notin {"nace", "fin"}, comp[x].t \notin solapadas
      PROVE  /\ comp[x].mutex \in Entradas
             /\ mutex[comp[x].mutex] \in {"libre", "tomado"}
             /\ comp[comp[x].mutex].t = comp[x].t
  <2> DEFINE i == IndiceEn(listaDeTablas, comp[x].t)
  <2>1. Esta(listaDeTablas, comp[x].t) /\ comp[x].mutex = listaDeTablas[i][2]
    BY <1>1 DEF Inv, HilosBien, HiloBien
  <2>2. i \in 1..Len(listaDeTablas) /\ listaDeTablas[i][1] = comp[x].t
    BY <2>1, EsElPrimero DEF Inv, Tipos
  <2> HIDE DEF i
  <2>3. comp[x].mutex \in Entradas
    BY <2>1, <2>2 DEF Inv, Tipos
  <2>4. comp[comp[x].mutex].t = comp[x].t /\ mutex[comp[x].mutex] # "nunca"
    BY <2>1, <2>2 DEF Inv, EntradasBien
  <2>5. mutex[comp[x].mutex] # "destruido"
    BY <1>1, <2>3, <2>4 DEF Inv, EntradasBien
  <2> QED BY <2>3, <2>4, <2>5 DEF Inv, Tipos
<1>2. comp[e].t = comp[f].t => comp[e].mutex = comp[f].mutex
  BY DEF Inv, HilosBien, HiloBien
<1> QED BY <1>1, <1>2

\* It takes the mutex if nobody has it.
LEMMA TomarBien ==
  ASSUME Inv, NEW e \in Entradas, Tomar(e)
  PROVE  Tipos' /\ EntradasBien' /\ HilosBien'
<1> DEFINE m == comp[e].mutex
<1>1. /\ comp[e].pc = "espera" /\ mutex[m] # "tomado"
      /\ mutex' = [mutex EXCEPT ![m] = IF @ = "libre" THEN "tomado" ELSE @]
      /\ UNCHANGED listaDeTablas /\ solapadas \subseteq solapadas'
  BY DEF Tomar, EnComp
<1>2. /\ DOMAIN comp' = Entradas
      /\ \A f \in Entradas : /\ DOMAIN comp'[f] = CamposHilo
                             /\ comp'[f].t = comp[f].t /\ comp'[f].mutex = comp[f].mutex
      /\ comp'[e].pc \notin Quietos
      /\ \A f \in Entradas : f # e => comp'[f] = comp[f]
  BY DEF Tomar, Inv, Tipos, CamposHilo, Quietos
<1>3. \A f \in Entradas :
        /\ mutex'[f] = IF f = m /\ mutex[f] = "libre" THEN "tomado" ELSE mutex[f]
        /\ mutex'[f] \in {"libre", "tomado", "destruido", "nunca"}
  BY <1>1 DEF Inv, Tipos
<1> HIDE DEF m
<1>4. Tipos'
  BY <1>1, <1>2, <1>3 DEF Inv, Tipos
<1>5. EntradasBien'
  <2>1. \A k \in 1..Len(listaDeTablas) : listaDeTablas[k][2] \in Entradas
    BY DEF Inv, Tipos
  <2>2. \A f \in Entradas : /\ mutex'[f] = "nunca" <=> mutex[f] = "nunca"
                            /\ mutex'[f] = "destruido" <=> mutex[f] = "destruido"
    BY <1>3
  <2> QED BY <1>1, <1>2, <2>1, <2>2 DEF Inv, EntradasBien
<1>6. HilosBien'
  <2>1. ASSUME NEW f \in Entradas, comp[f].t \notin solapadas', f # e
        PROVE  HiloBien(f)'
    <3>1. \A g \in Entradas : Trabaja(g)' <=> Trabaja(g) \/ g = e
      BY <1>2 DEF Trabaja
    <3>2. HiloBien(f) /\ comp'[f] = comp[f] /\ comp[f].t \notin solapadas
      BY <1>1, <1>2, <2>1 DEF Inv, HilosBien
    <3>3. Trabaja(f) => comp[f].pc \notin {"nace", "fin"}
      BY DEF Trabaja, Quietos
    <3>4. ASSUME Trabaja(f), comp[e].t = comp[f].t PROVE FALSE
      <4>1. comp[f].mutex = m
        BY <1>1, <3>2, <3>3, <3>4, DueloDeMutex DEF m
      <4> QED BY <1>1, <3>2, <3>4, <4>1 DEF HiloBien
    <3>5. Trabaja(f) => mutex'[comp[f].mutex] = "tomado"
      <4>1. Trabaja(f) => comp[f].mutex \in Entradas
        BY <3>2, <3>3, DueloDeMutex
      <4> QED BY <1>3, <3>2, <4>1 DEF HiloBien
    <3> QED BY <1>1, <1>2, <2>1, <3>1, <3>2, <3>4, <3>5 DEF HiloBien
  <2>2. ASSUME comp[e].t \notin solapadas' PROVE HiloBien(e)'
    <3>1. /\ HiloBien(e) /\ comp[e].t \notin solapadas
          /\ comp[e].pc \notin {"nace", "fin"}
      BY <1>1, <2>2 DEF Inv, HilosBien
    <3>2. m \in Entradas /\ mutex[m] \in {"libre", "tomado"}
      BY <3>1, DueloDeMutex DEF m
    <3>3. mutex'[m] = "tomado"
      BY <1>1, <1>3, <3>2
    <3>4. ASSUME NEW g \in Entradas, Trabaja(g)', comp[g].t = comp[e].t, g # e PROVE FALSE
      <4>1. Trabaja(g) /\ comp[g].pc \notin {"nace", "fin"}
        BY <1>2, <3>4 DEF Trabaja, Quietos
      <4>2. mutex[comp[g].mutex] = "tomado"
        BY <3>1, <3>4, <4>1 DEF Inv, HilosBien, HiloBien
      <4>3. comp[g].mutex = m
        BY <3>1, <3>4, <4>1, DueloDeMutex DEF m
      <4> QED BY <1>1, <4>2, <4>3
    <3> QED BY <1>1, <1>2, <3>1, <3>3, <3>4 DEF HiloBien, m
  <2>3. \A f \in Entradas : comp'[f].t = comp[f].t
    BY <1>2
  <2>4. \A f \in Entradas : HiloBien(f)'
    <3>1. TAKE f \in Entradas
    <3>2. CASE comp[f].t \in solapadas'
      BY <2>3, <3>2 DEF HiloBien
    <3> QED BY <2>1, <2>2, <3>2
  <2> QED BY <2>4 DEF HilosBien
<1> QED BY <1>4, <1>5, <1>6

\* It gives back a mutex that no other thread of a table that was not dropped
\* relies on.
LEMMA SoltarBien ==
  ASSUME Inv, NEW e \in Entradas, Soltar(e)
  PROVE  Tipos' /\ EntradasBien' /\ HilosBien'
<1> DEFINE m == comp[e].mutex
<1>1. /\ comp[e].pc = "escribir" /\ UNCHANGED <<listaDeTablas, solapadas>>
      /\ mutex' = [mutex EXCEPT ![m] = IF @ = "tomado" THEN "libre" ELSE @]
  BY DEF Soltar, EnComp, Suelto, historia
<1>2. /\ DOMAIN comp' = Entradas
      /\ \A f \in Entradas : /\ DOMAIN comp'[f] = CamposHilo
                             /\ comp'[f].t = comp[f].t /\ comp'[f].mutex = comp[f].mutex
      /\ comp'[e].pc = "dormida"
      /\ \A f \in Entradas : f # e => comp'[f] = comp[f]
  BY DEF Soltar, Inv, Tipos, CamposHilo
<1>3. \A f \in Entradas :
        /\ mutex'[f] = IF f = m /\ mutex[f] = "tomado" THEN "libre" ELSE mutex[f]
        /\ mutex'[f] \in {"libre", "tomado", "destruido", "nunca"}
  BY <1>1 DEF Inv, Tipos
<1> HIDE DEF m
<1>4. Tipos'
  BY <1>1, <1>2, <1>3 DEF Inv, Tipos
<1>5. EntradasBien'
  <2>1. \A k \in 1..Len(listaDeTablas) : listaDeTablas[k][2] \in Entradas
    BY DEF Inv, Tipos
  <2>2. \A f \in Entradas : /\ mutex'[f] = "nunca" <=> mutex[f] = "nunca"
                            /\ mutex'[f] = "destruido" <=> mutex[f] = "destruido"
    BY <1>3
  <2> QED BY <1>1, <1>2, <2>1, <2>2 DEF Inv, EntradasBien
<1>6. ASSUME NEW f \in Entradas PROVE HiloBien(f)'
  <2>1. CASE f = e
    <3>1. ~Trabaja(e)'
      BY <1>2 DEF Trabaja, Quietos
    <3>2. HiloBien(e)
      BY DEF Inv, HilosBien
    <3> QED BY <1>1, <1>2, <2>1, <3>1, <3>2 DEF HiloBien
  <2>2. CASE f # e
    <3>1. \A g \in Entradas : Trabaja(g)' => Trabaja(g)
      BY <1>1, <1>2 DEF Trabaja, Quietos
    <3>2. HiloBien(f) /\ Trabaja(e)
      BY <1>1 DEF Inv, HilosBien, Trabaja, Quietos
    <3>3. ASSUME Trabaja(f), comp[f].t \notin solapadas
          PROVE  mutex'[comp[f].mutex] = "tomado"
      <4>1. comp[f].mutex \in Entradas /\ comp[comp[f].mutex].t = comp[f].t
        BY <3>3, DueloDeMutex DEF Trabaja, Quietos
      <4>2. comp[e].t # comp[f].t
        BY <2>2, <3>2, <3>3 DEF HiloBien
      <4>3. m # comp[f].mutex
        <5>1. 0 \notin Entradas
          BY ConstantesValidas DEF Entradas
        <5> QED BY <4>1, <4>2, <5>1 DEF Inv, EntradasBien, m
      <4> QED BY <1>3, <3>2, <3>3, <4>1, <4>3 DEF HiloBien
    <3> QED BY <1>1, <1>2, <2>2, <3>1, <3>2, <3>3 DEF HiloBien
  <2> QED BY <2>1, <2>2
<1> QED BY <1>4, <1>5, <1>6 DEF HilosBien

\* A new entry leaves the first one of every table that is not in solapadas by
\* then where it is to be found.
LEMMA AnotarLista ==
  ASSUME Inv, NEW h \in Clientes, NEW e \in Entradas, cl[h].t \in Tablas,
         cl[h].pc = "anotar",
         listaDeTablas' = IF cl[h].suLista = "vigente"
           THEN Append(SubSeq(listaDeTablas, 1, cl[h].ultimo), <<cl[h].t, e>>)
           ELSE listaDeTablas,
         solapadas' = solapadas \cup
           (IF cl[h].suLista = "vigente"
            THEN {listaDeTablas[i][1] : i \in (cl[h].ultimo + 1)..Len(listaDeTablas)}
            ELSE {cl[h].t})
  PROVE  /\ listaDeTablas' \in Seq(Tablas \X Entradas)
         /\ \A k \in 1..Len(listaDeTablas') :
              \/ listaDeTablas'[k] = <<cl[h].t, e>>
              \/ \E n \in 1..Len(listaDeTablas) : listaDeTablas'[k] = listaDeTablas[n]
         /\ \A t : t \notin solapadas' /\ Esta(listaDeTablas, t) =>
              /\ Esta(listaDeTablas', t)
              /\ listaDeTablas'[IndiceEn(listaDeTablas', t)]
                   = listaDeTablas[IndiceEn(listaDeTablas, t)]
<1>1. listaDeTablas \in Seq(Tablas \X Entradas) /\ Len(listaDeTablas) \in Nat
  BY DEF Inv, Tipos
<1>2. CASE cl[h].suLista # "vigente"
  BY <1>1, <1>2
<1>3. CASE cl[h].suLista = "vigente"
  <2>1. PICK u, x : u = cl[h].ultimo /\ x = <<cl[h].t, e>>
    OBVIOUS
  <2>2. u \in 0..Len(listaDeTablas) /\ x \in Tablas \X Entradas
    BY <1>3, <2>1 DEF Inv, ClientesBien, TieneUltima
  <2>3. PICK r : r = SubSeq(listaDeTablas, 1, u)
    OBVIOUS
  <2>4. /\ r \in Seq(Tablas \X Entradas) /\ Len(r) = u
        /\ \A i \in 1..u : r[i] = listaDeTablas[i]
    BY <1>1, <2>2, <2>3
  <2>5. listaDeTablas' = Append(r, x)
    BY <1>3, <2>1, <2>3
  <2>6. /\ Append(r, x) \in Seq(Tablas \X Entradas) /\ Len(Append(r, x)) = u + 1
        /\ Append(r, x)[u + 1] = x
        /\ \A i \in 1..u : Append(r, x)[i] = r[i]
    BY <2>2, <2>4
  <2>7. ASSUME NEW k \in 1..Len(listaDeTablas')
        PROVE  \/ listaDeTablas'[k] = x
               \/ \E n \in 1..Len(listaDeTablas) : listaDeTablas'[k] = listaDeTablas[n]
    <3>1. CASE k = u + 1
      BY <2>5, <2>6, <3>1
    <3>2. CASE k # u + 1
      <4>0. Len(listaDeTablas') = u + 1
        BY <2>5, <2>6
      <4>2. k \in 1..(u + 1)
        BY <4>0
      <4>1. k \in 1..u /\ k \in 1..Len(listaDeTablas)
        BY <1>1, <2>2, <3>2, <4>2
      <4> QED BY <2>4, <2>5, <2>6, <4>1
    <3> QED BY <3>1, <3>2
  <2>8. ASSUME NEW t, t \notin solapadas', Esta(listaDeTablas, t)
        PROVE  /\ Esta(listaDeTablas', t)
               /\ listaDeTablas'[IndiceEn(listaDeTablas', t)]
                    = listaDeTablas[IndiceEn(listaDeTablas, t)]
    <3>1. \A i \in (u + 1)..Len(listaDeTablas) : listaDeTablas[i][1] # t
      BY <1>3, <2>1, <2>8
    <3>2. /\ Esta(r, t)
          /\ r[IndiceEn(r, t)] = listaDeTablas[IndiceEn(listaDeTablas, t)]
      BY <1>1, <2>2, <2>3, <2>8, <3>1, AlCortar
    <3>3. /\ Esta(Append(r, x), t)
          /\ Append(r, x)[IndiceEn(Append(r, x), t)] = r[IndiceEn(r, t)]
      BY <2>2, <2>4, <3>2, AlAgregar
    <3> QED BY <2>5, <3>2, <3>3
  <2> QED BY <2>1, <2>5, <2>6, <2>7, <2>8
<1> QED BY <1>2, <1>3

\* The entry, whether it is found in the list or not, has a mutex of its own.
LEMMA AnotarBien ==
  ASSUME Inv, NEW h \in Clientes, Anotar(h)
  PROVE  Tipos' /\ EntradasBien' /\ HilosBien'
<1> DEFINE t == cl[h].t
           libres == {x \in Entradas : mutex[x] = "nunca"}
           e == Min(libres)
<1>1. e \in Entradas /\ mutex[e] = "nunca"
  <2>1. libres # {} /\ libres \in SUBSET Int /\ Entradas = 1..MaxEntradas /\ MaxEntradas \in Int
    BY ConstantesValidas DEF Anotar, Entradas
  <2>2. IsFiniteSet(libres)
    BY <2>1, FS_Interval, FS_Subset
  <2>3. e \in libres
    BY <2>1, <2>2, MinimoExiste
  <2> QED BY <2>3
<1>2. t \in Tablas /\ cl[h].pc = "anotar"
  BY DEF Inv, ClientesBien, Anotar, En
<1>3. /\ mutex' = [mutex EXCEPT ![e] = "libre"]
      /\ comp' = [comp EXCEPT ![e] = Hilo("nace", t)]
      /\ listaDeTablas' = (IF cl[h].suLista = "vigente"
           THEN Append(SubSeq(listaDeTablas, 1, cl[h].ultimo), <<t, e>>)
           ELSE listaDeTablas)
      /\ solapadas' = solapadas \cup
           (IF cl[h].suLista = "vigente"
            THEN {listaDeTablas[i][1] : i \in (cl[h].ultimo + 1)..Len(listaDeTablas)}
            ELSE {t})
  BY DEF Anotar
<1> HIDE DEF e
<1>4. /\ DOMAIN comp' = Entradas
      /\ \A f \in Entradas : f # e => comp'[f] = comp[f]
      /\ comp'[e] = [pc |-> "nace", t |-> t, mutex |-> 0, porRenombrar |-> {},
                     claves |-> <<>>, j |-> 1]
  BY <1>1, <1>3 DEF Inv, Tipos, Hilo
<1>5. \A f \in Entradas : mutex'[f] = IF f = e THEN "libre" ELSE mutex[f]
  BY <1>1, <1>3 DEF Inv, Tipos
<1>6. /\ listaDeTablas' \in Seq(Tablas \X Entradas)
      /\ \A k \in 1..Len(listaDeTablas') :
           \/ listaDeTablas'[k] = <<t, e>>
           \/ \E n \in 1..Len(listaDeTablas) : listaDeTablas'[k] = listaDeTablas[n]
      /\ \A x : x \notin solapadas' /\ Esta(listaDeTablas, x) =>
           /\ Esta(listaDeTablas', x)
           /\ listaDeTablas'[IndiceEn(listaDeTablas', x)]
                = listaDeTablas[IndiceEn(listaDeTablas, x)]
  BY <1>1, <1>2, <1>3, AnotarLista
<1> HIDE DEF t
<1>7. Tipos'
  <2>1. \A f \in Entradas : DOMAIN comp'[f] = CamposHilo
    <3>1. DOMAIN comp'[e] = CamposHilo
      BY <1>4 DEF CamposHilo
    <3> QED BY <1>4, <3>1 DEF Inv, Tipos
  <2> QED BY <1>1, <1>3, <1>4, <1>6, <2>1 DEF Inv, Tipos
<1>8. EntradasBien'
  <2>1. ASSUME NEW k \in 1..Len(listaDeTablas')
        PROVE  /\ mutex'[listaDeTablas'[k][2]] # "nunca"
               /\ comp'[listaDeTablas'[k][2]].t = listaDeTablas'[k][1]
    <3>1. CASE listaDeTablas'[k] = <<t, e>>
      BY <1>1, <1>4, <1>5, <3>1
    <3>2. ASSUME NEW n \in 1..Len(listaDeTablas), listaDeTablas'[k] = listaDeTablas[n]
          PROVE  /\ mutex'[listaDeTablas'[k][2]] # "nunca"
                 /\ comp'[listaDeTablas'[k][2]].t = listaDeTablas'[k][1]
      <4>1. listaDeTablas[n][2] \in Entradas
        BY DEF Inv, Tipos
      <4>2. listaDeTablas[n][2] # e
        BY <1>1 DEF Inv, EntradasBien
      <4> QED BY <1>4, <1>5, <3>2, <4>1, <4>2 DEF Inv, EntradasBien
    <3> QED BY <1>6, <3>1, <3>2
  <2>2. ASSUME NEW f \in Entradas
        PROVE  /\ mutex'[f] = "destruido" => comp'[f].t \in solapadas
               /\ comp'[f].mutex # 0 =>
                    /\ comp'[f].mutex \in Entradas
                    /\ mutex'[comp'[f].mutex] # "nunca"
                    /\ comp'[comp'[f].mutex].t = comp'[f].t
    <3>1. CASE f = e
      BY <1>4, <1>5, <3>1
    <3>2. CASE f # e
      <4>1. comp[f].mutex # 0 => comp[f].mutex \in Entradas /\ comp[f].mutex # e
        BY <1>1 DEF Inv, EntradasBien
      <4> QED BY <1>4, <1>5, <3>2, <4>1 DEF Inv, EntradasBien
    <3> QED BY <3>1, <3>2
  <2>3. solapadas \subseteq solapadas'
    BY <1>3
  <2> QED BY <2>1, <2>2, <2>3 DEF EntradasBien
<1>9. ASSUME NEW f \in Entradas PROVE HiloBien(f)'
  <2>1. CASE f = e
    BY <1>4, <2>1 DEF HiloBien, Trabaja, Quietos
  <2>2. CASE f # e
    <3>1. HiloBien(f) /\ comp'[f] = comp[f]
      BY <1>4, <2>2 DEF Inv, HilosBien
    <3>2. \A g \in Entradas : Trabaja(g)' => Trabaja(g) /\ comp'[g] = comp[g]
      BY <1>4 DEF Trabaja, Quietos
    <3>4. ASSUME Trabaja(f), comp[f].t \notin solapadas
          PROVE  mutex'[comp[f].mutex] = "tomado"
      <4>1. comp[f].mutex \in Entradas
        BY <3>4, DueloDeMutex DEF Trabaja, Quietos
      <4>2. mutex[comp[f].mutex] = "tomado"
        BY <3>1, <3>4 DEF HiloBien
      <4> QED BY <1>1, <1>5, <4>1, <4>2
    <3>5. Trabaja(f)' <=> Trabaja(f)
      BY <3>1 DEF Trabaja
    <3>6. ASSUME Trabaja(f), comp[f].t \notin solapadas,
                 NEW g \in Entradas, Trabaja(g)', comp'[g].t = comp[f].t
          PROVE  g = f
      BY <3>1, <3>2, <3>6 DEF HiloBien
    <3>7. comp'[f].t = comp[f].t /\ comp'[f].mutex = comp[f].mutex /\ comp'[f].pc = comp[f].pc
      BY <3>1
    <3>9. solapadas \subseteq solapadas'
      BY <1>3
    <3>8. ASSUME comp[f].t \notin solapadas', comp[f].pc \notin {"nace", "fin"}
          PROVE  /\ Esta(listaDeTablas', comp[f].t)
                 /\ comp[f].mutex = listaDeTablas'[IndiceEn(listaDeTablas', comp[f].t)][2]
      BY <1>6, <3>1, <3>8, <3>9 DEF HiloBien
    <3>10. ASSUME comp'[f].t \notin solapadas', comp'[f].pc \notin {"nace", "fin"}
           PROVE  /\ Esta(listaDeTablas', comp'[f].t)
                  /\ comp'[f].mutex = listaDeTablas'[IndiceEn(listaDeTablas', comp'[f].t)][2]
      BY <3>7, <3>8, <3>10
    <3>11. ASSUME comp'[f].t \notin solapadas', Trabaja(f)'
           PROVE  /\ mutex'[comp'[f].mutex] = "tomado"
                  /\ \A g \in Entradas : Trabaja(g)' /\ comp'[g].t = comp'[f].t => g = f
      BY <3>4, <3>5, <3>6, <3>7, <3>9, <3>11
    <3> QED BY <3>10, <3>11 DEF HiloBien
  <2> QED BY <2>1, <2>2
<1> QED BY <1>7, <1>8, <1>9 DEF HilosBien

\* Only an entry of a table that was dropped goes, and its mutex with it.
LEMMA SacarBien ==
  ASSUME Inv, NEW h \in Clientes, Sacar(h)
  PROVE  Tipos' /\ EntradasBien' /\ HilosBien'
<1> DEFINE t == cl[h].t
           i == Indice(t)
           m == listaDeTablas[i][2]
<1>1. t \in solapadas /\ UNCHANGED <<comp, solapadas>>
  BY DEF Inv, ClientesBien, Sacar, En, historia, DeDrop
<1>2. CASE ~ExisteLaTabla(t)
  <2>1. UNCHANGED listas
    BY <1>2 DEF Sacar
  <2> QED BY <1>1, <2>1, ListasQuietas DEF Inv, Tipos
<1>3. CASE ExisteLaTabla(t)
  <2>1. /\ listaDeTablas' = RemoveAt(listaDeTablas, i)
        /\ mutex' = [mutex EXCEPT ![m] = IF @ = "tomado" THEN @ ELSE "destruido"]
    BY <1>3 DEF Sacar, Entrada
  <2>2. i \in 1..Len(listaDeTablas) /\ listaDeTablas[i][1] = t
    BY <1>3, Conocidas, EsElPrimero DEF Inv, Tipos
  <2>3. m \in Entradas /\ comp[m].t = t /\ mutex[m] # "nunca"
    BY <2>2 DEF Inv, Tipos, EntradasBien
  <2> HIDE DEF i, m, t
  <2>4. /\ listaDeTablas' \in Seq(Tablas \X Entradas)
        /\ Len(listaDeTablas') = Len(listaDeTablas) - 1 /\ Len(listaDeTablas) \in Nat
        /\ \A k \in 1..Len(listaDeTablas) - 1 :
             listaDeTablas'[k] = IF k < i THEN listaDeTablas[k] ELSE listaDeTablas[k + 1]
    <3> DEFINE P == Tablas \X Entradas
    <3>1. listaDeTablas \in Seq(P) /\ Len(listaDeTablas) \in Nat
      BY DEF Inv, Tipos
    <3> HIDE DEF P
    <3>2. /\ listaDeTablas' \in Seq(P)
          /\ Len(listaDeTablas') = Len(listaDeTablas) - 1
          /\ \A k \in 1..Len(listaDeTablas) - 1 :
               listaDeTablas'[k] = IF k < i THEN listaDeTablas[k] ELSE listaDeTablas[k + 1]
      BY <2>1, <2>2, <3>1, RemoveAtProps
    <3> QED BY <3>1, <3>2 DEF P
  <2>5. \A f \in Entradas :
          /\ f # m => mutex'[f] = mutex[f]
          /\ mutex'[f] = "nunca" => mutex[f] = "nunca"
          /\ mutex'[f] \in {"libre", "tomado", "destruido", "nunca"}
    BY <2>1, <2>3 DEF Inv, Tipos
  <2>6. Tipos'
    BY <1>1, <2>1, <2>4, <2>5 DEF Inv, Tipos
  <2>7. EntradasBien'
    <3>1. ASSUME NEW k \in 1..Len(listaDeTablas')
          PROVE  /\ mutex'[listaDeTablas'[k][2]] # "nunca"
                 /\ comp'[listaDeTablas'[k][2]].t = listaDeTablas'[k][1]
      <4>1. PICK n \in 1..Len(listaDeTablas) : listaDeTablas'[k] = listaDeTablas[n]
        <5>1. k \in 1..Len(listaDeTablas) /\ k + 1 \in 1..Len(listaDeTablas)
          BY <2>4
        <5> QED BY <2>4, <5>1
      <4>2. listaDeTablas[n][2] \in Entradas
        BY DEF Inv, Tipos
      <4> QED BY <1>1, <2>5, <4>1, <4>2 DEF Inv, EntradasBien
    <3>2. ASSUME NEW f \in Entradas
          PROVE  mutex'[f] = "destruido" => comp[f].t \in solapadas
      BY <1>1, <2>3, <2>5 DEF Inv, EntradasBien
    <3> QED BY <1>1, <2>5, <3>1, <3>2 DEF Inv, EntradasBien
  <2>8. ASSUME NEW f \in Entradas, comp[f].t \notin solapadas PROVE HiloBien(f)'
    <3>1. HiloBien(f) /\ comp[f].t # t
      BY <1>1, <2>8 DEF Inv, HilosBien
    <3>2. Esta(listaDeTablas, comp[f].t) =>
            /\ Esta(listaDeTablas', comp[f].t)
            /\ listaDeTablas'[IndiceEn(listaDeTablas', comp[f].t)]
                 = listaDeTablas[IndiceEn(listaDeTablas, comp[f].t)]
      BY <2>1, <2>2, <3>1, AlSacar DEF Inv, Tipos
    <3>3. Trabaja(f) => mutex'[comp[f].mutex] = "tomado"
      <4>1. Trabaja(f) => comp[f].mutex \in Entradas /\ comp[comp[f].mutex].t = comp[f].t
        BY <2>8, DueloDeMutex DEF Trabaja, Quietos
      <4> QED BY <2>3, <2>5, <2>8, <3>1, <4>1 DEF HiloBien
    <3>4. \A g \in Entradas : Trabaja(g)' <=> Trabaja(g)
      BY <1>1 DEF Trabaja
    <3> QED BY <1>1, <3>1, <3>2, <3>3, <3>4 DEF HiloBien
  <2>9. HilosBien'
    BY <1>1, <2>8 DEF HilosBien, HiloBien
  <2> QED BY <2>6, <2>7, <2>9
<1> QED BY <1>2, <1>3

-----------------------------------------------------------------------------
(* The start. *)

LEMMA SonPocas ==
  ASSUME NEW D \in SUBSET Tablas
  PROVE  /\ Cardinality(D) \in Nat /\ Cardinality(D) <= MaxEntradas
         /\ SetToSeq(D) \in [1..Cardinality(D) -> D]
<1>1. IsFiniteSet(D) /\ Cardinality(D) <= Cardinality(Tablas)
  BY ConstantesValidas, FS_Subset
<1>2. Cardinality(D) \in Nat /\ Cardinality(Tablas) \in Nat /\ MaxEntradas \in Nat
  BY <1>1, ConstantesValidas, FS_CardinalityType
<1>3. \E f : f \in Bijection(1..Cardinality(D), D)
  BY <1>1, FS_CardinalityType DEF ExistsBijection
<1>4. \E f \in [1..Cardinality(D) -> D] : IsInjective(f)
  BY <1>3 DEF Bijection, Injection, IsInjective
<1>5. SetToSeq(D) \in [1..Cardinality(D) -> D]
  BY <1>4 DEF SetToSeq
<1> QED BY <1>1, <1>2, <1>5, ConstantesValidas

\* The list is as long as there are directories, and every thread is new.
LEMMA Arranque ==
  \A D \in SUBSET Tablas :
    listaDeTablas = ListaDe(SetToSeq(D)) /\ mutex = MutexDe(SetToSeq(D))
      /\ comp = HilosDe(SetToSeq(D))
    => Tipos /\ EntradasBien /\ HilosBien
<1> SUFFICES ASSUME NEW D \in SUBSET Tablas, listaDeTablas = ListaDe(SetToSeq(D)),
                    mutex = MutexDe(SetToSeq(D)), comp = HilosDe(SetToSeq(D))
             PROVE  Tipos /\ EntradasBien /\ HilosBien
  OBVIOUS
<1> DEFINE n == Cardinality(D)
           s == SetToSeq(D)
<1>1. /\ n \in Nat /\ 1..n \subseteq Entradas
      /\ s \in [1..n -> D]
  BY SonPocas, ConstantesValidas DEF Entradas
<1> HIDE DEF n, s
<1>2. /\ listaDeTablas \in [1..n -> Tablas \X Entradas]
      /\ \A i \in 1..n : listaDeTablas[i] = <<s[i], i>>
  BY <1>1 DEF ListaDe, s
<1>3. listaDeTablas \in Seq(Tablas \X Entradas) /\ Len(listaDeTablas) = n
  BY <1>1, <1>2
<1>4. /\ mutex \in [Entradas -> {"libre", "tomado", "destruido", "nunca"}]
      /\ \A e \in Entradas : mutex[e] = IF e \in 1..n THEN "libre" ELSE "nunca"
  BY <1>1 DEF MutexDe, s
<1>5. /\ DOMAIN comp = Entradas
      /\ \A e \in Entradas : comp[e] = IF e \in 1..n THEN Hilo("nace", s[e]) ELSE Hilo("fin", Nulo)
  BY <1>1 DEF HilosDe, s
<1>6. \A e \in Entradas :
        /\ DOMAIN comp[e] = CamposHilo
        /\ comp[e].pc \in {"nace", "fin"} /\ comp[e].mutex = 0
        /\ e \in 1..n => comp[e].t = s[e]
  BY <1>5 DEF Hilo, CamposHilo
<1>7. Tipos
  BY <1>3, <1>4, <1>5, <1>6 DEF Tipos
<1>8. EntradasBien
  <2>1. \A i \in 1..n : mutex[i] = "libre" /\ comp[i].t = s[i] /\ listaDeTablas[i] = <<s[i], i>>
    BY <1>1, <1>2, <1>4, <1>6
  <2>2. \A i \in 1..n : listaDeTablas[i][1] = s[i] /\ listaDeTablas[i][2] = i
    BY <2>1
  <2>3. \A e \in Entradas : mutex[e] # "destruido" /\ comp[e].mutex = 0
    BY <1>4, <1>6
  <2> QED BY <1>3, <2>1, <2>2, <2>3 DEF EntradasBien
<1>9. HilosBien
  BY <1>6 DEF HilosBien, HiloBien, Trabaja, Quietos
<1> QED BY <1>7, <1>8, <1>9

LEMMA ArranqueDeNuevo ==
  (\A D \in SUBSET Tablas :
    listaDeTablas = ListaDe(SetToSeq(D)) /\ mutex = MutexDe(SetToSeq(D))
      /\ comp = HilosDe(SetToSeq(D))
    => Tipos /\ EntradasBien /\ HilosBien)'
BY Arranque, PTL

LEMMA InitInv == Init => Inv
<1> SUFFICES ASSUME Init PROVE Inv
  OBVIOUS
<1>1. ClientesBien
  BY ConstantesValidas DEF Init, ClientesBien, Libre, CamposCl, DeDrop, TieneUltima
<1>2. Tipos /\ EntradasBien /\ HilosBien
  <2>1. EnDisco \in SUBSET Tablas
    BY ConstantesValidas
  <2> QED BY <2>1, Arranque DEF Init
<1> QED BY <1>1, <1>2 DEF Inv

-----------------------------------------------------------------------------
(* The attention threads. *)

\* A request starts a thread anew; a DROP marks its table.
LEMMA PedidoClientes ==
  ASSUME Inv, NEW h \in Clientes, Pedido(h)
  PROVE  ClientesBien' /\ UNCHANGED <<listas, comp>> /\ solapadas \subseteq solapadas'
<1> USE DEF historia, disco
<1>1. PICK t \in Tablas :
        \/ \E k \in Claves : Insert(h, t, k) \/ Select(h, t, k)
        \/ Create(h, t) \/ Drop(h, t)
  BY DEF Pedido
<1>2. /\ UNCHANGED <<listas, comp, directorios>>
      /\ solapadas \subseteq solapadas'
  BY <1>1 DEF Insert, Select, Create, Drop
<1>3. PICK r : /\ cl' = [cl EXCEPT ![h] = r]
               /\ DOMAIN r = CamposCl /\ r.t = t
               /\ r.pc \in DeDrop => t \in solapadas'
               /\ r.pc # "anotar"
  <2>0. DOMAIN Libre = CamposCl
    BY DEF Libre, CamposCl
  <2>1. CASE \E k \in Claves : Insert(h, t, k)
    <3>1. PICK k \in Claves, ahora \in reloj..MaxReloj :
            cl' = [cl EXCEPT ![h] =
              [Libre EXCEPT !.pc = IF diccionario[t] = SinLista THEN "poner" ELSE "agregar",
                            !.t = t, !.error = ~ExisteLaTabla(t),
                            !.reg = [timestamp |-> ahora, key |-> k, n |-> cuantos + 1]]]
      BY <2>1 DEF Insert
    <3> DEFINE r == [Libre EXCEPT
                       !.pc = IF diccionario[t] = SinLista THEN "poner" ELSE "agregar",
                       !.t = t, !.error = ~ExisteLaTabla(t),
                       !.reg = [timestamp |-> ahora, key |-> k, n |-> cuantos + 1]]
    <3>2. DOMAIN r = CamposCl /\ r.t = t /\ r.pc \notin DeDrop /\ r.pc # "anotar"
      BY <2>0 DEF CamposCl, DeDrop
    <3>3. cl' = [cl EXCEPT ![h] = r]
      BY <3>1
    <3> HIDE DEF r
    <3> QED BY <3>2, <3>3
  <2>2. CASE \E k \in Claves : Select(h, t, k)
    <3>1. PICK k \in Claves :
            cl' = [cl EXCEPT ![h] = [Libre EXCEPT !.pc = "compuerta", !.t = t, !.k = k,
                                                  !.entrada = Entrada(t)]]
      BY <2>2 DEF Select
    <3> DEFINE r == [Libre EXCEPT !.pc = "compuerta", !.t = t, !.k = k, !.entrada = Entrada(t)]
    <3>2. DOMAIN r = CamposCl /\ r.t = t /\ r.pc \notin DeDrop /\ r.pc # "anotar"
      BY <2>0 DEF CamposCl, DeDrop
    <3>3. cl' = [cl EXCEPT ![h] = r]
      BY <3>1
    <3> HIDE DEF r
    <3> QED BY <3>2, <3>3
  <2>3. CASE Create(h, t)
    <3> DEFINE r == [Libre EXCEPT !.pc = "mkdir", !.t = t]
    <3>1. DOMAIN r = CamposCl /\ r.t = t /\ r.pc \notin DeDrop /\ r.pc # "anotar"
      BY <2>0 DEF CamposCl, DeDrop
    <3>2. cl' = [cl EXCEPT ![h] = r]
      BY <2>3 DEF Create
    <3> HIDE DEF r
    <3> QED BY <3>1, <3>2
  <2>4. CASE Drop(h, t)
    <3> DEFINE r == [Libre EXCEPT !.pc = "borrar", !.t = t]
    <3>1. DOMAIN r = CamposCl /\ r.t = t /\ t \in solapadas' /\ r.pc # "anotar"
      BY <2>0, <2>4 DEF CamposCl, Drop
    <3>2. cl' = [cl EXCEPT ![h] = r]
      BY <2>4 DEF Drop
    <3> HIDE DEF r
    <3> QED BY <3>1, <3>2
  <2> QED BY <1>1, <2>1, <2>2, <2>3, <2>4
<1>4. ClientesBien'
  <2>1. DOMAIN cl' = Clientes /\ cl'[h] = r /\ \A g \in Clientes : g # h => cl'[g] = cl[g]
    BY <1>3 DEF Inv, ClientesBien
  <2>2. \A g \in Clientes : TieneUltima(cl'[g], listaDeTablas')
    BY <1>2, <1>3, <2>1 DEF Inv, ClientesBien, TieneUltima, listas
  <2> QED BY <1>2, <1>3, <2>1, <2>2 DEF Inv, ClientesBien
<1> QED BY <1>2, <1>4

\* The threads go on with their tables, or end; none comes to a DROP.
ClientesSiguen ==
  /\ directorios' \subseteq Tablas
  /\ DOMAIN cl' = Clientes
  /\ solapadas \subseteq solapadas'
  /\ \A g \in Clientes :
       /\ DOMAIN cl'[g] = CamposCl
       /\ TieneUltima(cl'[g], listaDeTablas')
       /\ \/ cl'[g].pc = "libre"
          \/ /\ cl'[g].t = cl[g].t
             /\ cl'[g].pc # "libre" => cl[g].pc # "libre"
             /\ cl'[g].pc \in DeDrop => cl[g].pc \in DeDrop

LEMMA SiguenBien ==
  ASSUME Inv, ClientesSiguen
  PROVE  ClientesBien'
<1>1. DOMAIN Libre = CamposCl /\ Libre.pc = "libre"
  BY DEF Libre, CamposCl
<1> QED BY <1>1 DEF Inv, ClientesBien, ClientesSiguen, DeDrop

LEMMA CaerClientes ==
  ASSUME Inv, NEW motivo, Caer(motivo)
  PROVE  ClientesSiguen /\ UNCHANGED <<listas, comp>>
BY DEF Caer, Inv, ClientesBien, ClientesSiguen, TieneUltima, disco, listas, lectura

LEMMA TerminaBien ==
  ASSUME Inv, NEW h \in Clientes, Termina(h), UNCHANGED <<directorios, solapadas, listaDeTablas>>
  PROVE  ClientesSiguen
BY DEF Inv, ClientesBien, ClientesSiguen, TieneUltima, Termina, Libre, CamposCl

LEMMA SigueBien ==
  ASSUME Inv, NEW h \in Clientes, NEW paso, cl' = [cl EXCEPT ![h].pc = paso],
         cl[h].pc # "libre", paso \in DeDrop => cl[h].pc \in DeDrop, paso # "anotar",
         directorios' \subseteq directorios \cup {cl[h].t}, UNCHANGED <<solapadas, listaDeTablas>>
  PROVE  ClientesSiguen
<1>1. directorios' \subseteq Tablas
  BY DEF Inv, ClientesBien
<1>2. \A g \in Clientes : g # h => cl'[g] = cl[g]
  BY DEF Inv, ClientesBien
<1>3. DOMAIN cl'[h] = CamposCl /\ cl'[h].t = cl[h].t /\ cl'[h].pc = paso /\ DOMAIN cl' = Clientes
  BY DEF Inv, ClientesBien, CamposCl
<1>4. \A g \in Clientes : TieneUltima(cl'[g], listaDeTablas')
  BY <1>2, <1>3 DEF Inv, ClientesBien, TieneUltima
<1> QED BY <1>1, <1>2, <1>3, <1>4 DEF Inv, ClientesBien, ClientesSiguen

\* Being left with another list is all that happens to a thread.
LEMMA SepararBien ==
  ASSUME NEW hilos, NEW como, NEW otros, DOMAIN otros = Clientes,
         \A g \in Clientes : DOMAIN otros[g] = CamposCl,
         NEW r, r = Separar(hilos, como, otros)
  PROVE  /\ DOMAIN r = Clientes
         /\ \A g \in Clientes :
              /\ DOMAIN r[g] = CamposCl
              /\ r[g].pc = otros[g].pc /\ r[g].t = otros[g].t /\ r[g].k = otros[g].k
              /\ r[g].reg = otros[g].reg /\ r[g].error = otros[g].error
              /\ r[g].ultimo = otros[g].ultimo /\ r[g].entrada = otros[g].entrada
              /\ r[g].visto = otros[g].visto /\ r[g].vistos = otros[g].vistos
              /\ r[g].suLista = IF g \in hilos THEN como ELSE otros[g].suLista
<1>1. DOMAIN r = Clientes
  BY DEF Separar
<1>2. ASSUME NEW g \in Clientes
      PROVE  /\ DOMAIN r[g] = CamposCl
             /\ r[g].pc = otros[g].pc /\ r[g].t = otros[g].t /\ r[g].k = otros[g].k
             /\ r[g].reg = otros[g].reg /\ r[g].error = otros[g].error
             /\ r[g].ultimo = otros[g].ultimo /\ r[g].entrada = otros[g].entrada
             /\ r[g].visto = otros[g].visto /\ r[g].vistos = otros[g].vistos
             /\ r[g].suLista = IF g \in hilos THEN como ELSE otros[g].suLista
  BY DEF Separar, CamposCl
<1> QED BY <1>1, <1>2

LEMMA SepararSigue ==
  ASSUME Inv, NEW hilos, NEW como, NEW otros, cl' = Separar(hilos, como, otros),
         DOMAIN otros = Clientes, UNCHANGED directorios, solapadas \subseteq solapadas',
         \A g \in Clientes :
           g \in hilos \/ TieneUltima(otros[g], listaDeTablas'),
         como # "vigente",
         \A g \in Clientes :
           \/ otros[g] = cl[g] \/ otros[g] = Libre
           \/ /\ DOMAIN otros[g] = CamposCl /\ otros[g].t = cl[g].t
              /\ cl[g].pc # "libre" /\ otros[g].pc \notin DeDrop
  PROVE  ClientesSiguen
<1>1. DOMAIN Libre = CamposCl /\ Libre.pc = "libre" /\ "libre" \notin DeDrop
  BY DEF Libre, CamposCl, DeDrop
<1>2. \A g \in Clientes : DOMAIN otros[g] = CamposCl
  BY <1>1 DEF Inv, ClientesBien
<1>3. /\ DOMAIN cl' = Clientes
      /\ \A g \in Clientes :
           /\ DOMAIN cl'[g] = CamposCl /\ cl'[g].t = otros[g].t /\ cl'[g].pc = otros[g].pc
           /\ cl'[g].ultimo = otros[g].ultimo
           /\ cl'[g].suLista = IF g \in hilos THEN como ELSE otros[g].suLista
  <2>1. PICK r : r = Separar(hilos, como, otros)
    OBVIOUS
  <2>2. /\ DOMAIN r = Clientes
        /\ \A g \in Clientes :
             /\ DOMAIN r[g] = CamposCl /\ r[g].t = otros[g].t /\ r[g].pc = otros[g].pc
             /\ r[g].ultimo = otros[g].ultimo
             /\ r[g].suLista = IF g \in hilos THEN como ELSE otros[g].suLista
    BY <1>2, <2>1, SepararBien
  <2> QED BY <2>1, <2>2
<1>4. ASSUME NEW g \in Clientes, cl'[g].pc # "libre"
      PROVE  cl[g].pc # "libre" /\ cl'[g].t = cl[g].t /\ (cl'[g].pc \in DeDrop => cl[g].pc \in DeDrop)
  BY <1>1, <1>3, <1>4
<1>5. ASSUME NEW g \in Clientes PROVE TieneUltima(cl'[g], listaDeTablas')
  <2>1. /\ cl'[g].pc = otros[g].pc /\ cl'[g].ultimo = otros[g].ultimo
        /\ cl'[g].suLista = IF g \in hilos THEN como ELSE otros[g].suLista
    BY <1>3
  <2>2. g \in hilos \/ TieneUltima(otros[g], listaDeTablas')
    OBVIOUS
  <2>3. CASE g \in hilos
    BY <2>1, <2>3 DEF TieneUltima
  <2>4. CASE TieneUltima(otros[g], listaDeTablas') /\ g \notin hilos
    BY <2>1, <2>4 DEF TieneUltima
  <2> QED BY <2>2, <2>3, <2>4
<1> QED BY <1>1, <1>3, <1>4, <1>5 DEF Inv, ClientesBien, ClientesSiguen

\* A new entry: those that had found one of those it drops have lost it.
LEMMA AnotarClientes ==
  ASSUME Inv, NEW h \in Clientes, Anotar(h)
  PROVE  ClientesSiguen
<1> DEFINE u == cl[h].ultimo
           hilos == IF cl[h].suLista = "vigente" THEN {g \in PorAnotar : cl[g].ultimo > u} ELSE {}
           s == IF cl[h].suLista = "vigente"
                THEN {listaDeTablas[i][1] : i \in (u + 1)..Len(listaDeTablas)} ELSE {cl[h].t}
<1>1. PICK otros : otros = [cl EXCEPT ![h] = Libre]
  OBVIOUS
<1>2. /\ DOMAIN otros = Clientes /\ otros[h] = Libre
      /\ \A g \in Clientes : g # h => otros[g] = cl[g]
  BY <1>1 DEF Inv, ClientesBien
<1>3. /\ cl' = Separar(hilos, "cortada", otros)
      /\ UNCHANGED directorios /\ solapadas' = solapadas \cup s
      /\ cl[h].pc = "anotar"
  BY <1>1 DEF Anotar, disco, En
<1>4. Libre.pc = "libre"
  BY DEF Libre
<1>5. listaDeTablas \in Seq(Tablas \X Entradas) /\ Len(listaDeTablas) \in Nat
  BY DEF Inv, Tipos
<1>6. ASSUME NEW g \in Clientes, g \notin hilos PROVE TieneUltima(otros[g], listaDeTablas')
  <2>1. CASE g = h
    BY <1>2, <1>4, <2>1 DEF TieneUltima
  <2>2. CASE g # h /\ cl[h].suLista # "vigente"
    <3>1. listaDeTablas' = listaDeTablas
      BY <2>2 DEF Anotar
    <3> QED BY <1>2, <2>2, <3>1 DEF Inv, ClientesBien
  <2>3. CASE g # h /\ cl[h].suLista = "vigente"
    <3>1. u \in 0..Len(listaDeTablas)
      BY <1>3, <2>3 DEF Inv, ClientesBien, TieneUltima
    <3>2. PICK x : listaDeTablas' = Append(SubSeq(listaDeTablas, 1, u), x)
      BY <2>3 DEF Anotar
    <3>3. Len(listaDeTablas') = u + 1
      BY <1>5, <3>1, <3>2
    <3>4. ASSUME cl[g].pc = "anotar", cl[g].suLista = "vigente"
          PROVE  cl[g].ultimo \in 0..Len(listaDeTablas')
      <4>1. cl[g].ultimo \in 0..Len(listaDeTablas)
        BY <3>4 DEF Inv, ClientesBien, TieneUltima
      <4>2. ~(cl[g].ultimo > u)
        BY <1>6, <2>3, <3>4 DEF PorAnotar
      <4> QED BY <1>5, <3>1, <3>3, <4>1, <4>2
    <3> QED BY <1>2, <2>3, <3>4 DEF TieneUltima
  <2> QED BY <2>1, <2>2, <2>3
<1> HIDE DEF hilos, s, u
<1>7. \A g \in Clientes :
        g \in hilos \/ TieneUltima(otros[g], listaDeTablas')
  BY <1>6
<1>8. \A g \in Clientes :
        \/ otros[g] = cl[g] \/ otros[g] = Libre
        \/ /\ DOMAIN otros[g] = CamposCl /\ otros[g].t = cl[g].t
           /\ cl[g].pc # "libre" /\ otros[g].pc \notin DeDrop
  BY <1>2
<1>9. solapadas \subseteq solapadas'
  BY <1>3
<1> QED BY <1>2, <1>3, <1>7, <1>8, <1>9, SepararSigue

\* An entry is taken out: those that had found it have lost it, and those that
\* had found a later one have it one place nearer.
LEMMA SacarClientes ==
  ASSUME Inv, NEW h \in Clientes, Sacar(h)
  PROVE  ClientesSiguen
<1> DEFINE i == Indice(cl[h].t)
           hilos == {g \in PorAnotar : cl[g].ultimo = i}
<1>1. PICK libre : libre = [cl EXCEPT ![h] = Libre]
  OBVIOUS
<1>2. /\ DOMAIN libre = Clientes /\ libre[h] = Libre
      /\ \A g \in Clientes : g # h => libre[g] = cl[g]
  BY <1>1 DEF Inv, ClientesBien
<1>3. UNCHANGED <<directorios, solapadas>> /\ cl[h].pc = "sacar"
  BY DEF Sacar, En, disco, historia
<1>4. CASE ~ExisteLaTabla(cl[h].t)
  <2>1. Termina(h) /\ UNCHANGED listaDeTablas
    BY <1>4 DEF Sacar, Termina, listas
  <2> QED BY <1>3, <2>1, TerminaBien
<1>5. CASE ExisteLaTabla(cl[h].t)
  <2>1. PICK otros : otros = Correr(i, libre)
    OBVIOUS
  <2>2. /\ cl' = Separar(hilos, "liberada", otros)
        /\ listaDeTablas' = RemoveAt(listaDeTablas, i)
    BY <1>1, <1>5, <2>1 DEF Sacar
  <2>3. i \in 1..Len(listaDeTablas) /\ Len(listaDeTablas) \in Nat
    BY <1>5, Conocidas, EsElPrimero DEF Inv, Tipos
  <2> HIDE DEF i
  <2>4. Len(listaDeTablas') = Len(listaDeTablas) - 1
    <3> DEFINE P == Tablas \X Entradas
    <3>1. listaDeTablas \in Seq(P)
      BY DEF Inv, Tipos
    <3> HIDE DEF P
    <3> QED BY <2>2, <2>3, <3>1, RemoveAtProps
  <2>5. DOMAIN otros = Clientes
    BY <2>1 DEF Correr
  <2>6. ASSUME NEW g \in Clientes, g \in PorAnotar, cl[g].ultimo > i
        PROVE  /\ DOMAIN otros[g] = CamposCl /\ otros[g].t = cl[g].t
               /\ otros[g].pc = "anotar" /\ otros[g].ultimo = cl[g].ultimo - 1
    <3>1. g # h /\ cl[g].pc = "anotar"
      BY <1>3, <2>6 DEF PorAnotar
    <3>2. otros[g] = [cl[g] EXCEPT !.ultimo = @ - 1]
      BY <1>2, <2>1, <2>6, <3>1 DEF Correr
    <3>3. PICK n : n = cl[g].ultimo - 1
      OBVIOUS
    <3>4. otros[g] = [cl[g] EXCEPT !.ultimo = n]
      BY <3>2, <3>3
    <3>5. DOMAIN cl[g] = CamposCl
      BY DEF Inv, ClientesBien
    <3> QED BY <3>1, <3>3, <3>4, <3>5 DEF CamposCl
  <2>7. ASSUME NEW g \in Clientes, ~(g \in PorAnotar /\ cl[g].ultimo > i)
        PROVE  otros[g] = libre[g]
    BY <2>1, <2>7 DEF Correr
  <2>8. ASSUME NEW g \in Clientes, g \notin hilos PROVE TieneUltima(otros[g], listaDeTablas')
    <3>1. g \in PorAnotar => cl[g].ultimo \in 0..Len(listaDeTablas)
      BY DEF Inv, ClientesBien, TieneUltima, PorAnotar
    <3>2. CASE g \in PorAnotar /\ cl[g].ultimo > i
      <4>1. otros[g].ultimo \in 0..Len(listaDeTablas')
        BY <2>3, <2>4, <2>6, <3>1, <3>2
      <4> QED BY <4>1 DEF TieneUltima
    <3>3. CASE g \in PorAnotar /\ ~(cl[g].ultimo > i)
      <4>1. g # h /\ otros[g] = cl[g]
        BY <1>2, <1>3, <2>7, <3>3 DEF PorAnotar
      <4>2. cl[g].ultimo # i
        BY <2>8, <3>3
      <4>3. cl[g].ultimo \in 0..Len(listaDeTablas')
        BY <2>3, <2>4, <3>1, <3>3, <4>2
      <4> QED BY <4>1, <4>3 DEF TieneUltima
    <3>4. CASE g \notin PorAnotar
      <4>1. Libre.pc = "libre"
        BY DEF Libre
      <4> QED BY <1>2, <2>7, <3>4, <4>1 DEF TieneUltima, PorAnotar
    <3> QED BY <3>2, <3>3, <3>4
  <2>9. \A g \in Clientes :
        \/ otros[g] = cl[g] \/ otros[g] = Libre
        \/ /\ DOMAIN otros[g] = CamposCl /\ otros[g].t = cl[g].t
           /\ cl[g].pc # "libre" /\ otros[g].pc \notin DeDrop
    <3>1. "anotar" \notin DeDrop
      BY DEF DeDrop
    <3> QED BY <1>2, <2>6, <2>7, <3>1 DEF PorAnotar
  <2> HIDE DEF hilos
  <2>10. \A g \in Clientes :
        g \in hilos \/ TieneUltima(otros[g], listaDeTablas')
    BY <2>8
  <2>11. solapadas \subseteq solapadas'
    BY <1>3
  <2> QED BY <1>3, <2>2, <2>5, <2>9, <2>10, <2>11, SepararSigue
<1> QED BY <1>4, <1>5

\* All the steps of an attention thread but the two that touch the list.
LEMMA AtenderClientes ==
  ASSUME Inv, NEW h \in Clientes, Atender(h)
  PROVE  /\ ClientesSiguen
         /\ Anotar(h) \/ Sacar(h) \/ UNCHANGED <<listas, comp>>
<1> USE DEF historia, disco, lectura, En
<1>1. CASE Poner(h) \/ Enlazar(h)
  <2>1. /\ cl[h].pc \in {"poner", "enlazar"}
        /\ UNCHANGED <<listas, comp, directorios, solapadas>>
        /\ \E hilos, como, paso, u :
             /\ cl' = Separar(hilos, como, [cl EXCEPT ![h].pc = paso, ![h].ultimo = u])
             /\ paso \in {"agregar", "contar"} /\ como # "vigente"
    <3>1. CASE Poner(h)
      <4>1. PICK sigue : sigue = [cl EXCEPT ![h].pc = "agregar", ![h].ultimo = cl[h].ultimo]
        OBVIOUS
      <4>2. [cl EXCEPT ![h].pc = "agregar"] = sigue
        BY <4>1 DEF Inv, ClientesBien, CamposCl
      <4>3. cl' = Separar(EnSuLista({cl[h].t}), "reemplazada", sigue) \/ cl' = sigue
        BY <3>1, <4>2 DEF Poner
      <4>4. sigue = Separar({}, "reemplazada", sigue)
        BY <4>1 DEF Separar, Inv, ClientesBien
      <4>5. \E hilos : cl' = Separar(hilos, "reemplazada", sigue)
        BY <4>3, <4>4
      <4>6. cl[h].pc = "poner" /\ UNCHANGED <<listas, comp, directorios, solapadas>>
        BY <3>1 DEF Poner
      <4> QED BY <4>1, <4>5, <4>6
    <3>2. CASE Enlazar(h)
      BY <3>2 DEF Enlazar
    <3> QED BY <1>1, <3>1, <3>2
  <2>2. PICK hilos, como, paso, u :
          /\ cl' = Separar(hilos, como, [cl EXCEPT ![h].pc = paso, ![h].ultimo = u])
          /\ paso \in {"agregar", "contar"} /\ como # "vigente"
    BY <2>1
  <2>3. PICK otros : otros = [cl EXCEPT ![h].pc = paso, ![h].ultimo = u]
    OBVIOUS
  <2>4. /\ DOMAIN otros = Clientes
        /\ DOMAIN otros[h] = CamposCl /\ otros[h].t = cl[h].t /\ otros[h].pc = paso
        /\ \A g \in Clientes : g # h => otros[g] = cl[g]
    BY <2>3 DEF Inv, ClientesBien, CamposCl
  <2>5. paso \notin DeDrop /\ cl[h].pc # "libre"
    BY <2>1, <2>2 DEF DeDrop
  <2>6. cl' = Separar(hilos, como, otros)
    BY <2>2, <2>3
  <2>7. \A g \in Clientes :
           \/ otros[g] = cl[g] \/ otros[g] = Libre
           \/ /\ DOMAIN otros[g] = CamposCl /\ otros[g].t = cl[g].t
              /\ cl[g].pc # "libre" /\ otros[g].pc \notin DeDrop
    BY <2>4, <2>5
  <2>8. ASSUME NEW g \in Clientes PROVE TieneUltima(otros[g], listaDeTablas')
    <3>1. listaDeTablas' = listaDeTablas
      BY <2>1 DEF listas
    <3>2. CASE g = h
      BY <2>2, <2>4, <3>2 DEF TieneUltima
    <3>3. CASE g # h
      BY <2>4, <3>1, <3>3 DEF Inv, ClientesBien
    <3> QED BY <3>2, <3>3
  <2>9. ClientesSiguen
    <3>1. \A g \in Clientes :
            g \in hilos \/ TieneUltima(otros[g], listaDeTablas')
      BY <2>8
    <3>2. UNCHANGED directorios /\ solapadas \subseteq solapadas'
      BY <2>1
    <3>3. cl' = Separar(hilos, como, otros) /\ como # "vigente" /\ DOMAIN otros = Clientes
      BY <2>2, <2>4, <2>6
    <3> QED BY <2>7, <3>1, <3>2, <3>3, SepararSigue
  <2> QED BY <2>1, <2>9
<1>2. CASE Agregar(h) \/ LeerBin(h) \/ ListarTmp(h) \/ LeerTmp(h) \/ Filtrar(h)
  <2>1. /\ cl[h].pc \in {"agregar", "bin", "listar", "tmp", "filtrar"}
        /\ UNCHANGED <<listas, comp, directorios, solapadas>>
    BY <1>2 DEF Agregar, LeerBin, ListarTmp, LeerTmp, Filtrar
  <2>2. /\ DOMAIN cl' = Clientes
        /\ \A g \in Clientes : g # h => cl'[g] = cl[g]
    BY <1>2 DEF Agregar, LeerBin, ListarTmp, LeerTmp, Filtrar, Inv, ClientesBien
  <2>3. /\ DOMAIN cl'[h] = CamposCl
        /\ cl'[h].t = cl[h].t
        /\ cl'[h].pc \in {"enlazar", "listar", "tmp", "responder"}
    <3>1. CASE Agregar(h)
      BY <3>1 DEF Agregar, Inv, ClientesBien, CamposCl
    <3>2. CASE LeerBin(h)
      BY <3>2 DEF LeerBin, Inv, ClientesBien, CamposCl
    <3>3. CASE ListarTmp(h)
      BY <3>3 DEF ListarTmp, Inv, ClientesBien, CamposCl
    <3>4. CASE LeerTmp(h)
      BY <3>4 DEF LeerTmp, Inv, ClientesBien, CamposCl
    <3>5. CASE Filtrar(h)
      BY <3>5 DEF Filtrar, Inv, ClientesBien, CamposCl
    <3> QED BY <1>2, <3>1, <3>2, <3>3, <3>4, <3>5
  <2>4. \A g \in Clientes : TieneUltima(cl'[g], listaDeTablas')
    BY <2>1, <2>2, <2>3 DEF TieneUltima, Inv, ClientesBien, listas
  <2> QED BY <2>1, <2>2, <2>3, <2>4 DEF Inv, ClientesBien, ClientesSiguen, DeDrop
<1>3. CASE \/ AgregarSinLista(h) \/ EnlazarLiberado(h) \/ SelectMuere(h) \/ TablaMuere(h)
           \/ AnotarLiberado(h)
  <2>1. \E motivo : Caer(motivo)
    BY <1>3 DEF AgregarSinLista, EnlazarLiberado, SelectMuere, TablaMuere, AnotarLiberado, Morir
  <2> QED BY <2>1, CaerClientes
<1>4. CASE Responder(h) \/ Sumar(h)
  <2>1. Termina(h) /\ UNCHANGED <<directorios, solapadas, listas, comp>>
    BY <1>4 DEF Responder, Sumar
  <2>2. UNCHANGED listaDeTablas
    BY <2>1 DEF listas
  <2> QED BY <2>1, <2>2, TerminaBien
<1>5. CASE Anotar(h) \/ Sacar(h)
  BY <1>5, AnotarClientes, SacarClientes
<1>7. CASE Ingresar(h)
  <2>1. /\ cl[h].pc = "ingresar" /\ UNCHANGED <<listas, comp, directorios, solapadas>>
        /\ cl' = [cl EXCEPT ![h].pc = "anotar", ![h].ultimo = Len(listaDeTablas)]
    BY <1>7 DEF Ingresar
  <2>2. /\ DOMAIN cl' = Clientes /\ \A g \in Clientes : g # h => cl'[g] = cl[g]
        /\ DOMAIN cl'[h] = CamposCl /\ cl'[h].t = cl[h].t /\ cl'[h].pc = "anotar"
        /\ cl'[h].ultimo = Len(listaDeTablas)
    BY <2>1 DEF Inv, ClientesBien, CamposCl
  <2>3. Len(listaDeTablas) \in 0..Len(listaDeTablas)
    BY DEF Inv, Tipos
  <2>4. \A g \in Clientes : TieneUltima(cl'[g], listaDeTablas')
    BY <2>1, <2>2, <2>3 DEF TieneUltima, Inv, ClientesBien, listas
  <2> QED BY <2>1, <2>2, <2>4 DEF Inv, ClientesBien, ClientesSiguen, DeDrop
<1>6. CASE \/ Compuerta(h) \/ MirarMemtable(h) \/ Mkdir(h) \/ CrearMetadata(h)
           \/ CrearParticiones(h) \/ BorrarArchivos(h) \/ QuitarDirectorio(h)
  <2>1. UNCHANGED <<listas, comp, solapadas>>
    BY <1>6 DEF Compuerta, MirarMemtable, Mkdir, CrearMetadata, CrearParticiones,
                BorrarArchivos, QuitarDirectorio
  <2>2. directorios' \subseteq directorios \cup {cl[h].t} /\ cl[h].pc # "libre"
    BY <1>6 DEF Compuerta, MirarMemtable, Mkdir, CrearMetadata, CrearParticiones,
                BorrarArchivos, QuitarDirectorio
  <2>3. PICK paso : /\ cl' = [cl EXCEPT ![h].pc = paso]
                    /\ paso \in DeDrop => cl[h].pc \in DeDrop
                    /\ paso # "anotar"
    <3>1. CASE Compuerta(h)
      <4>1. cl' = [cl EXCEPT ![h].pc = "bin"]
        BY <3>1 DEF Compuerta, Sigue
      <4>2. "bin" \notin DeDrop
        BY DEF DeDrop
      <4> QED BY <4>1, <4>2
    <3>2. CASE MirarMemtable(h)
      <4> DEFINE paso == IF diccionario[cl[h].t] = SinLista THEN "responder" ELSE "filtrar"
      <4>1. cl' = [cl EXCEPT ![h].pc = paso]
        BY <3>2 DEF MirarMemtable, Sigue
      <4>2. paso \notin DeDrop
        BY DEF DeDrop
      <4> QED BY <4>1, <4>2
    <3>3. CASE Mkdir(h)
      <4>1. /\ cl' = [cl EXCEPT ![h].pc = TrasMkdir(cl[h].t)]
            /\ TrasMkdir(cl[h].t) \notin DeDrop /\ TrasMkdir(cl[h].t) # "anotar"
        BY <3>3 DEF Mkdir, Sigue, TrasMkdir, DeDrop
      <4> QED BY <4>1
    <3>4. CASE CrearMetadata(h)
      <4>1. cl' = [cl EXCEPT ![h].pc = "particiones"]
        BY <3>4 DEF CrearMetadata, Sigue
      <4>2. "particiones" \notin DeDrop
        BY DEF DeDrop
      <4> QED BY <4>1, <4>2
    <3>5. CASE CrearParticiones(h)
      <4>1. cl' = [cl EXCEPT ![h].pc = "ingresar"]
        BY <3>5 DEF CrearParticiones, Sigue
      <4>2. "ingresar" \notin DeDrop
        BY DEF DeDrop
      <4> QED BY <4>1, <4>2
    <3>6. CASE BorrarArchivos(h)
      <4>1. cl' = [cl EXCEPT ![h].pc = "rmdir"] /\ cl[h].pc = "borrar"
        BY <3>6 DEF BorrarArchivos, Sigue
      <4> QED BY <4>1 DEF DeDrop
    <3>7. CASE QuitarDirectorio(h)
      <4>1. cl' = [cl EXCEPT ![h].pc = "sacar"] /\ cl[h].pc = "rmdir"
        BY <3>7 DEF QuitarDirectorio, Sigue
      <4> QED BY <4>1 DEF DeDrop
    <3> QED BY <1>6, <3>1, <3>2, <3>3, <3>4, <3>5, <3>6, <3>7
  <2>4. UNCHANGED <<solapadas, listaDeTablas>>
    BY <2>1 DEF listas
  <2> QED BY <2>1, <2>2, <2>3, <2>4, SigueBien
<1> QED BY <1>1, <1>2, <1>3, <1>4, <1>5, <1>6, <1>7 DEF Atender

-----------------------------------------------------------------------------
(* The other threads, and the theorem. *)

LEMMA QuietosSiguen ==
  ASSUME Inv, UNCHANGED <<cl, directorios, listaDeTablas>>, solapadas \subseteq solapadas'
  PROVE  ClientesSiguen
BY DEF Inv, ClientesBien, ClientesSiguen

LEMMA DumpClientes ==
  ASSUME Inv, Dump
  PROVE  ClientesSiguen /\ UNCHANGED <<listas, comp>>
<1> USE DEF historia, disco, lectura
<1>1. CASE DumpMuere
  <2>1. \E motivo : Caer(motivo)
    BY <1>1 DEF DumpMuere, Morir
  <2> QED BY <2>1, CaerClientes
<1>2. CASE Limpiar
  <2>1. /\ UNCHANGED <<directorios, solapadas, listas, comp>>
        /\ cl' = Separar(EnSuLista(Tablas), "liberada", cl)
    BY <1>2 DEF Limpiar
  <2>2. \A g \in Clientes : TieneUltima(cl[g], listaDeTablas')
    BY <2>1 DEF Inv, ClientesBien, listas
  <2> QED BY <2>1, <2>2, SepararSigue DEF Inv, ClientesBien
<1>3. CASE \/ DumpSinNada \/ DumpDespertar \/ Crear \/ Guardar \/ Escribir
           \/ \E t \in Tablas : Contar(t) \/ ContarSinTabla(t)
  <2>1. UNCHANGED <<directorios, cl, listas, comp>> /\ solapadas \subseteq solapadas'
    BY <1>3 DEF DumpSinNada, DumpDespertar, Crear, Guardar, Escribir, Contar, ContarSinTabla, vars
  <2> QED BY <2>1, QuietosSiguen DEF listas
<1> QED BY <1>1, <1>2, <1>3 DEF Dump

LEMMA CompactacionBien ==
  ASSUME Inv, NEW e \in Entradas, Compactacion(e)
  PROVE  ClientesSiguen /\ Tipos' /\ EntradasBien' /\ HilosBien'
<1> USE DEF historia, disco, lectura, EnComp
<1>1. CASE CompMuere(e) \/ (Nacer(e) /\ ~ExisteLaTabla(comp[e].t))
  <2>1. PICK motivo : Caer(motivo)
    BY <1>1 DEF CompMuere, Nacer, Morir
  <2>2. ClientesSiguen /\ UNCHANGED <<listas, comp>>
    BY <2>1, CaerClientes
  <2> QED BY <2>2, ListasQuietas DEF Inv, Tipos, ClientesSiguen
<1>2. CASE Nacer(e) /\ ExisteLaTabla(comp[e].t)
  <2>1. /\ comp[e].pc = "nace"
        /\ comp' = [comp EXCEPT ![e].pc = "dormida", ![e].mutex = Entrada(comp[e].t)]
        /\ UNCHANGED <<cl, directorios, listas, solapadas>>
    BY <1>2 DEF Nacer
  <2> QED BY <1>2, <2>1, NacerBien, QuietosSiguen DEF listas
<1>3. CASE Tomar(e)
  <2>1. UNCHANGED <<cl, directorios, listaDeTablas>> /\ solapadas \subseteq solapadas'
    BY <1>3 DEF Tomar
  <2> QED BY <1>3, <2>1, TomarBien, QuietosSiguen
<1>4. CASE Soltar(e)
  <2>1. UNCHANGED <<cl, directorios, listaDeTablas, solapadas>>
    BY <1>4 DEF Soltar
  <2> QED BY <1>4, <2>1, SoltarBien, QuietosSiguen
<1>5. CASE \/ CompDespertar(e) \/ Renombrar(e) \/ LevantarClaves(e) \/ BorrarTmpc(e)
           \/ BorrarBin(e) \/ CrearBin(e) \/ EscribirBin(e) \/ GuardarBin(e)
  <2>1. UNCHANGED <<cl, directorios, listas, solapadas>>
    BY <1>5 DEF CompDespertar, Renombrar, LevantarClaves, BorrarTmpc, BorrarBin, CrearBin,
                EscribirBin, GuardarBin
  <2>2. /\ DOMAIN comp' = Entradas
        /\ \A f \in Entradas : f # e => comp'[f] = comp[f]
    BY <1>5 DEF CompDespertar, Renombrar, LevantarClaves, BorrarTmpc, BorrarBin, CrearBin,
                EscribirBin, GuardarBin, Avanza, Inv, Tipos
  <2>3. /\ DOMAIN comp'[e] = CamposHilo
        /\ comp'[e].t = comp[e].t /\ comp'[e].mutex = comp[e].mutex
        /\ comp'[e].pc \in {"nace", "fin"} \/ comp[e].pc \notin {"nace", "fin"}
        /\ comp'[e].pc \in Quietos \/ comp[e].pc \notin Quietos
    <3> USE DEF Avanza, Inv, Tipos, CamposHilo, Quietos
    <3>1. CASE CompDespertar(e)
      BY <3>1 DEF CompDespertar
    <3>2. CASE Renombrar(e)
      BY <3>2 DEF Renombrar
    <3>3. CASE LevantarClaves(e)
      BY <3>3 DEF LevantarClaves
    <3>4. CASE BorrarTmpc(e) \/ BorrarBin(e)
      BY <3>4 DEF BorrarTmpc, BorrarBin
    <3>5. CASE CrearBin(e)
      BY <3>5 DEF CrearBin
    <3>6. CASE EscribirBin(e)
      BY <3>6 DEF EscribirBin
    <3>7. CASE GuardarBin(e)
      BY <3>7 DEF GuardarBin
    <3> QED BY <1>5, <3>1, <3>2, <3>3, <3>4, <3>5, <3>6, <3>7
  <2>4. ClientesSiguen
    BY <2>1, QuietosSiguen DEF listas
  <2>5. \A f \in Entradas :
          /\ DOMAIN comp'[f] = CamposHilo
          /\ comp'[f].t = comp[f].t /\ comp'[f].mutex = comp[f].mutex
          /\ comp'[f].pc \in {"nace", "fin"} \/ comp[f].pc \notin {"nace", "fin"}
          /\ comp'[f].pc \in Quietos \/ comp[f].pc \notin Quietos
    BY <2>2, <2>3 DEF Inv, Tipos
  <2> QED BY <2>1, <2>2, <2>4, <2>5, ListasQuietas
<1> QED BY <1>1, <1>2, <1>3, <1>4, <1>5 DEF Compactacion

LEMMA PasoInv == Inv /\ [Next]_vars => Inv'
<1> SUFFICES ASSUME Inv, [Next]_vars PROVE Inv'
  OBVIOUS
<1>1. ASSUME NEW h \in Clientes, Pedido(h) PROVE Inv'
  <2>1. ClientesBien' /\ UNCHANGED <<listas, comp>> /\ solapadas \subseteq solapadas'
    BY <1>1, PedidoClientes
  <2>2. Tipos' /\ EntradasBien' /\ HilosBien'
    BY <2>1, ListasQuietas DEF Inv, Tipos
  <2> QED BY <2>1, <2>2 DEF Inv
<1>2. ASSUME NEW h \in Clientes, Atender(h) PROVE Inv'
  <2>1. ClientesBien' /\ solapadas \subseteq solapadas'
    BY <1>2, AtenderClientes, SiguenBien DEF ClientesSiguen
  <2>2. CASE Anotar(h)
    BY <2>1, <2>2, AnotarBien DEF Inv
  <2>3. CASE Sacar(h)
    BY <2>1, <2>3, SacarBien DEF Inv
  <2>4. CASE UNCHANGED <<listas, comp>>
    <3>1. Tipos' /\ EntradasBien' /\ HilosBien'
      BY <2>1, <2>4, ListasQuietas DEF Inv, Tipos
    <3> QED BY <2>1, <3>1 DEF Inv
  <2> QED BY <1>2, <2>2, <2>3, <2>4, AtenderClientes
<1>3. CASE Dump \/ Apagar
  <2>1. ClientesSiguen /\ UNCHANGED <<listas, comp>>
    <3>1. CASE Dump
      BY <3>1, DumpClientes
    <3>2. CASE Apagar
      BY <3>2, CaerClientes DEF Apagar
    <3> QED BY <1>3, <3>1, <3>2
  <2>2. Tipos' /\ EntradasBien' /\ HilosBien'
    BY <2>1, ListasQuietas DEF Inv, Tipos, ClientesSiguen
  <2> QED BY <2>1, <2>2, SiguenBien DEF Inv
<1>4. ASSUME NEW e \in Entradas, Compactacion(e) PROVE Inv'
  BY <1>4, CompactacionBien, SiguenBien DEF Inv
<1>5. CASE Reiniciar
  <2>1. directorios \in SUBSET Tablas
    BY DEF Inv, ClientesBien
  <2>2. /\ listaDeTablas' = ListaDe(SetToSeq(directorios))
        /\ mutex' = MutexDe(SetToSeq(directorios))
        /\ comp' = HilosDe(SetToSeq(directorios))
        /\ cl' = [h \in Clientes |-> Libre] /\ directorios' = directorios
        /\ solapadas' = solapadas
    BY <1>5 DEF Reiniciar, disco
  <2>3. Tipos' /\ EntradasBien' /\ HilosBien'
    BY <2>1, <2>2, ArranqueDeNuevo
  <2>4. ClientesSiguen
    BY <2>1, <2>2 DEF ClientesSiguen, TieneUltima, Libre, CamposCl
  <2> QED BY <2>3, <2>4, SiguenBien DEF Inv
<1>6. CASE UNCHANGED vars
  <2>1. ClientesSiguen /\ UNCHANGED <<listas, comp>>
    BY <1>6, QuietosSiguen DEF vars, disco, listas, historia
  <2>2. Tipos' /\ EntradasBien' /\ HilosBien'
    BY <2>1, ListasQuietas DEF Inv, Tipos, ClientesSiguen
  <2> QED BY <2>1, <2>2, SiguenBien DEF Inv
<1> QED BY <1>1, <1>2, <1>3, <1>4, <1>5, <1>6 DEF Next

\* Two threads never compact one table at once, however many entries and
\* threads two CREATEs at once have left it with, unless the table was dropped or
\* an entry of it was cut off the list by the list_add of another CREATE
\* (compactacion, and the mutex each of its threads has looked up).
THEOREM UnaCompactacionPorTabla == Spec => []UnaCompactacion
<1>1. Init => Inv
  BY InitInv
<1>2. Inv /\ [Next]_vars => Inv'
  BY PasoInv
<1>3. Inv => UnaCompactacion
  BY InvUna
<1> QED BY <1>1, <1>2, <1>3, PTL DEF Spec

-----------------------------------------------------------------------------
(* Which steps change what. *)

Muerte == \E motivo : Caer(motivo)

LEMMA CambiosAtender ==
  ASSUME NEW h \in Clientes, Atender(h)
  PROVE  \/ Muerte
         \/ /\ UNCHANGED <<dump, tiempo, fallas>>
            /\ UNCHANGED diccionario \/ Poner(h) \/ Enlazar(h)
            /\ UNCHANGED elementos \/ Poner(h) \/ Sumar(h)
            /\ UNCHANGED vieja \/ Poner(h)
            /\ UNCHANGED <<directorios, metadatas>> \/ Mkdir(h) \/ CrearMetadata(h)
                 \/ BorrarArchivos(h) \/ QuitarDirectorio(h)
            /\ UNCHANGED <<tmp, tmpc>> \/ BorrarArchivos(h)
            /\ UNCHANGED bin \/ BorrarArchivos(h) \/ CrearParticiones(h)
            /\ UNCHANGED comp \/ Anotar(h)
            /\ UNCHANGED listas \/ Anotar(h) \/ Sacar(h)
            /\ UNCHANGED confirmados \/ Sumar(h)
            /\ UNCHANGED dispensados \/ Poner(h) \/ Enlazar(h) \/ Sumar(h) \/ CrearParticiones(h)
            /\ UNCHANGED solapadas \/ Anotar(h)
            /\ UNCHANGED cortadas \/ CrearParticiones(h)
BY ZenonT(60) DEF Atender, Muerte, Morir, cuenta, disco, listas, historia, lectura, Poner, Agregar, AgregarSinLista,
  Enlazar, Sumar, EnlazarLiberado,
  Compuerta, SelectMuere, LeerBin, ListarTmp, LeerTmp, MirarMemtable, Filtrar, Responder,
  Mkdir, CrearMetadata, CrearParticiones, Ingresar, Anotar, AnotarLiberado,
  BorrarArchivos, QuitarDirectorio, Sacar, TablaMuere

LEMMA CambiosDump ==
  ASSUME Dump
  PROVE  \/ Muerte
         \/ /\ UNCHANGED <<directorios, metadatas, tmpc, bin, comp, tiempo, fallas, listas, confirmados, cortadas>>
            /\ UNCHANGED <<diccionario, elementos>> \/ Limpiar
            /\ UNCHANGED vieja \/ Limpiar \/ \E t \in Tablas : Contar(t)
            /\ UNCHANGED cl \/ Limpiar
            /\ UNCHANGED tmp \/ Crear \/ Guardar \/ Escribir
            /\ UNCHANGED <<dispensados, solapadas>> \/ \E t \in Tablas : Contar(t)
BY ZenonT(60) DEF Dump, Muerte, Morir, vars, cuenta, disco, listas, historia, lectura, DumpSinNada, DumpDespertar, Contar, ContarSinTabla,
   Crear, Guardar, Escribir, DumpMuere, Limpiar

LEMMA CambiosComp ==
  ASSUME NEW e \in Entradas, Compactacion(e)
  PROVE  \/ Muerte
         \/ /\ UNCHANGED <<directorios, metadatas, diccionario, cuenta, cl, dump, tiempo, fallas, confirmados, dispensados, listaDeTablas>>
            /\ UNCHANGED tmp \/ Renombrar(e)
            /\ UNCHANGED tmpc \/ Renombrar(e) \/ BorrarTmpc(e)
            /\ UNCHANGED bin \/ BorrarBin(e) \/ CrearBin(e) \/ EscribirBin(e)
            /\ UNCHANGED mutex \/ Tomar(e) \/ Soltar(e)
            /\ UNCHANGED solapadas \/ Tomar(e)
            /\ UNCHANGED cortadas \/ CrearBin(e)
BY ZenonT(60) DEF Compactacion, Muerte, Morir, disco, listas, historia, lectura, Nacer, CompDespertar, Tomar, Renombrar,
   LevantarClaves, BorrarTmpc, BorrarBin, CrearBin, EscribirBin, GuardarBin, CompMuere, Soltar

LEMMA CambiosPedido ==
  ASSUME NEW h \in Clientes, Pedido(h)
  PROVE  /\ UNCHANGED <<diccionario, cuenta, directorios, metadatas, tmp, tmpc, bin, comp, dump,
                         fallas, confirmados, dispensados, cortadas>>
         /\ UNCHANGED listas
         /\ UNCHANGED tiempo \/ \E t \in Tablas, k \in Claves : Insert(h, t, k)
         /\ UNCHANGED solapadas \/ \E t \in Tablas : Drop(h, t)
BY ZenonT(60) DEF Pedido, disco, historia, lectura, Insert, Select, Create, Drop

\* Anotar takes an entry that was never in use.
LEMMA EntradaNueva ==
  ASSUME NEW h \in Clientes, Anotar(h)
  PROVE  \E e \in Entradas : /\ mutex[e] = "nunca"
                             /\ mutex' = [mutex EXCEPT ![e] = "libre"]
                             /\ listaDeTablas' = IF cl[h].suLista = "vigente"
                                  THEN Append(SubSeq(listaDeTablas, 1, cl[h].ultimo), <<cl[h].t, e>>)
                                  ELSE listaDeTablas
                             /\ comp' = [comp EXCEPT ![e] = Hilo("nace", cl[h].t)]
<1> DEFINE libres == {x \in Entradas : mutex[x] = "nunca"}
<1>1. /\ libres # {}
      /\ mutex' = [mutex EXCEPT ![Min(libres)] = "libre"]
      /\ listaDeTablas' = IF cl[h].suLista = "vigente"
           THEN Append(SubSeq(listaDeTablas, 1, cl[h].ultimo), <<cl[h].t, Min(libres)>>)
           ELSE listaDeTablas
      /\ comp' = [comp EXCEPT ![Min(libres)] = Hilo("nace", cl[h].t)]
  BY DEF Anotar
<1>2. libres \in SUBSET (1..MaxEntradas) /\ MaxEntradas \in Nat
  BY ConstantesValidas DEF Entradas
<1>3. Min(libres) \in libres
  <2> HIDE DEF libres
  <2> QED BY <1>1, <1>2, PrimeraPosicion
<1> QED BY <1>1, <1>3

-----------------------------------------------------------------------------
(* The types. *)

TCl ==
  [pc : PasosCliente, t : Tablas \cup {Nulo}, k : Claves \cup {0},
   reg : Registros \cup {Nulo}, error : BOOLEAN, ultimo : Nat,
   suLista : {"vigente", "cortada", "reemplazada", "liberada"},
   entrada : Entradas \cup {0}, visto : Registros \cup {Nulo},
   vistos : SUBSET Numeros]
TDump ==
  [pc : PasosDump, tablas : SUBSET Tablas, hechas : SUBSET Tablas,
   t : Tablas \cup {Nulo}, numero : Numeros, posicion : 0..(TopeUint8 - 1),
   escritos : Seq(Registros)]
THilo ==
  [pc : PasosComp, t : Tablas \cup {Nulo}, mutex : Entradas \cup {0},
   porRenombrar : SUBSET Numeros, claves : Seq(Registros), j : Nat \ {0}]

\* A thread that has not ended has a table.
TComp == {c \in THilo : c.pc # "fin" => c.t \in Tablas}

TipoMem == diccionario \in [Tablas -> Seq(Registros) \cup {SinLista}]
TipoCuenta == elementos \in [Tablas -> Nat] /\ vieja \in Seq(Registros) \cup {SinLista}
TipoDir == directorios \subseteq Tablas /\ metadatas \subseteq directorios
TipoTmp == tmp \in [Tablas -> [Numeros -> Archivo]]
TipoTmpc == tmpc \in [Tablas -> [Numeros -> Archivo]]
TipoBin == bin \in [Tablas -> [NumerosBin -> Archivo]]
TipoComp == comp \in [Entradas -> TComp]
TipoTiempo ==
  reloj \in 1..MaxReloj /\ cuantos \in 0..MaxRegistros /\ apagones \in 0..Apagones

\* A thread on its way to the list has the record; one that has found the last
\* node of the list that is there, has it in the list.
EnElInsert == {"poner", "agregar", "enlazar", "contar"}
TipoCl ==
  /\ cl \in [Clientes -> TCl]
  /\ \A h \in Clientes :
       /\ cl[h].pc \in EnElInsert => cl[h].reg \in Registros
       /\ cl[h].pc = "enlazar" /\ cl[h].suLista = "vigente" =>
            diccionario[cl[h].t] \in Seq(Registros) /\ cl[h].ultimo <= Len(diccionario[cl[h].t])

\* The list it is writing is one, whichever that is by now.
EnVolcado == {"crear", "guardar", "escribir"}
TipoDump ==
  /\ dump \in TDump
  /\ dump.pc \in EnVolcado => dump.t \in Tablas
  /\ dump.pc = "escribir" => dump.posicion > 0
ListaVolcada == dump.pc \in EnVolcado => diccionario[dump.t] \in Seq(Registros)

Tipado ==
  /\ Inv
  /\ TipoMem /\ TipoCuenta /\ TipoDir /\ TipoTmp /\ TipoTmpc /\ TipoBin /\ TipoComp /\ TipoTiempo
  /\ TipoCl /\ TipoDump /\ ListaVolcada

LEMMA TipadoTypeOK == Tipado => TypeOK
BY DEF Tipado, TypeOK, Inv, Tipos, TipoMem, TipoCuenta, TipoDir, TipoTmp, TipoTmpc, TipoBin, TipoComp, TipoTiempo,
   TipoCl, TipoDump, TCl, TDump, TComp, THilo

LEMMA Constantes ==
  /\ TopeUint8 \in Nat \ {0} /\ MaxTmp \in Nat \ {0} /\ MaxReloj \in Nat \ {0}
  /\ MaxEntradas \in Nat \ {0} /\ MaxRegistros \in Nat /\ Apagones \in Nat
  /\ Particiones \in Nat \ {0} /\ Claves \subseteq Nat
  /\ Nulo \notin Registros /\ NoExiste \notin Seq(Registros) /\ SinLista \notin Seq(Registros)
BY ConstantesValidas

LEMMA HilosTipo ==
  ASSUME NEW D \in SUBSET Tablas
  PROVE  HilosDe(SetToSeq(D)) \in [Entradas -> TComp]
<1> DEFINE s == SetToSeq(D)
<1>1. s \in [1..Cardinality(D) -> D]
  BY SonPocas
<1> HIDE DEF s
<1>2. \A t \in Tablas : Hilo("nace", t) \in TComp
  BY DEF Hilo, THilo, TComp, PasosComp
<1>3. Hilo("fin", Nulo) \in TComp
  BY DEF Hilo, THilo, TComp, PasosComp
<1>4. \A e \in Entradas : (IF e \in DOMAIN s THEN Hilo("nace", s[e]) ELSE Hilo("fin", Nulo)) \in TComp
  BY <1>1, <1>2, <1>3
<1> QED BY <1>4 DEF HilosDe, s

LEMMA InitTipado == Init => Tipado
<1> SUFFICES ASSUME Init PROVE Tipado
  OBVIOUS
<1>1. Inv
  BY InitInv
<1>2. TipoMem /\ TipoCuenta /\ TipoDir /\ TipoTmp /\ TipoTmpc /\ TipoTiempo
  BY Constantes, ConstantesValidas
     DEF Init, TipoMem, TipoCuenta, TipoDir, TipoTmp, TipoTmpc, TipoTiempo, Archivo
<1>3. TipoBin
  BY DEF Init, TipoBin, Archivo
<1>4. TipoCl
  BY DEF Init, TipoCl, TCl, Libre, PasosCliente, EnElInsert
<1>5. TipoDump /\ ListaVolcada
  BY Constantes DEF Init, TipoDump, ListaVolcada, EnVolcado, TDump, DumpDormido, PasosDump, Numeros
<1>6. TipoComp
  <2>1. EnDisco \in SUBSET Tablas
    BY ConstantesValidas
  <2> QED BY <2>1, HilosTipo DEF Init, TipoComp
<1> QED BY <1>1, <1>2, <1>3, <1>4, <1>5, <1>6 DEF Tipado

-----------------------------------------------------------------------------
(* insertarRegistroEnLaLista, levantarClavesDe. *)

\* InsertarRegistro leaves a list of records.
LEMMA InsertarTipo ==
  ASSUME NEW lista \in Seq(Registros), NEW r \in Registros
  PROVE  InsertarRegistro(lista, r) \in Seq(Registros)
<1> DEFINE I == {i \in 1..Len(lista) : lista[i].key = r.key}
           i == SelectInSeq(lista, LAMBDA q : q.key = r.key)
<1>1. Len(lista) \in Nat
  BY LenProperties
<1>2. CASE I = {}
  <2>1. i = 0
    BY <1>2 DEF SelectInSeq
  <2> HIDE DEF i
  <2>2. InsertarRegistro(lista, r) = Append(lista, r)
    BY <2>1 DEF InsertarRegistro, i
  <2> QED BY <2>2
<1>3. CASE I # {}
  <2>1. i = Min(I)
    BY <1>3 DEF SelectInSeq
  <2>2. I \in SUBSET (1..Len(lista))
    OBVIOUS
  <2>3. Min(I) \in I
    <3> HIDE DEF I
    <3> QED BY <1>1, <1>3, <2>2, PrimeraPosicion
  <2>4. i \in 1..Len(lista) /\ lista[i].key = r.key
    BY <2>1, <2>3
  <2> HIDE DEF i, I
  <2>5. InsertarRegistro(lista, r) =
          Append(RemoveAt(lista, i), IF lista[i].timestamp > r.timestamp THEN lista[i] ELSE r)
    <3>1. i # 0
      BY <2>4
    <3> QED BY <3>1 DEF InsertarRegistro, i
  <2>6. RemoveAt(lista, i) \in Seq(Registros) /\ lista[i] \in Registros
    BY <2>4, RemoveAtProps
  <2> QED BY <2>5, <2>6
<1> QED BY <1>2, <1>3

EsLevantada(g, claves, s, n) ==
  g = [i \in 0..n |-> IF i = 0 THEN claves ELSE InsertarRegistro(g[i-1], s[i])]

LEMMA HayLevantada == \A claves, s, n : n \in Nat => \E g : EsLevantada(g, claves, s, n)
<1> SUFFICES ASSUME NEW claves, NEW s PROVE \A n \in Nat : \E g : EsLevantada(g, claves, s, n)
  OBVIOUS
<1> DEFINE Malos == {n \in Nat : ~\E g : EsLevantada(g, claves, s, n)}
<1> SUFFICES ASSUME Malos # {} PROVE FALSE
  OBVIOUS
<1>1. Malos \in SUBSET Nat
  OBVIOUS
<1>2. PICK n \in Malos : \A y \in Malos : n <= y
  <2> HIDE DEF Malos
  <2> QED BY <1>1, MinimoNatural
<1>3. CASE n = 0
  <2>1. EsLevantada([i \in 0..0 |-> claves], claves, s, 0)
    BY DEF EsLevantada
  <2> QED BY <1>2, <1>3, <2>1
<1>4. CASE n # 0
  <2>1. n - 1 \in Nat /\ ~(n <= n - 1) /\ (n-1)+1 = n
    BY <1>2, <1>4
  <2>2. PICK g : EsLevantada(g, claves, s, n-1)
    BY <1>2, <2>1
  <2> DEFINE f == [i \in 0..n |-> IF i = n THEN InsertarRegistro(g[n-1], s[n]) ELSE g[i]]
  <2>3. ASSUME NEW i \in 0..n
        PROVE  f[i] = IF i = 0 THEN claves ELSE InsertarRegistro(f[i-1], s[i])
    <3>1. CASE i = n
      <4>1. f[i] = InsertarRegistro(g[n-1], s[n]) /\ f[n-1] = g[n-1]
        BY <2>1, <3>1
      <4> HIDE DEF f
      <4> QED BY <1>4, <3>1, <4>1
    <3>2. CASE i # n
      <4>1. i \in 0..n-1 /\ f[i] = g[i]
        BY <2>1, <3>2
      <4>2. g[i] = IF i = 0 THEN claves ELSE InsertarRegistro(g[i-1], s[i])
        BY <2>2, <4>1 DEF EsLevantada
      <4>3. i # 0 => f[i-1] = g[i-1]
        BY <4>1
      <4> HIDE DEF f
      <4> QED BY <4>1, <4>2, <4>3
    <3> QED BY <3>1, <3>2
  <2>4. f = [i \in 0..n |-> f[i]]
    OBVIOUS
  <2> HIDE DEF f
  <2>5. f = [i \in 0..n |-> IF i = 0 THEN claves ELSE InsertarRegistro(f[i-1], s[i])]
    BY <2>3, <2>4
  <2>6. EsLevantada(f, claves, s, n)
    BY <2>5 DEF EsLevantada
  <2> QED BY <1>2, <2>6
<1> QED BY <1>3, <1>4

\* What is left after each record.
LEMMA PasosDeLevantar ==
  ASSUME NEW claves, NEW s \in Seq(Registros)
  PROVE  \E g : /\ g[0] = claves /\ g[Len(s)] = Levantar(claves, s)
                /\ \A i \in 1..Len(s) : g[i] = InsertarRegistro(g[i-1], s[i])
<1>1. Len(s) \in Nat
  BY LenProperties
<1> DEFINE g == CHOOSE x : EsLevantada(x, claves, s, Len(s))
<1>2. EsLevantada(g, claves, s, Len(s))
  BY <1>1, HayLevantada
<1>3. Levantar(claves, s) = g[Len(s)]
  BY DEF Levantar, EsLevantada
<1> HIDE DEF g
<1>4. /\ g[0] = claves
      /\ \A i \in 1..Len(s) : g[i] = InsertarRegistro(g[i-1], s[i])
  BY <1>1, <1>2 DEF EsLevantada
<1> QED BY <1>3, <1>4

LEMMA LevantarTipo ==
  ASSUME NEW claves \in Seq(Registros), NEW s \in Seq(Registros)
  PROVE  Levantar(claves, s) \in Seq(Registros)
<1>1. Len(s) \in Nat
  BY LenProperties
<1>2. PICK g : /\ g[0] = claves /\ g[Len(s)] = Levantar(claves, s)
               /\ \A i \in 1..Len(s) : g[i] = InsertarRegistro(g[i-1], s[i])
  BY PasosDeLevantar
<1> DEFINE Malos == {n \in 0..Len(s) : g[n] \notin Seq(Registros)}
<1>3. SUFFICES ASSUME Malos # {} PROVE FALSE
  BY <1>1, <1>2
<1>4. PICK n \in Malos : \A y \in Malos : n <= y
  <2>1. Malos \in SUBSET Nat
    BY <1>1
  <2> HIDE DEF Malos
  <2> QED BY <1>3, <2>1, MinimoNatural
<1>5. n \in 1..Len(s) /\ n-1 \in 0..Len(s) /\ ~(n <= n-1)
  BY <1>1, <1>2, <1>4
<1>6. g[n-1] \in Seq(Registros) /\ s[n] \in Registros
  BY <1>4, <1>5
<1> QED BY <1>2, <1>4, <1>5, <1>6, InsertarTipo

-----------------------------------------------------------------------------
(* The records of some files, one file after the other. *)

EsConcatenada(g, ss, n) ==
  g = [i \in 1..n |-> IF i = 1 THEN ss[i] ELSE g[i-1] \o ss[i]]

LEMMA HayConcatenada == \A ss, n : n \in Nat => \E g : EsConcatenada(g, ss, n)
<1> SUFFICES ASSUME NEW ss PROVE \A n \in Nat : \E g : EsConcatenada(g, ss, n)
  OBVIOUS
<1> DEFINE Malos == {n \in Nat : ~\E g : EsConcatenada(g, ss, n)}
<1> SUFFICES ASSUME Malos # {} PROVE FALSE
  OBVIOUS
<1>1. Malos \in SUBSET Nat
  OBVIOUS
<1>2. PICK n \in Malos : \A y \in Malos : n <= y
  <2> HIDE DEF Malos
  <2> QED BY <1>1, MinimoNatural
<1>3. CASE n = 0
  <2>1. EsConcatenada([i \in 1..0 |-> ss], ss, 0)
    BY DEF EsConcatenada
  <2> QED BY <1>2, <1>3, <2>1
<1>4. CASE n # 0
  <2>1. n \in Nat /\ n - 1 \in Nat /\ ~(n <= n - 1) /\ (n-1)+1 = n
    BY <1>2, <1>4
  <2>2. PICK g : EsConcatenada(g, ss, n-1)
    BY <1>2, <2>1
  <2> DEFINE v == IF n = 1 THEN ss[1] ELSE g[n-1] \o ss[n]
             f == [i \in 1..n |-> IF i < n THEN g[i] ELSE v]
  <2> HIDE DEF v
  <2>3. ASSUME NEW i \in 1..n
        PROVE  f[i] = IF i = 1 THEN ss[i] ELSE f[i-1] \o ss[i]
    <3>1. CASE i = n /\ n = 1
      <4>1. f[i] = v
        BY <2>1, <3>1
      <4> HIDE DEF f
      <4> QED BY <3>1, <4>1 DEF v
    <3>2. CASE i = n /\ n # 1
      <4>1. n-1 \in 1..n /\ n-1 < n /\ n \in 1..n
        BY <2>1, <3>2
      <4>2. f[n] = v
        BY <3>2, <4>1
      <4>3. f[n-1] = g[n-1]
        BY <4>1
      <4> HIDE DEF f
      <4> QED BY <3>2, <4>2, <4>3 DEF v
    <3>3. CASE i # n
      <4>1. i \in 1..n-1 /\ f[i] = g[i]
        BY <2>1, <3>3
      <4>2. g[i] = IF i = 1 THEN ss[i] ELSE g[i-1] \o ss[i]
        BY <2>2, <4>1 DEF EsConcatenada
      <4>3. i # 1 => f[i-1] = g[i-1]
        BY <4>1
      <4> HIDE DEF f
      <4> QED BY <4>1, <4>2, <4>3
    <3> QED BY <3>1, <3>2, <3>3
  <2>4. f = [i \in 1..n |-> f[i]]
    OBVIOUS
  <2> HIDE DEF f
  <2>5. f = [i \in 1..n |-> IF i = 1 THEN ss[i] ELSE f[i-1] \o ss[i]]
    BY <2>3, <2>4
  <2>6. EsConcatenada(f, ss, n)
    BY <2>5 DEF EsConcatenada
  <2> QED BY <1>2, <2>6
<1> QED BY <1>3, <1>4

LEMMA JuntarConjuntos ==
  ASSUME NEW T, NEW a \in Seq(T), NEW b \in Seq(T)
  PROVE  a \o b \in Seq(T) /\ ToSet(a \o b) = ToSet(a) \cup ToSet(b)
<1>1. /\ a \o b \in Seq(T) /\ Len(a \o b) = Len(a) + Len(b)
      /\ Len(a) \in Nat /\ Len(b) \in Nat
      /\ \A i \in 1..Len(a) : (a \o b)[i] = a[i]
      /\ \A i \in 1..Len(b) : (a \o b)[Len(a) + i] = b[i]
  BY ConcatProperties, LenProperties
<1> DEFINE c == a \o b
<1>2. DOMAIN a = 1..Len(a) /\ DOMAIN b = 1..Len(b) /\ DOMAIN c = 1..Len(c)
  BY <1>1, LenProperties
<1> HIDE DEF c
<1>3. ASSUME NEW i \in 1..Len(c) PROVE c[i] \in ToSet(a) \cup ToSet(b)
  <2>1. CASE i \in 1..Len(a)
    BY <1>1, <1>2, <2>1 DEF ToSet, c
  <2>2. CASE i \notin 1..Len(a)
    <3>1. i - Len(a) \in 1..Len(b) /\ Len(a) + (i - Len(a)) = i
      BY <1>1, <2>2 DEF c
    <3> QED BY <1>1, <1>2, <3>1 DEF ToSet, c
  <2> QED BY <2>1, <2>2
<1>4. \A i \in 1..Len(a) : i \in 1..Len(c) /\ c[i] = a[i]
  BY <1>1 DEF c
<1>5. \A i \in 1..Len(b) : Len(a) + i \in 1..Len(c) /\ c[Len(a) + i] = b[i]
  BY <1>1 DEF c
<1>6. ToSet(c) \subseteq ToSet(a) \cup ToSet(b)
  BY <1>2, <1>3 DEF ToSet
<1>7. ToSet(a) \subseteq ToSet(c)
  BY <1>2, <1>4 DEF ToSet
<1>8. ToSet(b) \subseteq ToSet(c)
  BY <1>2, <1>5 DEF ToSet
<1> QED BY <1>1, <1>6, <1>7, <1>8 DEF c

LEMMA PasosDeConcatenar ==
  ASSUME NEW ss, Len(ss) \in Nat \ {0}
  PROVE  \E g : /\ g[1] = ss[1] /\ g[Len(ss)] = FlattenSeq(ss)
                /\ \A i \in 2..Len(ss) : g[i] = g[i-1] \o ss[i]
<1> DEFINE g == CHOOSE x : EsConcatenada(x, ss, Len(ss))
<1>1. EsConcatenada(g, ss, Len(ss))
  BY HayConcatenada
<1>2. FlattenSeq(ss) = g[Len(ss)]
  BY DEF FlattenSeq, EsConcatenada
<1> HIDE DEF g
<1>3. g[1] = ss[1]
  BY <1>1 DEF EsConcatenada
<1>4. ASSUME NEW i \in 2..Len(ss) PROVE g[i] = g[i-1] \o ss[i]
  <2>1. i \in 1..Len(ss) /\ i # 1
    OBVIOUS
  <2> QED BY <1>1, <2>1 DEF EsConcatenada
<1> QED BY <1>2, <1>3, <1>4

\* FlattenSeq gives a list of records with those of every list.
LEMMA ConcatenarBien ==
  ASSUME NEW ss \in Seq(Seq(Registros))
  PROVE  /\ FlattenSeq(ss) \in Seq(Registros)
         /\ \A i \in 1..Len(ss) : ToSet(ss[i]) \subseteq ToSet(FlattenSeq(ss))
<1>1. Len(ss) \in Nat /\ \A i \in 1..Len(ss) : ss[i] \in Seq(Registros)
  OBVIOUS
<1>2. CASE Len(ss) = 0
  <2>1. FlattenSeq(ss) = ss /\ ss = <<>>
    BY <1>2 DEF FlattenSeq
  <2> QED BY <1>2, <2>1
<1>3. CASE Len(ss) # 0
  <2>1. PICK g : /\ g[1] = ss[1] /\ g[Len(ss)] = FlattenSeq(ss)
                 /\ \A i \in 2..Len(ss) : g[i] = g[i-1] \o ss[i]
    BY <1>1, <1>3, PasosDeConcatenar
  <2> DEFINE Bien(n) == /\ g[n] \in Seq(Registros)
                        /\ \A i \in 1..n : ToSet(ss[i]) \subseteq ToSet(g[n])
             Malos == {n \in 1..Len(ss) : ~Bien(n)}
  <2>2. SUFFICES ASSUME Malos # {} PROVE FALSE
    <3>1. Len(ss) \in 1..Len(ss)
      BY <1>1, <1>3
    <3>2. Malos = {} => Bien(Len(ss))
      <4> HIDE DEF Bien
      <4> QED BY <3>1
    <3> QED BY <2>1, <3>2
  <2>3. PICK n \in Malos : \A y \in Malos : n <= y
    <3>1. Malos \in SUBSET Nat
      BY <1>1
    <3> HIDE DEF Malos
    <3> QED BY <2>2, <3>1, MinimoNatural
  <2>4. n \in 1..Len(ss) /\ ~Bien(n)
    OBVIOUS
  <2>5. n # 1
    <3>1. Bien(1)
      <4>1. \A i \in 1..1 : i = 1
        OBVIOUS
      <4>2. 1 \in 1..Len(ss)
        BY <1>1, <1>3
      <4> QED BY <1>1, <2>1, <4>1, <4>2
    <3> QED BY <2>4, <3>1
  <2>6. n-1 \in 1..Len(ss) /\ ~(n <= n-1) /\ n \in 2..Len(ss)
    BY <1>1, <2>4, <2>5
  <2>7. Bien(n-1)
    BY <2>3, <2>6
  <2>8. g[n] = g[n-1] \o ss[n] /\ ss[n] \in Seq(Registros)
    BY <1>1, <2>1, <2>4, <2>6
  <2>9. g[n] \in Seq(Registros) /\ ToSet(g[n]) = ToSet(g[n-1]) \cup ToSet(ss[n])
    <3>1. PICK a : a = g[n-1]
      OBVIOUS
    <3>2. PICK b : b = ss[n]
      OBVIOUS
    <3>3. a \in Seq(Registros) /\ b \in Seq(Registros)
      BY <2>7, <2>8, <3>1, <3>2
    <3>4. a \o b \in Seq(Registros) /\ ToSet(a \o b) = ToSet(a) \cup ToSet(b)
      BY <3>3, JuntarConjuntos
    <3> QED BY <2>8, <3>1, <3>2, <3>4
  <2>10. \A i \in 1..n : i \in 1..n-1 \/ i = n
    BY <2>4
  <2>11. Bien(n)
    BY <2>7, <2>9, <2>10
  <2> QED BY <2>4, <2>11
<1> QED BY <1>2, <1>3

\* In whatever order they are read, all the records of the files are.
LEMMA ContenidosBien ==
  ASSUME NEW D, IsFiniteSet(D), NEW archivos \in [D -> Archivo],
         NEW s \in Contenidos(archivos)
  PROVE  s \in Seq(Registros) /\ EnArchivos(archivos) \subseteq ToSet(s)
<1> DEFINE hay == Existentes(archivos)
           m == Cardinality(hay)
<1>1. hay \subseteq D /\ \A n \in hay : archivos[n] \in Seq(Registros)
  BY DEF Existentes, Archivo
<1>2. IsFiniteSet(hay)
  BY <1>1, FS_Subset
<1>3. m \in Nat
  BY <1>2, FS_CardinalityType
<1> HIDE DEF m
<1>4. PICK o \in [1..m -> hay] :
        /\ \A i, n \in 1..m : i # n => o[i] # o[n]
        /\ s = FlattenSeq([i \in DOMAIN o |-> archivos[o[i]]])
  BY DEF Contenidos, SetToSeqs, m
<1>5. ASSUME NEW n \in hay PROVE \E i \in 1..m : o[i] = n
  <2>1. o \in Injection(1..m, hay)
    BY <1>4 DEF Injection, IsInjective
  <2>2. Cardinality(1..m) = m
    <3>2. CASE m = 0
      <4>1. 1..m = {}
        BY <3>2
      <4> QED BY <3>2, <4>1, FS_EmptySet
    <3>3. CASE m # 0
      <4>1. 1 \in Int /\ m \in Int
        BY <1>3
      <4>2. Cardinality(1..m) = IF 1 > m THEN 0 ELSE m - 1 + 1
        BY <4>1, FS_Interval, Zenon
      <4> QED BY <1>3, <3>3, <4>2
    <3> QED BY <3>2, <3>3
  <2>3. o \in Surjection(1..m, hay)
    BY <1>2, <2>1, <2>2, FS_Injection DEF m
  <2> QED BY <2>3 DEF Surjection
<1> DEFINE ss == [i \in 1..m |-> archivos[o[i]]]
<1>6. ss \in Seq(Seq(Registros)) /\ Len(ss) = m
  <2>1. ss \in [1..m -> Seq(Registros)]
    BY <1>1, <1>4
  <2> HIDE DEF ss
  <2> QED BY <1>3, <2>1
<1>7. s = FlattenSeq(ss)
  BY <1>4
<1>8. \A i \in 1..m : ss[i] = archivos[o[i]]
  OBVIOUS
<1> HIDE DEF ss
<1>9. s \in Seq(Registros) /\ \A i \in 1..m : ToSet(ss[i]) \subseteq ToSet(s)
  BY <1>6, <1>7, ConcatenarBien
<1>10. ASSUME NEW r \in EnArchivos(archivos) PROVE r \in ToSet(s)
  <2>1. PICK n \in hay : r \in ToSet(archivos[n])
    BY DEF EnArchivos
  <2>2. PICK i \in 1..m : o[i] = n
    BY <1>5
  <2> QED BY <1>8, <1>9, <2>1, <2>2
<1> QED BY <1>9, <1>10

LEMMA HayFinitos ==
  /\ IsFiniteSet(Numeros) /\ Cardinality(Numeros) = MaxTmp
  /\ IsFiniteSet(NumerosBin)
<1>1. 0 \in Int /\ MaxTmp - 1 \in Int /\ Particiones - 1 \in Int
  BY Constantes
<1>2. /\ IsFiniteSet(0..(MaxTmp - 1)) /\ IsFiniteSet(0..(Particiones - 1))
      /\ Cardinality(0..(MaxTmp - 1)) = IF 0 > MaxTmp - 1 THEN 0 ELSE MaxTmp - 1 - 0 + 1
  BY <1>1, FS_Interval, Zenon
<1> QED BY <1>2, Constantes DEF Numeros, NumerosBin

-----------------------------------------------------------------------------
(* Each variable keeps its type. *)

\* What escanearArchivo finds of a key, if there is one.
LEMMA Hallados ==
  ASSUME NEW s \in Seq(Registros), NEW k
  PROVE  \E a, b \in 0..Len(s) :
           /\ PrimeroDe(s, k) = IF a = 0 THEN Nulo ELSE s[a]
           /\ UltimoDe(s, k) = IF b = 0 THEN Nulo ELSE s[b]
           /\ (a # 0 => s[a].key = k) /\ (b # 0 => s[b].key = k)
           /\ (\E i \in 1..Len(s) : s[i].key = k) => a # 0 /\ b # 0
<1> DEFINE I == {i \in 1..Len(s) : s[i].key = k}
           a == SelectInSeq(s, LAMBDA r : r.key = k)
           b == SelectLastInSeq(s, LAMBDA r : r.key = k)
<1>1. Len(s) \in Nat /\ I \in SUBSET (1..Len(s))
  BY LenProperties
<1>2. a = (IF I # {} THEN Min(I) ELSE 0) /\ b = (IF I # {} THEN Max(I) ELSE 0)
  BY DEF SelectInSeq, SelectLastInSeq
<1>3. I # {} => Min(I) \in I
  <2> HIDE DEF I
  <2> QED BY <1>1, PrimeraPosicion
<1>4. I # {} => Max(I) \in I
  <2>1. 1 \in Int /\ Len(s) \in Int
    BY <1>1
  <2>2. IsFiniteSet(1..Len(s))
    BY <2>1, FS_Interval, Zenon
  <2>3. IsFiniteSet(I) /\ I \in SUBSET Int
    BY <1>1, <2>2, FS_Subset
  <2> HIDE DEF I
  <2> QED BY <2>3, MaximoExiste
<1>5. /\ a \in 0..Len(s) /\ (a # 0 => s[a].key = k)
      /\ (\E i \in 1..Len(s) : s[i].key = k) => a # 0
  BY <1>1, <1>2, <1>3
<1>6. /\ b \in 0..Len(s) /\ (b # 0 => s[b].key = k)
      /\ (\E i \in 1..Len(s) : s[i].key = k) => b # 0
  BY <1>1, <1>2, <1>4
<1> HIDE DEF a, b, I
<1>7. PrimeroDe(s, k) = IF a = 0 THEN Nulo ELSE s[a]
  BY DEF PrimeroDe, a
<1>8. UltimoDe(s, k) = IF b = 0 THEN Nulo ELSE s[b]
  BY DEF UltimoDe, b
<1> QED BY <1>5, <1>6, <1>7, <1>8

LEMMA LectoresTipo ==
  ASSUME NEW s \in Seq(Registros), NEW k
  PROVE  /\ PrimeroDe(s, k) \in Registros \cup {Nulo}
         /\ UltimoDe(s, k) \in Registros \cup {Nulo}
         /\ PrimeroDe(s, k) # Nulo => PrimeroDe(s, k) \in ToSet(s) /\ PrimeroDe(s, k).key = k
<1>1. PICK a, b \in 0..Len(s) :
        /\ PrimeroDe(s, k) = IF a = 0 THEN Nulo ELSE s[a]
        /\ UltimoDe(s, k) = IF b = 0 THEN Nulo ELSE s[b]
        /\ (a # 0 => s[a].key = k) /\ (b # 0 => s[b].key = k)
  BY Hallados
<1>2. (a # 0 => s[a] \in Registros /\ s[a] \in ToSet(s)) /\ (b # 0 => s[b] \in Registros)
  BY DEF ToSet
<1> QED BY <1>1, <1>2

LEMMA MasNuevoTipo ==
  ASSUME NEW r1 \in Registros \cup {Nulo}, NEW r2 \in Registros \cup {Nulo}
  PROVE  RegistroMasNuevo(r1, r2) \in Registros \cup {Nulo}
BY DEF RegistroMasNuevo

LEMMA MemTipo ==
  ASSUME Tipado, NEW h \in Clientes, Poner(h) \/ Enlazar(h) \/ Limpiar \/ Reiniciar
  PROVE  /\ TipoMem'
         /\ Poner(h) \/ Enlazar(h) =>
              \A t \in Tablas : diccionario[t] \in Seq(Registros) => diccionario'[t] \in Seq(Registros)
<1>1. cl[h].pc # "libre" => cl[h].t \in Tablas
  BY DEF Tipado, Inv, ClientesBien
<1>2. CASE Poner(h)
  <2>1. cl[h].t \in Tablas /\ <<>> \in Seq(Registros)
    BY <1>1, <1>2 DEF Poner, En
  <2>2. UNCHANGED diccionario \/ diccionario' = [diccionario EXCEPT ![cl[h].t] = <<>>]
    BY <1>2 DEF Poner
  <2> QED BY <2>1, <2>2 DEF Tipado, TipoMem
<1>3. CASE Enlazar(h)
  <2> DEFINE t == cl[h].t  u == cl[h].ultimo  lista == diccionario[t]
  <2>1. CASE cl[h].suLista = "vigente"
    <3>1. /\ cl[h].pc = "enlazar" /\ t \in Tablas
          /\ diccionario' = [diccionario EXCEPT ![t] = Append(SubSeq(lista, 1, u), cl[h].reg)]
      BY <1>1, <1>3, <2>1 DEF Enlazar, En
    <3>2. lista \in Seq(Registros) /\ u \in 0..Len(lista) /\ cl[h].reg \in Registros
      BY <2>1, <3>1 DEF Tipado, TipoCl, TCl, EnElInsert
    <3> HIDE DEF t, lista, u
    <3>3. Append(SubSeq(lista, 1, u), cl[h].reg) \in Seq(Registros)
      BY <3>2
    <3> QED BY <3>1, <3>3 DEF Tipado, TipoMem
  <2>2. CASE cl[h].suLista # "vigente"
    BY <1>3, <2>2 DEF Enlazar, Tipado, TipoMem
  <2> QED BY <2>1, <2>2
<1>4. CASE ~(Poner(h) \/ Enlazar(h))
  BY <1>4 DEF Limpiar, Reiniciar, TipoMem
<1> QED BY <1>2, <1>3, <1>4

LEMMA DirTipo ==
  ASSUME Tipado, NEW h \in Clientes,
         Mkdir(h) \/ CrearMetadata(h) \/ BorrarArchivos(h) \/ QuitarDirectorio(h)
  PROVE  TipoDir'
<1>1. cl[h].pc # "libre" => cl[h].t \in Tablas
  BY DEF Tipado, Inv, ClientesBien
<1> QED BY <1>1 DEF Tipado, TipoDir, Mkdir, CrearMetadata, BorrarArchivos, QuitarDirectorio, En

LEMMA CambiarUno ==
  ASSUME NEW T, NEW N, NEW A, NEW f \in [T -> [N -> A]], NEW t \in T, NEW n \in N, NEW v \in A
  PROVE  [f EXCEPT ![t][n] = v] \in [T -> [N -> A]]
<1>1. PICK g : g = [f[t] EXCEPT ![n] = v]
  OBVIOUS
<1>2. f[t] \in [N -> A]
  OBVIOUS
<1>3. g \in [N -> A]
  BY <1>1, <1>2
<1>4. [f EXCEPT ![t][n] = v] = [f EXCEPT ![t] = g]
  BY <1>1
<1> QED BY <1>3, <1>4

LEMMA VolcandoTipo ==
  ASSUME Tipado, dump.pc \in EnVolcado
  PROVE  Volcando \in Seq(Registros)
BY DEF Volcando, Tipado, TipoCuenta, ListaVolcada

LEMMA TmpTipo ==
  ASSUME Tipado
  PROVE  /\ Crear \/ Guardar \/ Escribir => TipoTmp'
         /\ \A e \in Entradas : Renombrar(e) => TipoTmp' /\ TipoTmpc'
         /\ \A e \in Entradas : BorrarTmpc(e) => TipoTmpc'
         /\ \A h \in Clientes : BorrarArchivos(h) => TipoTmp' /\ TipoTmpc' /\ TipoBin'
<1>1. <<>> \in Archivo /\ NoExiste \in Archivo
  BY DEF Archivo
<1>2. ASSUME Crear PROVE TipoTmp'
  <2>1. /\ dump.t \in Tablas /\ dump.numero \in Numeros
        /\ tmp' = [tmp EXCEPT ![dump.t][dump.numero] = <<>>]
    BY <1>2 DEF Crear, EnDump, Tipado, TipoDump, TDump, EnVolcado
  <2>2. [tmp EXCEPT ![dump.t][dump.numero] = <<>>] \in [Tablas -> [Numeros -> Archivo]]
    BY <1>1, <2>1, CambiarUno DEF Tipado, TipoTmp
  <2> QED BY <2>1, <2>2 DEF TipoTmp
<1>3. ASSUME Guardar PROVE TipoTmp'
  <2>1. dump.escritos \in Archivo /\ dump.t \in Tablas /\ dump.numero \in Numeros
    BY <1>3 DEF Guardar, EnDump, Tipado, TipoDump, TDump, Archivo, EnVolcado
  <2>2. UNCHANGED tmp \/ tmp' = [tmp EXCEPT ![dump.t][dump.numero] = dump.escritos]
    BY <1>3 DEF Guardar
  <2>3. [tmp EXCEPT ![dump.t][dump.numero] = dump.escritos] \in [Tablas -> [Numeros -> Archivo]]
    BY <2>1, CambiarUno DEF Tipado, TipoTmp
  <2> QED BY <2>2, <2>3 DEF Tipado, TipoTmp
<1>4. ASSUME Escribir PROVE TipoTmp'
  <2> DEFINE r == Volcando[dump.posicion]
  <2>1. /\ dump.t \in Tablas /\ dump.numero \in Numeros
    BY <1>4 DEF Escribir, EnDump, Tipado, TipoDump, TDump, EnVolcado
  <2>2. r \in Registros
    <3>1. Volcando \in Seq(Registros)
      BY <1>4, VolcandoTipo DEF Escribir, EnDump, EnVolcado
    <3>2. dump.posicion \in DOMAIN Volcando
      BY <1>4 DEF Escribir
    <3> QED BY <3>1, <3>2
  <2> HIDE DEF r
  <2>3. tmp[dump.t][dump.numero] \in Seq(Registros)
    BY <1>4, <2>1 DEF Escribir, Tipado, TipoTmp, Archivo
  <2>4. Append(tmp[dump.t][dump.numero], r) \in Archivo
    BY <2>2, <2>3 DEF Archivo
  <2>5. tmp' = [tmp EXCEPT ![dump.t][dump.numero] = Append(tmp[dump.t][dump.numero], r)]
    BY <1>4 DEF Escribir, r
  <2>6. [tmp EXCEPT ![dump.t][dump.numero] = Append(tmp[dump.t][dump.numero], r)]
          \in [Tablas -> [Numeros -> Archivo]]
    BY <2>1, <2>4, CambiarUno DEF Tipado, TipoTmp
  <2> QED BY <2>5, <2>6 DEF TipoTmp
<1>5. ASSUME NEW e \in Entradas, Renombrar(e) PROVE TipoTmp' /\ TipoTmpc'
  <2>1. PICK n \in comp[e].porRenombrar :
          \/ UNCHANGED <<tmp, tmpc>>
          \/ /\ tmpc' = [tmpc EXCEPT ![comp[e].t][n] = tmp[comp[e].t][n]]
             /\ tmp' = [tmp EXCEPT ![comp[e].t][n] = NoExiste]
    BY <1>5 DEF Renombrar
  <2>2. n \in Numeros
    BY DEF Tipado, TipoComp, TComp, THilo
  <2>3. comp[e].t \in Tablas \/ (tmp' = tmp /\ tmpc' = tmpc)
    BY <2>1 DEF Tipado, TipoTmp, TipoTmpc
  <2>4. CASE comp[e].t \in Tablas
    <3>1. tmp[comp[e].t][n] \in Archivo
      BY <2>2, <2>4 DEF Tipado, TipoTmp
    <3>2. [tmp EXCEPT ![comp[e].t][n] = NoExiste] \in [Tablas -> [Numeros -> Archivo]]
      BY <1>1, <2>2, <2>4, CambiarUno DEF Tipado, TipoTmp
    <3>3. [tmpc EXCEPT ![comp[e].t][n] = tmp[comp[e].t][n]] \in [Tablas -> [Numeros -> Archivo]]
      BY <2>2, <2>4, <3>1, CambiarUno DEF Tipado, TipoTmpc
    <3> QED BY <2>1, <3>2, <3>3 DEF Tipado, TipoTmp, TipoTmpc
  <2> QED BY <2>3, <2>4 DEF Tipado, TipoTmp, TipoTmpc
<1>6. ASSUME NEW e \in Entradas, BorrarTmpc(e) PROVE TipoTmpc'
  BY <1>1, <1>6 DEF BorrarTmpc, Tipado, TipoTmpc
<1>7. ASSUME NEW h \in Clientes, BorrarArchivos(h) PROVE TipoTmp' /\ TipoTmpc' /\ TipoBin'
  BY <1>1, <1>7 DEF BorrarArchivos, Tipado, TipoTmp, TipoTmpc, TipoBin
<1> QED BY <1>2, <1>3, <1>4, <1>5, <1>6, <1>7


\* A key falls in a partition there is.
LEMMA ParticionBien ==
  ASSUME NEW k \in Claves \cup {0}
  PROVE  Particion(k) \in NumerosBin
<1>1. k \in Nat /\ Particiones \in Nat \ {0}
  BY Constantes
<1> QED BY <1>1 DEF Particion, NumerosBin

LEMMA BinTipo ==
  ASSUME Tipado
  PROVE  /\ \A h \in Clientes : CrearParticiones(h) => TipoBin'
         /\ \A e \in Entradas : BorrarBin(e) \/ CrearBin(e) \/ EscribirBin(e) => TipoBin'
<1>1. <<>> \in Archivo /\ NoExiste \in Archivo
  BY DEF Archivo
<1>2. ASSUME NEW h \in Clientes, CrearParticiones(h) PROVE TipoBin'
  BY <1>1, <1>2 DEF CrearParticiones, Tipado, TipoBin
<1>3. ASSUME NEW e \in Entradas, BorrarBin(e) PROVE TipoBin'
  BY <1>1, <1>3 DEF BorrarBin, Tipado, TipoBin
<1>4. ASSUME NEW e \in Entradas, CrearBin(e) PROVE TipoBin'
  BY <1>1, <1>4 DEF CrearBin, Tipado, TipoBin
<1>5. ASSUME NEW e \in Entradas, EscribirBin(e) PROVE TipoBin'
  <2> DEFINE t == comp[e].t  r == comp[e].claves[comp[e].j]  p == Particion(r.key)
  <2>1. /\ comp[e].claves \in Seq(Registros) /\ comp[e].j \in 1..Len(comp[e].claves)
        /\ bin[t][p] # NoExiste
        /\ bin' = [bin EXCEPT ![t][p] = Append(bin[t][p], r)]
    <3>1. comp[e] \in THilo
      BY DEF Tipado, TipoComp, TComp
    <3>2. comp[e].claves \in Seq(Registros) /\ comp[e].j \in Nat \ {0}
      BY <3>1 DEF THilo
    <3>3. comp[e].j <= Len(comp[e].claves) /\ bin[t][p] # NoExiste
      BY <1>5 DEF EscribirBin
    <3>4. bin' = [bin EXCEPT ![t][p] = Append(bin[t][p], r)]
      BY <1>5 DEF EscribirBin
    <3>5. Len(comp[e].claves) \in Nat
      BY <3>2, LenProperties
    <3> HIDE DEF t, r, p
    <3> QED BY <3>2, <3>3, <3>4, <3>5
  <2>2. r \in Registros
    BY <2>1, ElementOfSeq
  <2>3. r.key \in Claves
    BY <2>2 DEF Registros
  <2>4. p \in NumerosBin
    BY <2>3, ParticionBien
  <2> HIDE DEF r, p, t
  <2>5. CASE t \in Tablas
    <3>1. bin[t][p] \in Seq(Registros)
      BY <2>1, <2>4, <2>5 DEF Tipado, TipoBin, Archivo
    <3>2. Append(bin[t][p], r) \in Archivo
      BY <2>2, <3>1 DEF Archivo
    <3>3. [bin EXCEPT ![t][p] = Append(bin[t][p], r)] \in [Tablas -> [NumerosBin -> Archivo]]
      BY <2>4, <2>5, <3>2, CambiarUno DEF Tipado, TipoBin
    <3> QED BY <2>1, <3>3 DEF TipoBin
  <2>6. CASE t \notin Tablas
    BY <2>1, <2>6 DEF Tipado, TipoBin
  <2> QED BY <2>5, <2>6
<1> QED BY <1>2, <1>3, <1>4, <1>5

LEMMA UnHilo ==
  ASSUME Tipado, NEW e \in Entradas, NEW r \in TComp, comp' = [comp EXCEPT ![e] = r]
  PROVE  TipoComp'
BY DEF Tipado, TipoComp

\* What the steps of a thread make of it is a thread.
LEMMA HiloTipo ==
  ASSUME NEW c \in TComp, c.pc # "fin", NEW paso \in PasosComp
  PROVE  /\ [c EXCEPT !.pc = paso] \in TComp
         /\ \A m \in Entradas : [c EXCEPT !.pc = paso, !.mutex = m] \in TComp
         /\ \A R \in SUBSET Numeros : [c EXCEPT !.pc = paso, !.porRenombrar = R] \in TComp
         /\ \A n : [c EXCEPT !.porRenombrar = @ \ {n}, !.pc = paso] \in TComp
         /\ \A q \in Seq(Registros) : [c EXCEPT !.pc = paso, !.claves = q] \in TComp
         /\ \A j \in Nat \ {0} : [c EXCEPT !.pc = paso, !.j = j] \in TComp
         /\ \A q \in Seq(Registros), j \in Nat \ {0} :
              [c EXCEPT !.pc = paso, !.claves = q, !.j = j] \in TComp
<1> USE DEF TComp, THilo
<1>1. [c EXCEPT !.pc = paso] \in TComp
  OBVIOUS
<1>2. \A m \in Entradas : [c EXCEPT !.pc = paso, !.mutex = m] \in TComp
  OBVIOUS
<1>3. \A R \in SUBSET Numeros : [c EXCEPT !.pc = paso, !.porRenombrar = R] \in TComp
  OBVIOUS
<1>4. \A n : [c EXCEPT !.porRenombrar = @ \ {n}, !.pc = paso] \in TComp
  OBVIOUS
<1>5. \A q \in Seq(Registros) : [c EXCEPT !.pc = paso, !.claves = q] \in TComp
  OBVIOUS
<1>6. \A j \in Nat \ {0} : [c EXCEPT !.pc = paso, !.j = j] \in TComp
  OBVIOUS
<1>7. \A q \in Seq(Registros), j \in Nat \ {0} :
        [c EXCEPT !.pc = paso, !.claves = q, !.j = j] \in TComp
  OBVIOUS
<1> QED BY <1>1, <1>2, <1>3, <1>4, <1>5, <1>6, <1>7

\* What a compaction reads of the files of a table.
LEMMA LeidosTipo ==
  ASSUME Tipado, NEW t \in Tablas, NEW s \in Contenidos(tmpc[t]), NEW b \in Contenidos(bin[t])
  PROVE  /\ s \o b \in Seq(Registros)
         /\ EnArchivos(tmpc[t]) \subseteq ToSet(s \o b)
         /\ EnArchivos(bin[t]) \subseteq ToSet(s \o b)
<1>1. s \in Seq(Registros) /\ EnArchivos(tmpc[t]) \subseteq ToSet(s)
  <2>1. tmpc[t] \in [Numeros -> Archivo]
    BY DEF Tipado, TipoTmpc
  <2>2. PICK f : f = tmpc[t]
    OBVIOUS
  <2> QED BY <2>1, <2>2, HayFinitos, ContenidosBien
<1>2. b \in Seq(Registros) /\ EnArchivos(bin[t]) \subseteq ToSet(b)
  <2>1. bin[t] \in [NumerosBin -> Archivo]
    BY DEF Tipado, TipoBin
  <2>2. PICK f : f = bin[t]
    OBVIOUS
  <2> QED BY <2>1, <2>2, HayFinitos, ContenidosBien
<1>3. s \o b \in Seq(Registros) /\ ToSet(s \o b) = ToSet(s) \cup ToSet(b)
  BY <1>1, <1>2, JuntarConjuntos
<1> QED BY <1>1, <1>2, <1>3

LEMMA CompTipo ==
  ASSUME Tipado
  PROVE  /\ \A e \in Entradas : Compactacion(e) => TipoComp'
         /\ \A h \in Clientes : Anotar(h) => TipoComp'
         /\ Reiniciar => TipoComp'
<1>1. ASSUME NEW e \in Entradas, Compactacion(e) PROVE TipoComp'
  <2>1. PICK c \in TComp : c = comp[e]
    BY DEF Tipado, TipoComp
  <2>2. /\ c.claves \in Seq(Registros) /\ c.j \in Nat \ {0}
        /\ c.pc # "fin" => c.t \in Tablas
    BY <2>1 DEF TComp, THilo
  <2>3. CASE UNCHANGED comp
    BY <2>3 DEF Tipado, TipoComp
  <2>4. CASE Nacer(e) /\ ExisteLaTabla(comp[e].t)
    <3>1. Entrada(comp[e].t) \in Entradas
      <4>1. Esta(listaDeTablas, comp[e].t) /\ listaDeTablas \in Seq(Tablas \X Entradas)
        BY <2>4, Conocidas DEF Tipado, Inv, Tipos
      <4>2. IndiceEn(listaDeTablas, comp[e].t) \in 1..Len(listaDeTablas)
        BY <4>1, EsElPrimero
      <4> QED BY <4>1, <4>2, Conocidas DEF Entrada
    <3>2. PICK m \in Entradas : m = Entrada(comp[e].t)
      BY <3>1
    <3>3. comp' = [comp EXCEPT ![e] = [c EXCEPT !.pc = "dormida", !.mutex = m]] /\ c.pc # "fin"
      BY <2>1, <2>4, <3>2 DEF Nacer, EnComp
    <3> QED BY <3>3, UnHilo, HiloTipo DEF PasosComp
  <2>5. CASE Tomar(e)
    <3> DEFINE hay == Existentes(tmp[comp[e].t])
               paso == IF hay = {} THEN "leer" ELSE "renombrar"
    <3>1. comp' = [comp EXCEPT ![e] = [c EXCEPT !.pc = paso, !.porRenombrar = hay]] /\ c.pc # "fin"
      BY <2>1, <2>5 DEF Tomar, EnComp
    <3>2. hay \in SUBSET Numeros
      BY <2>1, <2>2, <3>1 DEF Tipado, TipoTmp, Existentes
    <3>3. paso \in PasosComp
      BY DEF PasosComp
    <3> HIDE DEF hay, paso
    <3>4. [c EXCEPT !.pc = paso, !.porRenombrar = hay] \in TComp
      BY <3>1, <3>2, <3>3, HiloTipo
    <3> QED BY <3>1, <3>4, UnHilo
  <2>6. CASE LevantarClaves(e)
    <3>1. c.pc # "fin" /\ comp[e].t \in Tablas
      BY <2>1, <2>2, <2>6 DEF LevantarClaves, EnComp
    <3>2. PICK s \in Contenidos(tmpc[comp[e].t]), b \in Contenidos(bin[comp[e].t]) :
            comp' = [comp EXCEPT ![e].pc = "borrarTmpc",
                                 ![e].claves = Levantar(comp[e].claves, s \o b)]
      BY <2>6 DEF LevantarClaves
    <3>5. s \o b \in Seq(Registros) /\ comp[e].claves \in Seq(Registros)
      BY <2>1, <2>2, <3>1, <3>2, LeidosTipo
    <3>6. PICK q \in Seq(Registros) : q = Levantar(comp[e].claves, s \o b)
      BY <3>5, LevantarTipo
    <3>7. comp' = [comp EXCEPT ![e] = [c EXCEPT !.pc = "borrarTmpc", !.claves = q]]
      BY <2>1, <3>2, <3>6
    <3>8. "borrarTmpc" \in PasosComp
      BY DEF PasosComp
    <3>9. [c EXCEPT !.pc = "borrarTmpc", !.claves = q] \in TComp
      BY <3>1, <3>8, HiloTipo
    <3> QED BY <3>7, <3>9, UnHilo
  <2>7. CASE CompDespertar(e) \/ Renombrar(e) \/ BorrarTmpc(e) \/ BorrarBin(e) \/ CrearBin(e)
             \/ EscribirBin(e) \/ GuardarBin(e) \/ Soltar(e)
    <3>1. PICK r \in TComp : comp' = [comp EXCEPT ![e] = r]
      <4>0. {"dormida", "espera", "leer", "borrarBin", "crearBin", "escribir", "guardar", "fin"}
              \subseteq PasosComp /\ c.pc \in PasosComp
        BY <2>1 DEF PasosComp, TComp, THilo
      <4>1. CASE CompDespertar(e)
        <5>1. \E paso \in {"fin", "espera"} : comp' = [comp EXCEPT ![e] = [c EXCEPT !.pc = paso]]
          BY <2>1, <4>1 DEF CompDespertar, Avanza
        <5>2. c.pc # "fin"
          BY <2>1, <4>1 DEF CompDespertar, EnComp
        <5> QED BY <4>0, <5>1, <5>2, HiloTipo
      <4>2. CASE Renombrar(e)
        <5>0. PICK n : comp' = [comp EXCEPT ![e].porRenombrar = @ \ {n},
                                  ![e].pc = IF comp[e].porRenombrar = {n} THEN "leer" ELSE @]
          BY <4>2 DEF Renombrar
        <5>1. comp' = [comp EXCEPT ![e] = [c EXCEPT
                        !.porRenombrar = @ \ {n}, !.pc = IF c.porRenombrar = {n} THEN "leer" ELSE @]]
          BY <2>1, <5>0
        <5>2. PICK paso \in PasosComp : paso = IF c.porRenombrar = {n} THEN "leer" ELSE c.pc
          BY <4>0
        <5>3. c.pc # "fin" /\ comp' = [comp EXCEPT ![e] = [c EXCEPT !.porRenombrar = @ \ {n}, !.pc = paso]]
          BY <2>1, <4>2, <5>1, <5>2 DEF Renombrar, EnComp
        <5> QED BY <5>3, HiloTipo
      <4>3. CASE BorrarTmpc(e) \/ BorrarBin(e) \/ EscribirBin(e)
        <5>1. /\ \E paso \in PasosComp : comp' = [comp EXCEPT ![e] = [c EXCEPT !.pc = paso]]
              /\ c.pc # "fin"
          BY <2>1, <4>0, <4>3 DEF BorrarTmpc, BorrarBin, EscribirBin, Avanza, EnComp
        <5> QED BY <5>1, HiloTipo
      <4>4. CASE CrearBin(e)
        <5>1. c.pc # "fin" /\ comp' = [comp EXCEPT ![e] = [c EXCEPT !.pc = "escribir", !.j = 1]]
          BY <2>1, <4>4 DEF CrearBin, EnComp
        <5>2. PICK j \in Nat \ {0} : j = 1
          OBVIOUS
        <5> QED BY <4>0, <5>1, <5>2, HiloTipo
      <4>5. CASE GuardarBin(e)
        <5>1. PICK j \in Nat \ {0} : j = c.j + 1
          BY <2>2
        <5>2. c.pc # "fin" /\ comp' = [comp EXCEPT ![e] = [c EXCEPT !.pc = "escribir", !.j = j]]
          BY <2>1, <4>5, <5>1 DEF GuardarBin, EnComp
        <5> QED BY <4>0, <5>2, HiloTipo
      <4>6. CASE Soltar(e)
        <5>1. c.pc # "fin" /\ comp' = [comp EXCEPT ![e] = [c EXCEPT !.pc = "dormida", !.claves = <<>>, !.j = 1]]
          BY <2>1, <4>6 DEF Soltar, EnComp
        <5>2. <<>> \in Seq(Registros) /\ 1 \in Nat \ {0}
          OBVIOUS
        <5>3. [c EXCEPT !.pc = "dormida", !.claves = <<>>, !.j = 1] \in TComp
          BY <4>0, <5>1, <5>2, HiloTipo
        <5> QED BY <5>1, <5>3
      <4> QED BY <2>7, <4>1, <4>2, <4>3, <4>4, <4>5, <4>6
    <3> QED BY <3>1, UnHilo
  <2>8. CASE CompMuere(e) \/ (Nacer(e) /\ ~ExisteLaTabla(comp[e].t))
    BY <2>3, <2>8 DEF CompMuere, Nacer, Morir, Caer
  <2> QED BY <1>1, <2>4, <2>5, <2>6, <2>7, <2>8 DEF Compactacion
<1>2. ASSUME NEW h \in Clientes, Anotar(h) PROVE TipoComp'
  <2>1. PICK e : comp' = [comp EXCEPT ![e] = Hilo("nace", cl[h].t)]
    BY <1>2, EntradaNueva
  <2>2. cl[h].t \in Tablas
    BY <1>2 DEF Tipado, Inv, ClientesBien, Anotar, En
  <2>3. Hilo("nace", cl[h].t) \in TComp
    BY <2>2 DEF Hilo, TComp, THilo, PasosComp
  <2> QED BY <2>1, <2>3, UnHilo DEF Tipado, TipoComp
<1>3. ASSUME Reiniciar PROVE TipoComp'
  <2>1. comp' = HilosDe(SetToSeq(directorios)) /\ directorios \in SUBSET Tablas
    BY <1>3 DEF Reiniciar, Tipado, Inv, ClientesBien
  <2>2. PICK q : q = HilosDe(SetToSeq(directorios))
    OBVIOUS
  <2> QED BY <2>1, <2>2, HilosTipo DEF TipoComp
<1> QED BY <1>1, <1>2, <1>3

-----------------------------------------------------------------------------
(* The attention threads. *)

\* Only one thread changes, and what it had looked up of a list is still so.
LEMMA UnCliente ==
  ASSUME Tipado, NEW h \in Clientes, NEW r \in TCl, cl' = [cl EXCEPT ![h] = r],
         UNCHANGED diccionario, r.pc \in EnElInsert => r.reg \in Registros,
         r.pc = "enlazar" =>
           diccionario[r.t] \in Seq(Registros) /\ r.ultimo <= Len(diccionario[r.t])
  PROVE  TipoCl'
<1>1. cl' \in [Clientes -> TCl] /\ cl'[h] = r /\ \A g \in Clientes : g # h => cl'[g] = cl[g]
  BY DEF Tipado, TipoCl
<1>2. ASSUME NEW g \in Clientes
      PROVE  /\ cl'[g].pc \in EnElInsert => cl'[g].reg \in Registros
             /\ cl'[g].pc = "enlazar" /\ cl'[g].suLista = "vigente" =>
                  diccionario[cl'[g].t] \in Seq(Registros) /\ cl'[g].ultimo <= Len(diccionario[cl'[g].t])
  BY <1>1 DEF Tipado, TipoCl
<1> QED BY <1>1, <1>2 DEF TipoCl

LEMMA LibreTipo == Libre \in TCl /\ Libre.pc = "libre"
BY DEF Libre, TCl, PasosCliente

\* What the steps of a thread make of it is a thread.
LEMMA ClienteTipo ==
  ASSUME NEW c \in TCl, NEW paso \in PasosCliente
  PROVE  /\ [c EXCEPT !.pc = paso] \in TCl
         /\ \A t \in Tablas : [c EXCEPT !.pc = paso, !.t = t] \in TCl
         /\ \A t \in Tablas, b \in BOOLEAN, r \in Registros :
              [c EXCEPT !.pc = paso, !.t = t, !.error = b, !.reg = r] \in TCl
         /\ \A t \in Tablas, k \in Claves, e \in Entradas :
              [c EXCEPT !.pc = paso, !.t = t, !.k = k, !.entrada = e] \in TCl
         /\ \A u \in Nat : [c EXCEPT !.pc = paso, !.ultimo = u] \in TCl
         /\ \A v \in Registros \cup {Nulo} : [c EXCEPT !.pc = paso, !.visto = v] \in TCl
         /\ \A V \in SUBSET Numeros : [c EXCEPT !.pc = paso, !.vistos = V] \in TCl
         /\ \A v \in Registros \cup {Nulo}, V \in SUBSET Numeros :
              [c EXCEPT !.visto = v, !.vistos = V] \in TCl
<1> USE DEF TCl
<1>1. [c EXCEPT !.pc = paso] \in TCl
  OBVIOUS
<1>2. \A t \in Tablas : [c EXCEPT !.pc = paso, !.t = t] \in TCl
  OBVIOUS
<1>3. \A t \in Tablas, b \in BOOLEAN, r \in Registros :
         [c EXCEPT !.pc = paso, !.t = t, !.error = b, !.reg = r] \in TCl
  OBVIOUS
<1>4. \A t \in Tablas, k \in Claves, e \in Entradas :
         [c EXCEPT !.pc = paso, !.t = t, !.k = k, !.entrada = e] \in TCl
  OBVIOUS
<1>5. \A u \in Nat : [c EXCEPT !.pc = paso, !.ultimo = u] \in TCl
  OBVIOUS
<1>6. \A v \in Registros \cup {Nulo} : [c EXCEPT !.pc = paso, !.visto = v] \in TCl
  OBVIOUS
<1>7. \A V \in SUBSET Numeros : [c EXCEPT !.pc = paso, !.vistos = V] \in TCl
  OBVIOUS
<1>8. \A v \in Registros \cup {Nulo}, V \in SUBSET Numeros :
        [c EXCEPT !.visto = v, !.vistos = V] \in TCl
  OBVIOUS
<1> QED BY <1>1, <1>2, <1>3, <1>4, <1>5, <1>6, <1>7, <1>8

LEMMA PedidoTipo ==
  ASSUME Tipado, NEW h \in Clientes, Pedido(h)
  PROVE  TipoCl' /\ TipoTiempo'
<1>0. UNCHANGED diccionario
  BY CambiosPedido
<1>1. PICK t \in Tablas :
        \/ \E k \in Claves : Insert(h, t, k) \/ Select(h, t, k)
        \/ Create(h, t) \/ Drop(h, t)
  BY DEF Pedido
<1>2. CASE \E k \in Claves : Insert(h, t, k)
  <2>1. PICK k \in Claves, ahora \in reloj..MaxReloj :
          /\ reloj' = ahora /\ cuantos < MaxRegistros /\ cuantos' = cuantos + 1 /\ UNCHANGED fallas
          /\ cl' = [cl EXCEPT ![h] =
               [Libre EXCEPT !.pc = IF diccionario[t] = SinLista THEN "poner" ELSE "agregar",
                          !.t = t, !.error = ~ExisteLaTabla(t),
                          !.reg = [timestamp |-> ahora, key |-> k, n |-> cuantos + 1]]]
    BY <1>2 DEF Insert
  <2>2. TipoTiempo'
    BY <2>1, Constantes DEF Tipado, TipoTiempo, fallas
  <2>3. PICK r \in Registros : r = [timestamp |-> ahora, key |-> k, n |-> cuantos + 1]
    <3>1. ahora \in 1..MaxReloj /\ cuantos + 1 \in 1..MaxRegistros
      BY <2>1, Constantes DEF Tipado, TipoTiempo
    <3> QED BY <3>1 DEF Registros
  <2>4. PICK paso \in {"poner", "agregar"} : paso = IF diccionario[t] = SinLista THEN "poner" ELSE "agregar"
    OBVIOUS
  <2>5. PICK b \in BOOLEAN : b = ~ExisteLaTabla(t)
    BY DEF ExisteLaTabla
  <2>6. paso \in PasosCliente
    BY <2>4 DEF PasosCliente
  <2>7. PICK c : c = [Libre EXCEPT !.pc = paso, !.t = t, !.error = b, !.reg = r]
    OBVIOUS
  <2>8. c \in TCl
    BY <2>6, <2>7, LibreTipo, ClienteTipo
  <2>9. c.pc = paso /\ c.reg = r
    BY <2>7 DEF Libre
  <2>10. cl' = [cl EXCEPT ![h] = c]
    BY <2>1, <2>3, <2>4, <2>5, <2>7
  <2> QED BY <1>0, <2>2, <2>4, <2>8, <2>9, <2>10, UnCliente
<1>3. CASE \E k \in Claves : Select(h, t, k)
  <2>1. PICK k \in Claves :
          /\ ExisteLaTabla(t) /\ UNCHANGED <<tiempo, fallas>>
          /\ cl' = [cl EXCEPT ![h] = [Libre EXCEPT !.pc = "compuerta", !.t = t, !.k = k,
                                                  !.entrada = Entrada(t)]]
    BY <1>3 DEF Select
  <2>2. Entrada(t) \in Entradas
    <3>1. Esta(listaDeTablas, t) /\ listaDeTablas \in Seq(Tablas \X Entradas)
      BY <2>1, Conocidas DEF Tipado, Inv, Tipos
    <3>2. IndiceEn(listaDeTablas, t) \in 1..Len(listaDeTablas)
      BY <3>1, EsElPrimero
    <3> QED BY <3>1, <3>2, Conocidas DEF Entrada
  <2>3. PICK e \in Entradas : e = Entrada(t)
    BY <2>2
  <2>4. PICK c : c = [Libre EXCEPT !.pc = "compuerta", !.t = t, !.k = k, !.entrada = e]
    OBVIOUS
  <2>5. c \in TCl
    BY <2>4, LibreTipo, ClienteTipo DEF PasosCliente
  <2>6. c.pc = "compuerta"
    BY <2>4 DEF Libre
  <2>7. cl' = [cl EXCEPT ![h] = c]
    BY <2>1, <2>3, <2>4
  <2>8. TipoTiempo'
    BY <2>1 DEF Tipado, TipoTiempo, tiempo, fallas
  <2> QED BY <1>0, <2>5, <2>6, <2>7, <2>8, UnCliente DEF EnElInsert
<1>4. CASE Create(h, t) \/ Drop(h, t)
  <2>1. PICK paso \in {"mkdir", "borrar"} :
          /\ cl' = [cl EXCEPT ![h] = [Libre EXCEPT !.pc = paso, !.t = t]]
          /\ UNCHANGED <<tiempo, fallas>>
    BY <1>4 DEF Create, Drop
  <2>2. PICK c : c = [Libre EXCEPT !.pc = paso, !.t = t]
    OBVIOUS
  <2>3. c \in TCl
    BY <2>2, LibreTipo, ClienteTipo DEF PasosCliente
  <2>4. c.pc = paso
    BY <2>2 DEF Libre
  <2>5. cl' = [cl EXCEPT ![h] = c]
    BY <2>1, <2>2
  <2>6. TipoTiempo'
    BY <2>1 DEF Tipado, TipoTiempo, tiempo, fallas
  <2> QED BY <1>0, <2>3, <2>4, <2>5, <2>6, UnCliente DEF EnElInsert
<1> QED BY <1>1, <1>2, <1>3, <1>4

\* What Separar makes of some threads.
SonSeparados(s, hilos, como, otros) ==
  /\ s \in [Clientes -> TCl]
  /\ \A g \in Clientes :
       /\ s[g].pc = otros[g].pc /\ s[g].reg = otros[g].reg /\ s[g].t = otros[g].t
       /\ s[g].ultimo = otros[g].ultimo
       /\ s[g].suLista = IF g \in hilos THEN como ELSE otros[g].suLista

LEMMA SepararTipo ==
  ASSUME NEW hilos, NEW como \in {"cortada", "reemplazada", "liberada"},
         NEW otros \in [Clientes -> TCl],
         NEW s, s = Separar(hilos, como, otros)
  PROVE  SonSeparados(s, hilos, como, otros)
<1>0. DOMAIN otros = Clientes /\ \A x \in Clientes : DOMAIN otros[x] = CamposCl
  BY DEF TCl, CamposCl
<1>1. /\ DOMAIN s = Clientes
      /\ \A g \in Clientes :
           /\ s[g].pc = otros[g].pc /\ s[g].reg = otros[g].reg /\ s[g].t = otros[g].t
           /\ s[g].ultimo = otros[g].ultimo
           /\ s[g].suLista = IF g \in hilos THEN como ELSE otros[g].suLista
  BY <1>0, SepararBien
<1>2. ASSUME NEW g \in Clientes PROVE s[g] \in TCl
  <2>1. PICK c \in TCl : c = otros[g]
    OBVIOUS
  <2>2. c \in TCl /\ [c EXCEPT !.suLista = como] \in TCl
    BY DEF TCl
  <2>3. s[g] = IF g \in hilos THEN [c EXCEPT !.suLista = como] ELSE c
    BY <2>1 DEF Separar
  <2> QED BY <2>2, <2>3
<1>3. s = [g \in Clientes |-> s[g]]
  BY DEF Separar
<1> QED BY <1>1, <1>2, <1>3 DEF SonSeparados

\* The steps that touch the list of a table.
LEMMA ListaTipo ==
  ASSUME Tipado, NEW h \in Clientes, Poner(h) \/ Enlazar(h) \/ Limpiar \/ Reiniciar
  PROVE  TipoCl'
<1>0. /\ cl \in [Clientes -> TCl]
      /\ \A g \in Clientes : DOMAIN cl[g] = CamposCl
      /\ cl[h].pc # "libre" => cl[h].t \in Tablas
  BY DEF Tipado, Inv, ClientesBien, TipoCl
<1>2. CASE Poner(h)
  <2> DEFINE t == cl[h].t
  <2>1. PICK c \in TCl : c = [cl[h] EXCEPT !.pc = "agregar"]
    <3>1. PICK c \in TCl : c = cl[h]
      BY <1>0
    <3>2. [c EXCEPT !.pc = "agregar"] \in TCl
      BY ClienteTipo DEF PasosCliente
    <3> QED BY <3>1, <3>2
  <2>2. c.pc = "agregar" /\ c.reg \in Registros /\ DOMAIN c = CamposCl /\ cl[h].pc = "poner"
    BY <1>0, <1>2, <2>1 DEF Poner, En, CamposCl, Tipado, TipoCl, EnElInsert
  <2>3. PICK otros : otros = [cl EXCEPT ![h] = c]
    OBVIOUS
  <2>4. /\ otros \in [Clientes -> TCl] /\ otros[h] = c
        /\ \A g \in Clientes : g # h => otros[g] = cl[g]
    BY <1>0, <2>3
  <2>5. \A x \in Clientes : DOMAIN otros[x] = CamposCl
    BY <1>0, <2>2, <2>4
  <2>6. otros = [cl EXCEPT ![h].pc = "agregar"]
    BY <2>1, <2>3
  <2>7. CASE /\ diccionario' = [diccionario EXCEPT ![t] = <<>>]
             /\ cl' = Separar(EnSuLista({t}), "reemplazada", otros)
    <3> DEFINE hilos == EnSuLista({t})
    <3>1. PICK s : s = Separar(hilos, "reemplazada", otros)
      OBVIOUS
    <3>2. SonSeparados(s, hilos, "reemplazada", otros)
      <4> HIDE DEF hilos
      <4> QED BY <2>4, <3>1, SepararTipo
    <3> USE <3>2 DEF SonSeparados
    <3>4. ASSUME NEW g \in Clientes
          PROVE  /\ s[g].pc \in EnElInsert => s[g].reg \in Registros
                 /\ s[g].pc = "enlazar" /\ s[g].suLista = "vigente" =>
                      /\ diccionario'[s[g].t] \in Seq(Registros)
                      /\ s[g].ultimo <= Len(diccionario'[s[g].t])
      <4>1. CASE g = h
        BY <2>2, <2>4, <3>2, <4>1
      <4>2. CASE g # h
        <5>1. s[g].pc = cl[g].pc /\ s[g].reg = cl[g].reg /\ s[g].t = cl[g].t /\ s[g].ultimo = cl[g].ultimo
          BY <2>4, <3>2, <4>2
        <5>2. cl[g].pc \in EnElInsert => cl[g].reg \in Registros
          BY DEF Tipado, TipoCl
        <5>3. ASSUME s[g].pc = "enlazar", s[g].suLista = "vigente"
              PROVE  /\ diccionario'[s[g].t] \in Seq(Registros)
                     /\ s[g].ultimo <= Len(diccionario'[s[g].t])
          <6>1. g \notin hilos /\ cl[g].suLista = "vigente"
            BY <2>4, <3>2, <4>2, <5>3
          <6>3. cl[g].t # t
            BY <5>1, <5>3, <6>1 DEF EnSuLista
          <6>4. diccionario'[cl[g].t] = diccionario[cl[g].t]
            BY <2>7, <6>3 DEF Tipado, TipoMem
          <6> QED BY <5>1, <5>3, <6>1, <6>4 DEF Tipado, TipoCl
        <5> QED BY <5>1, <5>2, <5>3
      <4> QED BY <4>1, <4>2
    <3>5. cl' = s
      BY <2>7, <3>1
    <3> QED BY <3>2, <3>4, <3>5 DEF TipoCl
  <2>8. CASE UNCHANGED diccionario /\ cl' = otros
    <3>1. c.pc # "enlazar"
      BY <2>2
    <3>2. cl' = [cl EXCEPT ![h] = c]
      BY <2>3, <2>8
    <3> QED BY <2>2, <2>8, <3>1, <3>2, UnCliente
  <2> QED BY <1>2, <2>6, <2>7, <2>8 DEF Poner
<1>3. CASE Enlazar(h)
  <2> DEFINE t == cl[h].t  u == cl[h].ultimo
             como == cl[h].suLista
             hilos == IF como = "vigente" THEN PorEnlazar(t, u) ELSE {}
             lista == diccionario[t]
  <2>1. cl[h].pc = "enlazar" /\ t \in Tablas
    BY <1>0, <1>3 DEF Enlazar, En
  <2>0. PICK c \in TCl : /\ c = [cl[h] EXCEPT !.pc = "contar", !.ultimo = elementos[t]]
                         /\ c.pc = "contar" /\ c.reg \in Registros
    <3>1. PICK d \in TCl : d = cl[h]
      BY <1>0
    <3>2. PICK n \in Nat : n = elementos[t]
      BY <2>1 DEF Tipado, TipoCuenta
    <3>3. PICK c : c = [d EXCEPT !.pc = "contar", !.ultimo = n]
      OBVIOUS
    <3>4. c \in TCl
      BY <3>3, ClienteTipo DEF PasosCliente
    <3>5. c.pc = "contar" /\ c.reg = d.reg
      BY <3>3 DEF TCl
    <3>6. d.reg \in Registros
      BY <2>1, <3>1 DEF Tipado, TipoCl, EnElInsert
    <3> QED BY <3>1, <3>2, <3>3, <3>4, <3>5, <3>6
  <2>2. PICK otros : otros = [cl EXCEPT ![h] = c]
    OBVIOUS
  <2>3. /\ otros \in [Clientes -> TCl] /\ otros[h] = c
        /\ \A g \in Clientes : g # h => otros[g] = cl[g]
    BY <1>0, <2>2
  <2>4. otros = [cl EXCEPT ![h].pc = "contar", ![h].ultimo = elementos[t]]
    BY <1>0, <2>0, <2>2
  <2>5. PICK s : s = Separar(hilos, "cortada", otros)
    OBVIOUS
  <2>6. SonSeparados(s, hilos, "cortada", otros)
    <3> HIDE DEF hilos
    <3> QED BY <2>3, <2>5, SepararTipo
  <2> USE <2>6 DEF SonSeparados
  <2>8. /\ cl' = s
        /\ diccionario' = IF como = "vigente"
             THEN [diccionario EXCEPT ![t] = Append(SubSeq(lista, 1, u), cl[h].reg)]
             ELSE diccionario
    BY <1>3, <2>4, <2>5 DEF Enlazar
  <2>9. como = "vigente" =>
          /\ lista \in Seq(Registros) /\ u \in 0..Len(lista) /\ cl[h].reg \in Registros
          /\ Append(SubSeq(lista, 1, u), cl[h].reg) \in Seq(Registros)
          /\ Len(Append(SubSeq(lista, 1, u), cl[h].reg)) = u + 1
    <3>1. como = "vigente" => lista \in Seq(Registros) /\ u \in 0..Len(lista) /\ cl[h].reg \in Registros
      BY <1>0, <2>1 DEF Tipado, TipoCl, TCl, EnElInsert
    <3> HIDE DEF como, lista, u
    <3>2. ASSUME como = "vigente"
          PROVE  /\ Append(SubSeq(lista, 1, u), cl[h].reg) \in Seq(Registros)
                 /\ Len(Append(SubSeq(lista, 1, u), cl[h].reg)) = u + 1
      BY <3>1, <3>2
    <3> QED BY <3>1, <3>2
  <2>10. ASSUME NEW g \in Clientes
         PROVE  /\ s[g].pc \in EnElInsert => s[g].reg \in Registros
                /\ s[g].pc = "enlazar" /\ s[g].suLista = "vigente" =>
                     /\ diccionario'[s[g].t] \in Seq(Registros)
                     /\ s[g].ultimo <= Len(diccionario'[s[g].t])
    <3>1. CASE g = h
      BY <2>0, <2>3, <2>6, <3>1
    <3>2. CASE g # h
      <4>1. s[g].pc = cl[g].pc /\ s[g].reg = cl[g].reg /\ s[g].t = cl[g].t /\ s[g].ultimo = cl[g].ultimo
        BY <2>3, <2>6, <3>2
      <4>2. cl[g].pc \in EnElInsert => cl[g].reg \in Registros
        BY DEF Tipado, TipoCl
      <4>3. ASSUME s[g].pc = "enlazar", s[g].suLista = "vigente"
            PROVE  /\ diccionario'[s[g].t] \in Seq(Registros)
                   /\ s[g].ultimo <= Len(diccionario'[s[g].t])
        <5>1. g \notin hilos /\ cl[g].suLista = "vigente"
          BY <2>3, <2>6, <3>2, <4>3
        <5>2. cl[g].ultimo \in Nat /\ u \in Nat
          BY <1>0 DEF TCl
        <5>3. diccionario[cl[g].t] \in Seq(Registros) /\ cl[g].ultimo <= Len(diccionario[cl[g].t])
          BY <4>1, <4>3, <5>1 DEF Tipado, TipoCl
        <5>4. CASE como = "vigente" /\ cl[g].t = t
          <6>1. cl[g].ultimo <= u
            <7>1. g \notin PorEnlazar(t, u) /\ cl[g].pc = "enlazar" /\ cl[g].t = t
              BY <4>1, <4>3, <5>1, <5>4
            <7>2. ~(cl[g].ultimo > u)
              BY <5>1, <7>1 DEF PorEnlazar
            <7> HIDE DEF u
            <7> QED BY <5>2, <7>2
          <6>2. diccionario'[t] = Append(SubSeq(lista, 1, u), cl[h].reg)
            BY <2>1, <2>8, <5>4 DEF Tipado, TipoMem
          <6> HIDE DEF u, lista, como
          <6> QED BY <2>9, <4>1, <5>2, <5>4, <6>1, <6>2
        <5>5. CASE ~(como = "vigente" /\ cl[g].t = t)
          <6>1. diccionario'[cl[g].t] = diccionario[cl[g].t]
            BY <2>8, <5>5 DEF Tipado, TipoMem
          <6> QED BY <4>1, <5>3, <6>1
        <5> QED BY <5>4, <5>5
      <4> QED BY <4>1, <4>2, <4>3
    <3> QED BY <3>1, <3>2
  <2> QED BY <2>6, <2>8, <2>10 DEF TipoCl
<1>4. CASE Limpiar
  <2>1. PICK s : s = Separar(EnSuLista(Tablas), "liberada", cl)
    OBVIOUS
  <2>2. SonSeparados(s, EnSuLista(Tablas), "liberada", cl)
    BY <1>0, <2>1, SepararTipo
  <2> USE <2>2 DEF SonSeparados
  <2>4. ASSUME NEW g \in Clientes
        PROVE  /\ s[g].pc \in EnElInsert => s[g].reg \in Registros
               /\ ~(s[g].pc = "enlazar" /\ s[g].suLista = "vigente")
    <3>1. cl[g].pc \in EnElInsert => cl[g].reg \in Registros
      BY DEF Tipado, TipoCl
    <3>2. ASSUME s[g].pc = "enlazar", s[g].suLista = "vigente" PROVE FALSE
      <4>1. cl[g].pc = "enlazar" /\ cl[g].suLista = "vigente" /\ g \notin EnSuLista(Tablas)
        BY <2>2, <3>2
      <4>2. cl[g].t \in Tablas
        BY <1>0, <4>1 DEF Tipado, Inv, ClientesBien
      <4> QED BY <4>1, <4>2 DEF EnSuLista
    <3> QED BY <2>2, <3>1, <3>2
  <2>5. cl' = s
    BY <1>4, <2>1 DEF Limpiar
  <2> QED BY <2>2, <2>4, <2>5 DEF TipoCl
<1>5. CASE Reiniciar
  <2>1. cl' = [g \in Clientes |-> Libre]
    BY <1>5 DEF Reiniciar
  <2> QED BY <2>1, LibreTipo DEF TipoCl, EnElInsert
<1> QED BY <1>2, <1>3, <1>4, <1>5

\* Of the threads that are at the table list, the one of the step is free after
\* it, and the others keep their place in a list of records.
LEMMA EntradasTipo ==
  ASSUME Tipado, NEW h \in Clientes, Anotar(h) \/ Sacar(h)
  PROVE  TipoCl'
<1>0. /\ cl \in [Clientes -> TCl] /\ UNCHANGED diccionario
      /\ \A g \in Clientes : cl[g].pc \in EnElInsert => cl[g].reg \in Registros
      /\ \A g \in Clientes : cl[g].pc = "enlazar" /\ cl[g].suLista = "vigente" =>
           diccionario[cl[g].t] \in Seq(Registros) /\ cl[g].ultimo <= Len(diccionario[cl[g].t])
  BY DEF Tipado, TipoCl, Anotar, Sacar
<1>1. PICK libre : libre = [cl EXCEPT ![h] = Libre]
  OBVIOUS
<1>2. /\ libre \in [Clientes -> TCl] /\ libre[h] = Libre
      /\ \A g \in Clientes : g # h => libre[g] = cl[g]
  BY <1>0, <1>1, LibreTipo
<1>3. ASSUME NEW otros \in [Clientes -> TCl], NEW hilos, NEW como \in {"cortada", "liberada"},
             cl' = Separar(hilos, como, otros), otros[h] = Libre,
             \A g \in Clientes : g # h => /\ otros[g].pc = cl[g].pc /\ otros[g].t = cl[g].t
                                          /\ otros[g].reg = cl[g].reg /\ otros[g].suLista = cl[g].suLista
                                          /\ cl[g].pc = "enlazar" => otros[g].ultimo = cl[g].ultimo
      PROVE  TipoCl'
  <2>1. PICK s : s = Separar(hilos, como, otros)
    OBVIOUS
  <2>2. SonSeparados(s, hilos, como, otros)
    BY <1>3, <2>1, SepararTipo
  <2>3. ASSUME NEW g \in Clientes
        PROVE  /\ s[g].pc \in EnElInsert => s[g].reg \in Registros
               /\ s[g].pc = "enlazar" /\ s[g].suLista = "vigente" =>
                    diccionario'[s[g].t] \in Seq(Registros) /\ s[g].ultimo <= Len(diccionario'[s[g].t])
    <3>1. CASE g = h
      BY <1>3, <2>2, <3>1, LibreTipo DEF SonSeparados, EnElInsert
    <3>2. CASE g # h
      <4>1. /\ s[g].pc = cl[g].pc /\ s[g].reg = cl[g].reg /\ s[g].t = cl[g].t
            /\ s[g].suLista = "vigente" => cl[g].suLista = "vigente"
            /\ cl[g].pc = "enlazar" => s[g].ultimo = cl[g].ultimo
        BY <1>3, <2>2, <3>2 DEF SonSeparados
      <4> QED BY <1>0, <4>1
    <3> QED BY <3>1, <3>2
  <2> QED BY <1>3, <2>1, <2>2, <2>3 DEF SonSeparados, TipoCl
<1>4. CASE Anotar(h)
  <2>1. \E hilos : cl' = Separar(hilos, "cortada", libre)
    BY <1>1, <1>4 DEF Anotar
  <2> QED BY <1>2, <1>3, <2>1
<1>5. CASE Sacar(h) /\ ~ExisteLaTabla(cl[h].t)
  <2>1. cl' = [cl EXCEPT ![h] = Libre]
    BY <1>5 DEF Sacar
  <2> QED BY <1>0, <2>1, LibreTipo, UnCliente DEF EnElInsert
<1>6. CASE Sacar(h) /\ ExisteLaTabla(cl[h].t)
  <2>1. PICK i : i = Indice(cl[h].t)
    OBVIOUS
  <2>2. PICK otros : otros = Correr(i, libre)
    OBVIOUS
  <2>3. \E hilos : cl' = Separar(hilos, "liberada", otros)
    BY <1>1, <1>6, <2>1, <2>2 DEF Sacar
  <2>4. i \in Nat \ {0}
    <3>1. Esta(listaDeTablas, cl[h].t) /\ listaDeTablas \in Seq(Tablas \X Entradas)
      BY <1>6, Conocidas DEF Tipado, Inv, Tipos
    <3>2. IndiceEn(listaDeTablas, cl[h].t) \in 1..Len(listaDeTablas)
      BY <3>1, EsElPrimero
    <3> QED BY <2>1, <3>2, Conocidas
  <2>5. ASSUME NEW g \in Clientes
        PROVE  /\ otros[g] \in TCl /\ (g = h => otros[g] = Libre)
               /\ g # h => /\ otros[g].pc = cl[g].pc /\ otros[g].t = cl[g].t
                           /\ otros[g].reg = cl[g].reg /\ otros[g].suLista = cl[g].suLista
                           /\ cl[g].pc = "enlazar" => otros[g].ultimo = cl[g].ultimo
    <3>0. h \notin PorAnotar
      BY <1>6 DEF Sacar, En, PorAnotar
    <3>1. CASE g \in PorAnotar /\ cl[g].ultimo > i
      <4>0. g # h /\ cl[g].pc = "anotar"
        BY <3>0, <3>1 DEF PorAnotar
      <4>1. PICK c \in TCl : c = cl[g]
        BY <1>0
      <4>2. PICK n \in Nat : n = c.ultimo - 1
        <5>1. c.ultimo \in Nat
          BY DEF TCl
        <5> QED BY <2>4, <3>1, <4>1, <5>1
      <4>3. otros[g] = [c EXCEPT !.ultimo = n]
        <5>1. otros[g] = [libre[g] EXCEPT !.ultimo = @ - 1]
          BY <2>2, <3>1 DEF Correr
        <5> QED BY <1>2, <4>0, <4>1, <4>2, <5>1
      <4>4. [c EXCEPT !.ultimo = n] \in TCl
        BY DEF TCl
      <4>5. /\ otros[g].pc = c.pc /\ otros[g].t = c.t /\ otros[g].reg = c.reg
            /\ otros[g].suLista = c.suLista
        BY <4>3 DEF TCl
      <4> QED BY <4>0, <4>1, <4>3, <4>4, <4>5
    <3>2. CASE ~(g \in PorAnotar /\ cl[g].ultimo > i)
      <4>1. otros[g] = libre[g]
        BY <2>2, <3>2 DEF Correr
      <4> QED BY <1>0, <1>2, <4>1
    <3> QED BY <3>1, <3>2
  <2>6. otros \in [Clientes -> TCl]
    <3>1. otros = [g \in Clientes |-> otros[g]]
      BY <2>2 DEF Correr
    <3> QED BY <2>5, <3>1
  <2>7. otros[h] = Libre
    BY <2>5
  <2> QED BY <1>3, <2>3, <2>5, <2>6, <2>7
<1> QED BY <1>4, <1>5, <1>6

LEMMA AtenderTipo ==
  ASSUME Tipado, NEW h \in Clientes, Atender(h)
  PROVE  TipoCl'
<1>1. PICK c \in TCl : c = cl[h]
  BY DEF Tipado, TipoCl
<1>2. /\ c.pc # "libre" => c.t \in Tablas
      /\ c.pc \in EnElInsert => c.reg \in Registros
      /\ c.k \in Claves \cup {0} /\ c.visto \in Registros \cup {Nulo} /\ c.vistos \in SUBSET Numeros
      /\ c.pc \in PasosCliente
  BY <1>1 DEF Tipado, Inv, ClientesBien, TipoCl, TCl
<1>3. CASE Poner(h) \/ Enlazar(h)
  BY <1>3, ListaTipo
<1>4. CASE \/ AgregarSinLista(h) \/ EnlazarLiberado(h) \/ SelectMuere(h) \/ TablaMuere(h)
           \/ AnotarLiberado(h)
  <2>1. UNCHANGED <<cl, diccionario>>
    BY <1>4 DEF AgregarSinLista, EnlazarLiberado, SelectMuere, TablaMuere, AnotarLiberado, Morir, Caer
  <2> QED BY <2>1 DEF Tipado, TipoCl
<1>5. CASE Responder(h) \/ Sumar(h)
  <2>1. cl' = [cl EXCEPT ![h] = Libre] /\ UNCHANGED diccionario
    BY <1>5 DEF Responder, Sumar, Termina
  <2> QED BY <2>1, LibreTipo, UnCliente DEF EnElInsert
<1>12. CASE Ingresar(h)
  <2>1. cl' = [cl EXCEPT ![h].pc = "anotar", ![h].ultimo = Len(listaDeTablas)] /\ UNCHANGED diccionario
    BY <1>12 DEF Ingresar
  <2>2. PICK n \in Nat : n = Len(listaDeTablas)
    BY DEF Tipado, Inv, Tipos
  <2>3. PICK r \in TCl : r = [c EXCEPT !.pc = "anotar", !.ultimo = n]
    BY ClienteTipo DEF PasosCliente
  <2>4. r.pc = "anotar"
    BY <2>3 DEF TCl
  <2>5. cl' = [cl EXCEPT ![h] = r]
    BY <1>1, <2>1, <2>2, <2>3
  <2> QED BY <2>1, <2>4, <2>5, UnCliente DEF EnElInsert
<1>13. CASE Anotar(h) \/ Sacar(h)
  BY <1>13, EntradasTipo
<1>6. CASE \/ Compuerta(h) \/ MirarMemtable(h) \/ Mkdir(h) \/ CrearMetadata(h)
           \/ CrearParticiones(h) \/ BorrarArchivos(h) \/ QuitarDirectorio(h)
  <2>1. /\ \E paso \in {"bin", "responder", "filtrar", "ingresar", "metadata", "particiones", "rmdir", "sacar"} :
             cl' = [cl EXCEPT ![h].pc = paso]
        /\ UNCHANGED diccionario
    BY <1>6 DEF Compuerta, MirarMemtable, Mkdir, CrearMetadata, CrearParticiones,
                BorrarArchivos, QuitarDirectorio, Sigue, TrasMkdir
  <2>2. PICK paso \in {"bin", "responder", "filtrar", "ingresar", "metadata", "particiones", "rmdir", "sacar"} :
             cl' = [cl EXCEPT ![h].pc = paso]
    BY <2>1
  <2>3. paso \in PasosCliente /\ paso \notin EnElInsert
    BY DEF PasosCliente, EnElInsert
  <2>4. PICK r \in TCl : r = [c EXCEPT !.pc = paso]
    BY <2>3, ClienteTipo
  <2>5. r.pc = paso /\ cl' = [cl EXCEPT ![h] = r]
    BY <1>1, <2>2, <2>4 DEF TCl
  <2> QED BY <2>1, <2>3, <2>5, UnCliente DEF EnElInsert
<1>7. CASE Agregar(h)
  <2>1. /\ c.pc = "agregar" /\ diccionario[c.t] # SinLista /\ UNCHANGED diccionario
        /\ cl' = [cl EXCEPT ![h] = [c EXCEPT !.pc = "enlazar", !.ultimo = Len(diccionario[c.t])]]
    BY <1>1, <1>7 DEF Agregar, En
  <2>2. c.t \in Tablas /\ diccionario[c.t] \in Seq(Registros) /\ c.reg \in Registros
    BY <1>2, <2>1 DEF Tipado, TipoMem, EnElInsert
  <2>3. PICK u \in Nat : u = Len(diccionario[c.t])
    BY <2>2
  <2>4. PICK r \in TCl : r = [c EXCEPT !.pc = "enlazar", !.ultimo = u]
    BY ClienteTipo DEF PasosCliente
  <2>5. r.pc = "enlazar" /\ r.ultimo = u /\ r.reg = c.reg /\ r.t = c.t
    BY <2>4 DEF TCl
  <2>6. cl' = [cl EXCEPT ![h] = r]
    BY <2>1, <2>3, <2>4
  <2>7. r.ultimo <= Len(diccionario[r.t])
    BY <2>3, <2>5
  <2> QED BY <2>1, <2>2, <2>5, <2>6, <2>7, UnCliente
<1>8. CASE LeerBin(h)
  <2>1. /\ c.pc = "bin" /\ bin[c.t][Particion(c.k)] # NoExiste /\ UNCHANGED diccionario
        /\ cl' = [cl EXCEPT ![h] = [c EXCEPT !.pc = "listar",
                    !.visto = PrimeroDe(bin[c.t][Particion(c.k)], c.k)]]
    BY <1>1, <1>8 DEF LeerBin, En
  <2>2. PICK s \in Seq(Registros) : s = bin[c.t][Particion(c.k)]
    BY <1>2, <2>1, ParticionBien DEF Tipado, TipoBin, Archivo
  <2>3. PICK v \in Registros \cup {Nulo} : v = PrimeroDe(s, c.k)
    BY LectoresTipo
  <2>4. PICK r \in TCl : r = [c EXCEPT !.pc = "listar", !.visto = v]
    BY ClienteTipo DEF PasosCliente
  <2>5. r.pc = "listar"
    BY <2>4 DEF TCl
  <2>6. cl' = [cl EXCEPT ![h] = r]
    BY <2>1, <2>2, <2>3, <2>4
  <2> QED BY <2>1, <2>5, <2>6, UnCliente DEF EnElInsert
<1>9. CASE ListarTmp(h)
  <2>1. PICK V \in SUBSET Existentes(tmp[cl[h].t]) :
          cl' = [cl EXCEPT ![h].pc = "tmp", ![h].vistos = V]
    BY <1>9 DEF ListarTmp
  <2>0. cl[h].pc = "listar" /\ UNCHANGED diccionario
    BY <1>9 DEF ListarTmp, En
  <2>2. V \in SUBSET Numeros
    <3>1. Existentes(tmp[cl[h].t]) \subseteq Numeros
      BY <1>1, <1>2, <2>0 DEF Tipado, TipoTmp, Existentes
    <3> QED BY <3>1
  <2>3. PICK r \in TCl : r = [c EXCEPT !.pc = "tmp", !.vistos = V]
    BY <2>2, ClienteTipo DEF PasosCliente
  <2>4. r.pc = "tmp"
    BY <2>3 DEF TCl
  <2>5. cl' = [cl EXCEPT ![h] = r]
    BY <1>1, <2>1, <2>3
  <2> QED BY <2>0, <2>4, <2>5, UnCliente DEF EnElInsert
<1>10. CASE LeerTmp(h)
  <2>0. PICK n \in cl[h].vistos :
          /\ cl[h].pc = "tmp" /\ tmp[cl[h].t][n] # NoExiste /\ UNCHANGED diccionario
          /\ cl' = [cl EXCEPT
               ![h].visto = RegistroMasNuevo(@, UltimoDe(tmp[cl[h].t][n], cl[h].k)),
               ![h].vistos = @ \ {n}]
    BY <1>10 DEF LeerTmp, En
  <2>1. /\ n \in c.vistos
        /\ c.pc = "tmp" /\ tmp[c.t][n] # NoExiste /\ UNCHANGED diccionario
        /\ cl' = [cl EXCEPT ![h] = [c EXCEPT
               !.visto = RegistroMasNuevo(c.visto, UltimoDe(tmp[c.t][n], c.k)),
               !.vistos = c.vistos \ {n}]]
    BY <1>1, <2>0
  <2>2. PICK s \in Seq(Registros) : s = tmp[c.t][n]
    BY <1>2, <2>1 DEF Tipado, TipoTmp, Archivo
  <2>3. PICK v \in Registros \cup {Nulo} : v = UltimoDe(s, c.k)
    BY LectoresTipo
  <2>4. PICK w \in Registros \cup {Nulo} : w = RegistroMasNuevo(c.visto, v)
    BY <1>2, MasNuevoTipo
  <2>5. PICK V \in SUBSET Numeros : V = c.vistos \ {n}
    BY <1>2
  <2>6. PICK r \in TCl : r = [c EXCEPT !.visto = w, !.vistos = V]
    BY <1>2, ClienteTipo
  <2>7. r.pc = "tmp"
    BY <2>1, <2>6 DEF TCl
  <2>8. cl' = [cl EXCEPT ![h] = r]
    BY <2>1, <2>2, <2>3, <2>4, <2>5, <2>6
  <2> QED BY <2>1, <2>7, <2>8, UnCliente DEF EnElInsert
<1>11. CASE Filtrar(h)
  <2> DEFINE suyos == {r \in EnMemtable(c.t) : r.key = c.k}
             nuevos == {r \in suyos : \A q \in suyos : r.timestamp >= q.timestamp}
  <2>0. cl[h].pc = "filtrar" /\ UNCHANGED diccionario
    BY <1>11 DEF Filtrar, En
  <2>1. PICK q \in IF suyos = {} THEN {Nulo} ELSE nuevos :
          /\ c.pc = "filtrar" /\ UNCHANGED diccionario
          /\ cl' = [cl EXCEPT ![h] = [c EXCEPT !.pc = "responder", !.visto = RegistroMasNuevo(q, c.visto)]]
    <3>1. PICK q \in IF suyos = {} THEN {Nulo} ELSE nuevos :
            cl' = [cl EXCEPT ![h].pc = "responder", ![h].visto = RegistroMasNuevo(q, @)]
      BY <1>1, <1>11 DEF Filtrar
    <3> HIDE DEF suyos, nuevos
    <3> QED BY <1>1, <2>0, <3>1
  <2>2. EnMemtable(c.t) \subseteq Registros
    BY <1>2, <2>1 DEF EnMemtable, Tipado, TipoMem, ToSet
  <2>3. q \in Registros \cup {Nulo}
    BY <2>1, <2>2
  <2>4. PICK w \in Registros \cup {Nulo} : w = RegistroMasNuevo(q, c.visto)
    BY <1>2, <2>3, MasNuevoTipo
  <2>5. PICK r \in TCl : r = [c EXCEPT !.pc = "responder", !.visto = w]
    BY ClienteTipo DEF PasosCliente
  <2>6. r.pc = "responder"
    BY <2>5 DEF TCl
  <2>7. cl' = [cl EXCEPT ![h] = r]
    BY <2>1, <2>4, <2>5
  <2> QED BY <2>1, <2>6, <2>7, UnCliente DEF EnElInsert
<1> QED BY <1>3, <1>4, <1>5, <1>6, <1>7, <1>8, <1>9, <1>10, <1>11, <1>12, <1>13 DEF Atender

-----------------------------------------------------------------------------
(* The dump. *)

LEMMA DormidoTipo == DumpDormido \in TDump /\ DumpDormido.pc = "dormido"
                       /\ DumpDormido.posicion = 0
BY Constantes DEF DumpDormido, TDump, PasosDump, Numeros

\* The number of a new .tmp, and where its last record is.
LEMMA ContarTipo ==
  ASSUME Tipado, NEW t \in Tablas, Contar(t)
  PROVE  /\ diccionario[t] \in Seq(Registros)
         /\ NumeroDeTemporal(t) \in Numeros
         /\ elementos[t] \in Nat
         /\ elementos[t] % TopeUint8 \in 0..(TopeUint8 - 1)
<1>1. diccionario[t] \in Seq(Registros)
  BY DEF Contar, Tipado, TipoMem
<1>2. TopeUint8 \in Nat \ {0}
  BY Constantes
<1>3. PICK k \in Nat : k = elementos[t]
  BY DEF Tipado, TipoCuenta
<1>4. k % TopeUint8 \in 0..(TopeUint8 - 1)
  BY <1>2
<1>5. Existentes(tmp[t]) \in SUBSET Numeros
  BY DEF Existentes, Tipado, TipoTmp
<1>6. IsFiniteSet(Existentes(tmp[t]))
  BY <1>5, HayFinitos, FS_Subset
<1>7. Cardinality(Existentes(tmp[t])) \in Nat
  BY <1>6, FS_CardinalityType
<1>8. Cardinality(Existentes(tmp[t])) < MaxTmp
  BY DEF Contar
<1>9. NumeroDeTemporal(t) \in Numeros
  <2>1. PICK n \in Nat : n = Cardinality(Existentes(tmp[t]))
    BY <1>7
  <2>2. n % TopeUint8 \in 0..n
    BY <1>2
  <2> QED BY <1>8, <2>1, <2>2, Constantes DEF NumeroDeTemporal, Numeros
<1> QED BY <1>1, <1>3, <1>4, <1>9

LEMMA DumpTipo ==
  ASSUME Tipado, Dump \/ Reiniciar
  PROVE  TipoDump'
<1>1. PICK d \in TDump : d = dump
  BY DEF Tipado, TipoDump
<1>2. /\ d.pc \in EnVolcado => d.t \in Tablas
      /\ d.posicion \in Nat
      /\ d.pc = "escribir" => d.posicion > 0
      /\ d.tablas \subseteq Tablas /\ d.hechas \subseteq Tablas
  BY <1>1, Constantes DEF Tipado, TipoDump, TDump
<1>3. ASSUME NEW r \in TDump, dump' = r,
             r.pc \in EnVolcado => r.t \in Tablas, r.pc = "escribir" => r.posicion > 0
      PROVE  TipoDump'
  BY <1>3 DEF TipoDump
<1>4. CASE UNCHANGED dump
  BY <1>4 DEF Tipado, TipoDump
<1>5. CASE DumpDespertar
  <2>1. PICK hay \in SUBSET Tablas : hay = {t \in Tablas : diccionario[t] # SinLista}
    OBVIOUS
  <2>2. PICK r : r = [DumpDormido EXCEPT !.pc = "iterar", !.tablas = hay]
    OBVIOUS
  <2>3. r \in TDump
    BY <2>2, DormidoTipo DEF TDump, PasosDump
  <2>4. r.pc = "iterar" /\ r.pc \notin EnVolcado
    BY <2>2 DEF DumpDormido, EnVolcado
  <2>5. dump' = r
    BY <1>5, <2>1, <2>2 DEF DumpDespertar
  <2> QED BY <1>3, <2>3, <2>4, <2>5
<1>6. ASSUME NEW t \in Tablas, Contar(t) PROVE TipoDump'
  <2>2. PICK p \in 0..(TopeUint8 - 1) : p = elementos[t] % TopeUint8
    BY <1>6, ContarTipo
  <2>3. PICK n \in Numeros : n = NumeroDeTemporal(t)
    BY <1>6, ContarTipo
  <2>4. PICK H \in SUBSET Tablas : H = d.hechas \cup {t}
    BY <1>2
  <2>5. PICK r : r = [d EXCEPT !.pc = "crear", !.t = t, !.hechas = H, !.numero = n, !.posicion = p,
                               !.escritos = <<>>]
    OBVIOUS
  <2>6. r \in TDump
    <3>1. <<>> \in Seq(Registros)
      OBVIOUS
    <3>2. PICK v \in Seq(Registros) : v = <<>>
      BY <3>1
    <3> QED BY <2>5, <3>2 DEF TDump, PasosDump
  <2>7. r.pc = "crear" /\ r.t = t
    BY <2>5 DEF TDump
  <2>8. dump' = r
    BY <1>1, <1>6, <2>2, <2>3, <2>4, <2>5 DEF Contar
  <2> QED BY <1>3, <2>6, <2>7, <2>8
<1>7. ASSUME NEW t \in Tablas, ContarSinTabla(t) PROVE TipoDump'
  <2>1. PICK H \in SUBSET Tablas : H = d.hechas \cup {t}
    BY <1>2
  <2>2. PICK r : r = [d EXCEPT !.hechas = H]
    OBVIOUS
  <2>3. r \in TDump
    BY <2>2 DEF TDump
  <2>4. r.pc = d.pc /\ r.t = d.t /\ r.posicion = d.posicion
    BY <2>2 DEF TDump
  <2>5. dump' = r
    BY <1>1, <1>7, <2>1, <2>2 DEF ContarSinTabla
  <2> QED BY <1>2, <1>3, <2>3, <2>4, <2>5
<1>8. CASE Crear \/ Guardar
  <2>1. PICK paso \in {"guardar", "escribir", "iterar"} :
          /\ dump' = [d EXCEPT !.pc = paso] /\ d.pc \in {"crear", "guardar"}
          /\ paso = "escribir" => d.posicion > 0
    BY <1>1, <1>8 DEF Crear, Guardar, EnDump
  <2>2. PICK r : r = [d EXCEPT !.pc = paso]
    OBVIOUS
  <2>3. r \in TDump
    BY <2>2 DEF TDump, PasosDump
  <2>4. r.pc = paso /\ r.t = d.t /\ r.posicion = d.posicion
    BY <2>2 DEF TDump
  <2> QED BY <1>2, <1>3, <2>1, <2>2, <2>3, <2>4 DEF EnVolcado
<1>9. CASE Escribir
  <2>1. d.pc = "escribir" /\ d.posicion > 0 /\ d.posicion \in 0..(TopeUint8 - 1)
    BY <1>1, <1>2, <1>9 DEF Escribir, EnDump, TDump
  <2>2. PICK p \in 0..(TopeUint8 - 1) : p = d.posicion - 1
    BY <1>2, <2>1, Constantes
  <2>3. PICK x \in Registros : x = Volcando[d.posicion]
    <3>1. Volcando \in Seq(Registros) /\ d.posicion \in DOMAIN Volcando
      BY <1>1, <1>9, VolcandoTipo DEF Escribir, EnDump, EnVolcado
    <3> QED BY <3>1
  <2>4. PICK q \in Seq(Registros) : q = Append(d.escritos, x)
    <3>1. PICK l \in Seq(Registros) : l = d.escritos
      BY DEF TDump
    <3>2. Append(l, x) \in Seq(Registros)
      OBVIOUS
    <3> QED BY <3>1, <3>2
  <2>5. PICK r : r = [d EXCEPT !.pc = "guardar", !.posicion = p, !.escritos = q]
    OBVIOUS
  <2>6. r \in TDump
    BY <2>5 DEF TDump, PasosDump
  <2>7. r.pc = "guardar" /\ r.t = d.t /\ r.posicion = p
    BY <2>5 DEF TDump
  <2>8. dump' = r
    BY <1>1, <1>9, <2>2, <2>3, <2>4, <2>5 DEF Escribir
  <2> QED BY <1>2, <1>3, <2>1, <2>6, <2>7, <2>8 DEF EnVolcado
<1>10. CASE Limpiar \/ Reiniciar
  <2>1. dump' = DumpDormido
    BY <1>10 DEF Limpiar, Reiniciar
  <2> QED BY <1>3, <2>1, DormidoTipo DEF EnVolcado
<1>11. CASE DumpSinNada \/ DumpMuere
  BY <1>4, <1>11 DEF DumpSinNada, DumpMuere, Morir, Caer, vars
<1> QED BY <1>5, <1>6, <1>7, <1>8, <1>9, <1>10, <1>11 DEF Dump

-----------------------------------------------------------------------------
(* Every step keeps the types. *)

LEMMA CaerTipado ==
  ASSUME Tipado, Inv', NEW motivo, Caer(motivo), apagones' \in 0..Apagones
  PROVE  Tipado'
BY DEF Tipado, TipoMem, TipoCuenta, TipoDir, TipoTmp, TipoTmpc, TipoBin, TipoComp, TipoTiempo, TipoCl,
   TipoDump, ListaVolcada, Caer, cuenta, disco, tiempo

\* The counts, and the list that was put away.
LEMMA CuentaTipo ==
  ASSUME Tipado, NEW h \in Clientes, Poner(h) \/ Sumar(h)
  PROVE  TipoCuenta'
<1>1. cl[h].t \in Tablas /\ cl[h] \in TCl
  BY DEF Tipado, Inv, ClientesBien, TipoCl, Poner, Sumar, En
<1>2. CASE Poner(h)
  <2>1. /\ UNCHANGED elementos \/ elementos' = [elementos EXCEPT ![cl[h].t] = 0]
        /\ vieja' \in {vieja, diccionario[cl[h].t]}
    BY <1>2 DEF Poner, cuenta
  <2> QED BY <1>1, <2>1 DEF Tipado, TipoMem, TipoCuenta
<1>3. CASE Sumar(h)
  <2>1. PICK n \in Nat : n = cl[h].ultimo + 1
    BY <1>1 DEF TCl
  <2>2. /\ UNCHANGED elementos \/ elementos' = [elementos EXCEPT ![cl[h].t] = n]
        /\ vieja' = vieja
    BY <1>3, <2>1 DEF Sumar
  <2> QED BY <2>2 DEF Tipado, TipoCuenta
<1> QED BY <1>2, <1>3

\* The dump has at most one table at a time, and that table keeps a list.
LEMMA ListaTrasDump ==
  ASSUME Tipado, Dump, UNCHANGED diccionario \/ Limpiar, TipoMem'
  PROVE  ListaVolcada'
<1>1. DOMAIN dump = DOMAIN DumpDormido
  BY DEF Tipado, TipoDump, TDump, DumpDormido
<1>2. CASE \E t \in Tablas : Contar(t)
  <2>1. PICK t \in Tablas : Contar(t)
    BY <1>2
  <2>2. dump'.t = t /\ UNCHANGED diccionario /\ diccionario[t] # SinLista
    BY <1>1, <2>1 DEF Contar, DumpDormido
  <2>3. diccionario[t] \in Seq(Registros)
    BY <2>2 DEF Tipado, TipoMem
  <2>4. diccionario'[dump'.t] \in Seq(Registros)
    BY <2>2, <2>3
  <2> QED BY <2>4 DEF ListaVolcada
<1>3. CASE DumpDespertar \/ Limpiar
  <2>1. PICK hay : \/ dump' = DumpDormido
                   \/ dump' = [DumpDormido EXCEPT !.pc = "iterar", !.tablas = hay]
    BY <1>3 DEF DumpDespertar, Limpiar
  <2>2. dump'.pc \in {"dormido", "iterar"}
    <3>1. dump' = DumpDormido => dump'.pc = "dormido"
      BY DEF DumpDormido
    <3>2. PICK d : d = [DumpDormido EXCEPT !.pc = "iterar", !.tablas = hay]
      OBVIOUS
    <3>3. d.pc = "iterar"
      BY <3>2 DEF DumpDormido
    <3> QED BY <2>1, <3>1, <3>2, <3>3
  <2>3. dump'.pc \notin EnVolcado
    BY <2>2 DEF EnVolcado
  <2> QED BY <2>3 DEF ListaVolcada
<1>4. CASE DumpSinNada \/ DumpMuere \/ \E t \in Tablas : ContarSinTabla(t)
  <2>1. UNCHANGED diccionario /\ dump'.pc = dump.pc /\ dump'.t = dump.t
    BY <1>1, <1>4 DEF DumpSinNada, DumpMuere, ContarSinTabla, Morir, Caer, vars, DumpDormido
  <2> QED BY <2>1 DEF Tipado, ListaVolcada
<1>5. CASE Crear \/ Guardar \/ Escribir
  <2>1. UNCHANGED diccionario /\ dump.pc \in EnVolcado /\ dump'.t = dump.t
    BY <1>1, <1>5 DEF Crear, Guardar, Escribir, EnDump, EnVolcado, DumpDormido
  <2> QED BY <2>1 DEF Tipado, ListaVolcada
<1> QED BY <1>2, <1>3, <1>4, <1>5 DEF Dump

LEMMA PasoTipado == Tipado /\ [Next]_vars => Tipado'
<1> SUFFICES ASSUME Tipado, [Next]_vars PROVE Tipado'
  OBVIOUS
<1>0. Inv' /\ apagones \in 0..Apagones
  BY PasoInv DEF Tipado, TipoTiempo
<1>1. CASE \E h \in Clientes : Pedido(h)
  <2>1. PICK h \in Clientes : Pedido(h)
    BY <1>1
  <2>2. UNCHANGED <<diccionario, elementos, vieja, directorios, metadatas, tmp, tmpc, bin, comp, dump>>
    BY <2>1, CambiosPedido DEF cuenta
  <2>3. TipoCl' /\ TipoTiempo'
    BY <2>1, PedidoTipo
  <2> QED BY <1>0, <2>2, <2>3 DEF Tipado, TipoMem, TipoCuenta, TipoDir, TipoTmp, TipoTmpc, TipoBin, TipoComp,
            TipoDump, ListaVolcada
<1>2. CASE \E h \in Clientes : Atender(h)
  <2>1. PICK h \in Clientes : Atender(h)
    BY <1>2
  <2>2. CASE Muerte
    <3>1. UNCHANGED apagones
      BY <2>1, <2>2 DEF Atender, Morir, fallas, Poner, Agregar, AgregarSinLista, Enlazar, Sumar, EnlazarLiberado,
         Compuerta, SelectMuere, LeerBin, ListarTmp, LeerTmp, MirarMemtable, Filtrar, Responder,
         Mkdir, CrearMetadata, CrearParticiones, Ingresar, Anotar, AnotarLiberado, BorrarArchivos, QuitarDirectorio, Sacar, TablaMuere
    <3> QED BY <1>0, <2>2, <3>1, CaerTipado DEF Muerte
  <2>3. CASE ~Muerte
    <3>1. /\ UNCHANGED <<dump, tiempo, fallas>>
          /\ UNCHANGED diccionario \/ Poner(h) \/ Enlazar(h)
          /\ UNCHANGED elementos \/ Poner(h) \/ Sumar(h)
          /\ UNCHANGED vieja \/ Poner(h)
          /\ UNCHANGED <<directorios, metadatas>> \/ Mkdir(h) \/ CrearMetadata(h)
                 \/ BorrarArchivos(h) \/ QuitarDirectorio(h)
          /\ UNCHANGED <<tmp, tmpc>> \/ BorrarArchivos(h)
          /\ UNCHANGED bin \/ BorrarArchivos(h) \/ CrearParticiones(h)
          /\ UNCHANGED comp \/ Anotar(h)
      BY <2>1, <2>3, CambiosAtender
    <3>2. TipoMem'
      BY <3>1, MemTipo DEF Tipado, TipoMem
    <3>3. TipoDir'
      BY <3>1, DirTipo DEF Tipado, TipoDir
    <3>4. TipoTmp' /\ TipoTmpc'
      BY <3>1, TmpTipo DEF Tipado, TipoTmp, TipoTmpc
    <3>5. TipoBin'
      BY <3>1, TmpTipo, BinTipo DEF Tipado, TipoBin
    <3>6. TipoComp'
      BY <3>1, CompTipo DEF Tipado, TipoComp
    <3>7. TipoTiempo' /\ TipoDump'
      BY <3>1 DEF Tipado, TipoTiempo, TipoDump, tiempo, fallas
    <3>8. TipoCl'
      BY <2>1, AtenderTipo
    <3>9. TipoCuenta'
      <4>1. CASE Poner(h) \/ Sumar(h)
        BY <4>1, CuentaTipo
      <4>2. CASE ~(Poner(h) \/ Sumar(h))
        BY <3>1, <4>2 DEF Tipado, TipoCuenta
      <4> QED BY <4>1, <4>2
    <3>10. ListaVolcada'
      <4>1. dump'.pc \in EnVolcado => diccionario[dump.t] \in Seq(Registros) /\ dump.t \in Tablas /\ dump' = dump
        BY <3>1 DEF Tipado, TipoDump, ListaVolcada
      <4>2. CASE Poner(h) \/ Enlazar(h)
        BY <4>1, <4>2, MemTipo DEF ListaVolcada
      <4>3. CASE UNCHANGED diccionario
        BY <4>1, <4>3 DEF ListaVolcada
      <4> QED BY <3>1, <4>2, <4>3
    <3> QED BY <1>0, <3>2, <3>3, <3>4, <3>5, <3>6, <3>7, <3>8, <3>9, <3>10 DEF Tipado
  <2> QED BY <2>2, <2>3
<1>3. CASE Dump
  <2>2. CASE Muerte
    <3>1. UNCHANGED apagones
      BY <1>3, <2>2 DEF Dump, Morir, fallas, DumpSinNada, DumpDespertar, Contar, ContarSinTabla, Crear,
         Guardar, Escribir, DumpMuere, Limpiar, vars
    <3> QED BY <1>0, <2>2, <3>1, CaerTipado DEF Muerte
  <2>3. CASE ~Muerte
    <3>1. /\ UNCHANGED <<directorios, metadatas, tmpc, bin, comp, tiempo, fallas>>
          /\ UNCHANGED <<diccionario, elementos>> \/ Limpiar
          /\ UNCHANGED vieja \/ Limpiar \/ \E t \in Tablas : Contar(t)
          /\ UNCHANGED cl \/ Limpiar
          /\ UNCHANGED tmp \/ Crear \/ Guardar \/ Escribir
      BY <1>3, <2>3, CambiosDump
    <3>2. TipoDump'
      BY <1>3, DumpTipo
    <3>3. TipoTmp'
      BY <3>1, TmpTipo DEF Tipado, TipoTmp
    <3>4. TipoDir' /\ TipoTmpc' /\ TipoBin' /\ TipoComp' /\ TipoTiempo'
      BY <3>1 DEF Tipado, TipoDir, TipoTmpc, TipoBin, TipoComp, TipoTiempo, tiempo, fallas
    <3>5. TipoMem' /\ TipoCl'
      <4>1. CASE Limpiar
        <5>1. TipoMem'
          BY <4>1 DEF Limpiar, TipoMem
        <5>2. CASE Clientes = {}
          <6>1. cl' = [g \in Clientes |-> IF g \in EnSuLista(Tablas) THEN [cl[g] EXCEPT !.suLista = "liberada"]
                                         ELSE cl[g]]
            BY <4>1 DEF Limpiar, Separar
          <6> QED BY <5>1, <5>2, <6>1 DEF TipoCl
        <5>3. CASE Clientes # {}
          BY <4>1, <5>1, <5>3, ListaTipo
        <5> QED BY <5>1, <5>2, <5>3
      <4>2. CASE ~Limpiar
        BY <3>1, <4>2 DEF Tipado, TipoMem, TipoCl
      <4> QED BY <4>1, <4>2
    <3>6. TipoCuenta'
      <4>1. CASE Limpiar
        BY <4>1 DEF Limpiar, TipoCuenta
      <4>2. CASE \E t \in Tablas : Contar(t)
        BY <3>1, <4>2 DEF Contar, Tipado, TipoCuenta
      <4> QED BY <3>1, <4>1, <4>2 DEF Tipado, TipoCuenta
    <3>7. ListaVolcada'
      BY <1>3, <3>1, <3>5, ListaTrasDump
    <3> QED BY <1>0, <3>2, <3>3, <3>4, <3>5, <3>6, <3>7 DEF Tipado
  <2> QED BY <2>2, <2>3
<1>4. CASE \E e \in Entradas : Compactacion(e)
  <2>1. PICK e \in Entradas : Compactacion(e)
    BY <1>4
  <2>2. CASE Muerte
    <3>1. UNCHANGED apagones
      BY <2>1, <2>2 DEF Compactacion, Morir, fallas, Nacer, CompDespertar, Tomar, Renombrar,
        LevantarClaves, BorrarTmpc, BorrarBin, CrearBin, EscribirBin, GuardarBin, CompMuere, Soltar
    <3> QED BY <1>0, <2>2, <3>1, CaerTipado DEF Muerte
  <2>3. CASE ~Muerte
    <3>1. /\ UNCHANGED <<directorios, metadatas, diccionario, elementos, vieja, cl, dump, tiempo, fallas>>
          /\ UNCHANGED tmp \/ Renombrar(e)
          /\ UNCHANGED tmpc \/ Renombrar(e) \/ BorrarTmpc(e)
          /\ UNCHANGED bin \/ BorrarBin(e) \/ CrearBin(e) \/ EscribirBin(e)
      BY <2>1, <2>3, CambiosComp DEF cuenta
    <3>2. TipoComp'
      BY <2>1, CompTipo
    <3>3. TipoTmp' /\ TipoTmpc'
      BY <3>1, TmpTipo DEF Tipado, TipoTmp, TipoTmpc
    <3>4. TipoBin'
      BY <3>1, BinTipo DEF Tipado, TipoBin
    <3>5. TipoDir' /\ TipoMem' /\ TipoCuenta' /\ TipoCl' /\ TipoDump' /\ ListaVolcada' /\ TipoTiempo'
      BY <3>1 DEF Tipado, TipoDir, TipoMem, TipoCuenta, TipoCl, TipoDump, ListaVolcada, TipoTiempo, tiempo, fallas
    <3> QED BY <1>0, <3>2, <3>3, <3>4, <3>5 DEF Tipado
  <2> QED BY <2>2, <2>3
<1>5. CASE Apagar
  BY <1>0, <1>5, CaerTipado, Constantes DEF Apagar
<1>6. CASE Reiniciar
  <2>1. TipoDump' /\ TipoComp'
    BY <1>6, DumpTipo, CompTipo
  <2>2. TipoMem' /\ TipoCuenta' /\ ListaVolcada'
    BY <1>6 DEF Reiniciar, TipoMem, TipoCuenta, ListaVolcada, DumpDormido, EnVolcado
  <2>3. TipoCl'
    <3>1. cl' = [h \in Clientes |-> Libre]
      BY <1>6 DEF Reiniciar
    <3> QED BY <3>1, LibreTipo DEF TipoCl, EnElInsert
  <2>4. TipoDir' /\ TipoTmp' /\ TipoTmpc' /\ TipoBin' /\ TipoTiempo'
    BY <1>6 DEF Reiniciar, disco, tiempo, Tipado, TipoDir, TipoTmp, TipoTmpc, TipoBin, TipoTiempo
  <2> QED BY <1>0, <2>1, <2>2, <2>3, <2>4 DEF Tipado
<1>7. CASE UNCHANGED vars
  BY <1>0, <1>7 DEF vars, cuenta, disco, tiempo, fallas, Tipado, TipoMem, TipoCuenta, TipoDir, TipoTmp,
     TipoTmpc, TipoBin, TipoComp, TipoTiempo, TipoCl, TipoDump, ListaVolcada
<1> QED BY <1>1, <1>2, <1>3, <1>4, <1>5, <1>6, <1>7 DEF Next

\* The variables have the types of the source: no thread goes past the end of a
\* list, the number of a new .tmp is below MaxTmp, and what is read is records.
THEOREM TiposLFS == Spec => []TypeOK
<1>1. Init => Tipado
  BY InitTipado
<1>2. Tipado /\ [Next]_vars => Tipado'
  BY PasoTipado
<1>3. Tipado => TypeOK
  BY TipadoTypeOK
<1> QED BY <1>1, <1>2, <1>3, PTL DEF Spec

-----------------------------------------------------------------------------
(* What a step leaves of the threads it is not of. *)

\* The two threads differ at most in the list they link to, and, where that is
\* the list of tables, in the place in it.
Iguales(c, d) ==
  /\ c.pc = d.pc /\ c.t = d.t /\ c.k = d.k /\ c.reg = d.reg /\ c.error = d.error
  /\ c.entrada = d.entrada /\ c.visto = d.visto /\ c.vistos = d.vistos
  /\ d.pc # "anotar" => c.ultimo = d.ultimo

LEMMA AtenderOtros ==
  ASSUME Tipado, NEW h \in Clientes, Atender(h), NEW g \in Clientes, g # h
  PROVE  Iguales(cl'[g], cl[g])
<1>0. DOMAIN cl = Clientes /\ DOMAIN cl[g] = CamposCl
  BY DEF Tipado, Inv, ClientesBien
<1>1. ASSUME NEW otros, Iguales(otros[g], cl[g]), DOMAIN otros[g] = CamposCl,
             NEW hilos, NEW como, cl' = Separar(hilos, como, otros)
      PROVE  Iguales(cl'[g], cl[g])
  <2>1. cl'[g] = IF g \in hilos THEN [otros[g] EXCEPT !.suLista = como] ELSE otros[g]
    BY <1>1 DEF Separar
  <2> QED BY <1>1, <2>1 DEF Iguales, CamposCl
<1>2. ASSUME NEW r, NEW otros, otros = [cl EXCEPT ![h] = r]
      PROVE  Iguales(otros[g], cl[g]) /\ DOMAIN otros[g] = CamposCl /\ otros[g] = cl[g]
  BY <1>0, <1>2 DEF Iguales
<1>3. CASE Enlazar(h)
  <2>1. PICK n : n = elementos[cl[h].t]
    OBVIOUS
  <2>2. PICK r : r = [cl[h] EXCEPT !.pc = "contar", !.ultimo = n]
    OBVIOUS
  <2>3. PICK otros : otros = [cl EXCEPT ![h] = r]
    OBVIOUS
  <2>4. otros = [cl EXCEPT ![h].pc = "contar", ![h].ultimo = n]
    BY <2>2, <2>3
  <2>5. \E hilos : cl' = Separar(hilos, "cortada", otros)
    BY <1>3, <2>1, <2>4 DEF Enlazar
  <2> QED BY <1>1, <1>2, <2>3, <2>5
<1>4. CASE Poner(h)
  <2>1. PICK r : r = [cl[h] EXCEPT !.pc = "agregar"]
    OBVIOUS
  <2>2. PICK otros : otros = [cl EXCEPT ![h] = r]
    OBVIOUS
  <2>3. otros = [cl EXCEPT ![h].pc = "agregar"]
    BY <2>1, <2>2
  <2>4. (\E hilos : cl' = Separar(hilos, "reemplazada", otros)) \/ cl' = otros
    BY <1>4, <2>3 DEF Poner
  <2> QED BY <1>1, <1>2, <2>2, <2>4
<1>5. CASE Anotar(h) \/ (Sacar(h) /\ ExisteLaTabla(cl[h].t))
  <2>1. PICK libre : libre = [cl EXCEPT ![h] = Libre]
    OBVIOUS
  <2>2. CASE Anotar(h)
    <3>1. \E hilos : cl' = Separar(hilos, "cortada", libre)
      BY <2>1, <2>2 DEF Anotar
    <3> QED BY <1>1, <1>2, <2>1, <3>1
  <2>3. CASE Sacar(h) /\ ExisteLaTabla(cl[h].t)
    <3>1. PICK i : i = Indice(cl[h].t)
      OBVIOUS
    <3>2. PICK otros : otros = Correr(i, libre)
      OBVIOUS
    <3>3. \E hilos : cl' = Separar(hilos, "liberada", otros)
      BY <2>1, <2>3, <3>1, <3>2 DEF Sacar
    <3>4. otros[g] = IF g \in PorAnotar /\ cl[g].ultimo > i THEN [cl[g] EXCEPT !.ultimo = @ - 1] ELSE cl[g]
      BY <1>2, <2>1, <3>2 DEF Correr
    <3>5. Iguales(otros[g], cl[g]) /\ DOMAIN otros[g] = CamposCl
      BY <1>0, <3>4 DEF Iguales, CamposCl, PorAnotar
    <3> QED BY <1>1, <3>3, <3>5
  <2> QED BY <1>5, <2>2, <2>3
<1>6. CASE ~(Poner(h) \/ Enlazar(h) \/ Anotar(h) \/ (Sacar(h) /\ ExisteLaTabla(cl[h].t)))
  <2>1. cl'[g] = cl[g]
    BY <1>0, <1>6, ZenonT(60) DEF Atender, Morir, Caer, Sigue, Termina, Agregar, AgregarSinLista, Sumar,
      EnlazarLiberado, Compuerta, SelectMuere, LeerBin, ListarTmp, LeerTmp, MirarMemtable, Filtrar,
      Responder, Mkdir, CrearMetadata, CrearParticiones, Ingresar, AnotarLiberado, BorrarArchivos,
      QuitarDirectorio, Sacar, TablaMuere
  <2> QED BY <2>1 DEF Iguales
<1> QED BY <1>3, <1>4, <1>5, <1>6

LEMMA DumpOtros ==
  ASSUME Tipado, Dump, NEW g \in Clientes
  PROVE  Iguales(cl'[g], cl[g])
<1>1. DOMAIN cl = Clientes /\ DOMAIN cl[g] = CamposCl
  BY DEF Tipado, Inv, ClientesBien
<1>2. CASE Limpiar
  <2>1. cl'[g] = IF g \in EnSuLista(Tablas) THEN [cl[g] EXCEPT !.suLista = "liberada"] ELSE cl[g]
    BY <1>2 DEF Limpiar, Separar
  <2> QED BY <1>1, <2>1 DEF Iguales, CamposCl
<1>3. CASE UNCHANGED cl
  BY <1>3 DEF Iguales
<1> QED BY <1>2, <1>3, CambiosDump DEF Muerte, Caer

LEMMA PedidoOtros ==
  ASSUME Tipado, NEW h \in Clientes, Pedido(h)
  PROVE  cl[h].pc = "libre" /\ \A g \in Clientes : g # h => cl'[g] = cl[g]
BY ZenonT(60) DEF Pedido, Recibe, Insert, Select, Create, Drop, Tipado, Inv, ClientesBien

LEMMA CompOtros ==
  ASSUME Tipado, NEW e \in Entradas, Compactacion(e)
  PROVE  /\ DOMAIN comp' = Entradas
         /\ \A f \in Entradas : f # e => comp'[f] = comp[f]
         /\ comp'[e].t = comp[e].t
         /\ cl' = cl /\ dump' = dump
<1>1. DOMAIN comp = Entradas /\ DOMAIN comp[e] = CamposHilo
  BY DEF Tipado, Inv, Tipos
<1>2. cl' = cl /\ dump' = dump
  BY CambiosComp DEF Muerte, Caer
<1> USE DEF Avanza, CamposHilo
<1>3. CASE UNCHANGED comp
  BY <1>1, <1>2, <1>3
<1>5. CASE Nacer(e)
  BY <1>1, <1>2, <1>5 DEF Nacer, Morir, Caer
<1>6. CASE CompDespertar(e) \/ BorrarTmpc(e) \/ BorrarBin(e) \/ EscribirBin(e)
  BY <1>1, <1>2, <1>6 DEF CompDespertar, BorrarTmpc, BorrarBin, EscribirBin
<1>7. CASE Tomar(e)
  BY <1>1, <1>2, <1>7 DEF Tomar
<1>8. CASE Renombrar(e)
  BY <1>1, <1>2, <1>8 DEF Renombrar
<1>9. CASE LevantarClaves(e)
  BY <1>1, <1>2, <1>9 DEF LevantarClaves
<1>10. CASE CrearBin(e) \/ GuardarBin(e) \/ Soltar(e)
  BY <1>1, <1>2, <1>10 DEF CrearBin, GuardarBin, Soltar
<1>11. CASE CompMuere(e)
  BY <1>3, <1>11 DEF CompMuere, Morir, Caer
<1> QED BY <1>5, <1>6, <1>7, <1>8, <1>9, <1>10, <1>11 DEF Compactacion

\* The record a compaction writes next, and the partition it goes to.
LEMMA EscribirBinBien ==
  ASSUME Tipado, NEW e \in Entradas, EscribirBin(e)
  PROVE  \E r \in Registros, p \in NumerosBin, s \in Seq(Registros) :
           /\ comp[e].j \in 1..Len(comp[e].claves) /\ r = comp[e].claves[comp[e].j]
           /\ p = Particion(r.key) /\ comp[e].t \in Tablas
           /\ s = bin[comp[e].t][p]
           /\ bin' = [bin EXCEPT ![comp[e].t][p] = Append(s, r)]
<1> DEFINE t == comp[e].t  x == comp[e].claves[comp[e].j]  q == Particion(x.key)
<1>1. /\ comp[e].claves \in Seq(Registros) /\ comp[e].j \in 1..Len(comp[e].claves)
      /\ comp[e].t \in Tablas
  <2>1. comp[e] \in TComp
    BY DEF Tipado, TipoComp
  <2>2. /\ comp[e].pc = "escribir" /\ comp[e].j <= Len(comp[e].claves)
    BY DEF EscribirBin, EnComp
  <2>3. comp[e].claves \in Seq(Registros) /\ comp[e].j \in Nat \ {0} /\ comp[e].t \in Tablas
    BY <2>1, <2>2 DEF TComp, THilo
  <2>4. Len(comp[e].claves) \in Nat
    BY <2>3, LenProperties
  <2> QED BY <2>2, <2>3, <2>4
<1>2. PICK r \in Registros : r = x
  BY <1>1
<1>3. PICK p \in NumerosBin : p = q
  BY <1>2, ParticionBien DEF Registros
<1>4. bin[t][p] # NoExiste /\ bin' = [bin EXCEPT ![t][p] = Append(bin[t][p], r)]
  BY <1>2, <1>3 DEF EscribirBin
<1>5. bin[t][p] \in Seq(Registros)
  BY <1>1, <1>3, <1>4 DEF Tipado, TipoBin, Archivo
<1> QED BY <1>1, <1>2, <1>3, <1>4, <1>5

LEMMA VacioHay == <<>> # NoExiste /\ <<>> # SinLista
<1>1. <<>> \in Seq(Registros)
  OBVIOUS
<1> QED BY <1>1, Constantes

-----------------------------------------------------------------------------
(* The process can be started again. *)

\* An entry that was never made has no thread.
SinEntradaNiHilo == \A e \in Entradas : mutex[e] = "nunca" => comp[e].pc = "fin"

HayArchivos(t) == Existentes(tmp[t]) \cup Existentes(tmpc[t]) \cup Existentes(bin[t]) # {}

\* A compaction has taken the .tmp files of t and not made its partitions yet.
EnObra(t) ==
  \E e \in Entradas :
    comp[e].t = t /\ comp[e].pc \in {"renombrar", "leer", "borrarTmpc", "borrarBin", "crearBin"}
AMedias(t) == \E h \in Clientes : cl[h].t = t /\ cl[h].pc \in {"metadata", "rmdir"}

Arranca ==
  /\ Tipado
  /\ SinEntradaNiHilo
  /\ \A t \in directorios \ metadatas : HayArchivos(t) \/ EnObra(t) \/ AMedias(t)

LEMMA ArrancaSiempre == Arranca => SiempreArranca
BY DEF Arranca, SiempreArranca, HayArchivos, EnObra, AMedias, Compactando

LEMMA HilosDeArranque ==
  ASSUME NEW D \in SUBSET Tablas
  PROVE  \A e \in Entradas :
           MutexDe(SetToSeq(D))[e] = "nunca" => HilosDe(SetToSeq(D))[e].pc = "fin"
BY DEF MutexDe, HilosDe, Hilo

LEMMA ArrancaInit == Init => Arranca
<1> SUFFICES ASSUME Init PROVE Arranca
  OBVIOUS
<1>1. EnDisco \in SUBSET Tablas
  BY ConstantesValidas
<1>2. SinEntradaNiHilo
  BY <1>1, HilosDeArranque DEF Init, SinEntradaNiHilo
<1> QED BY <1>2, InitTipado DEF Init, Arranca

LEMMA EntradasPaso ==
  ASSUME Tipado, SinEntradaNiHilo, [Next]_vars
  PROVE  SinEntradaNiHilo'
<1>0. /\ DOMAIN mutex = Entradas /\ DOMAIN comp = Entradas
      /\ \A e \in Entradas : DOMAIN comp[e] = CamposHilo
  BY DEF Tipado, Inv, Tipos
<1>1. CASE UNCHANGED <<mutex, comp>>
  BY <1>1 DEF SinEntradaNiHilo
<1>2. ASSUME NEW h \in Clientes, Pedido(h) PROVE UNCHANGED <<mutex, comp>>
  BY <1>2, CambiosPedido DEF listas
<1>3. ASSUME NEW h \in Clientes, Atender(h) PROVE SinEntradaNiHilo'
  <2>1. CASE Anotar(h)
    <3>1. PICK e : /\ mutex' = [mutex EXCEPT ![e] = "libre"]
                   /\ comp' = [comp EXCEPT ![e] = Hilo("nace", cl[h].t)]
      BY <2>1, EntradaNueva
    <3>2. ASSUME NEW f \in Entradas, mutex'[f] = "nunca" PROVE comp'[f].pc = "fin"
      <4>1. f # e
        BY <1>0, <3>1, <3>2
      <4> QED BY <1>0, <3>1, <3>2, <4>1 DEF SinEntradaNiHilo
    <3> QED BY <3>2 DEF SinEntradaNiHilo
  <2>2. CASE Sacar(h)
    <3>1. UNCHANGED comp /\ (UNCHANGED mutex \/
            mutex' = [mutex EXCEPT ![Entrada(cl[h].t)] = IF @ = "tomado" THEN @ ELSE "destruido"])
      BY <2>2 DEF Sacar, listas
    <3> QED BY <1>0, <3>1 DEF SinEntradaNiHilo
  <2>3. CASE UNCHANGED <<listas, comp>>
    BY <1>1, <2>3 DEF listas
  <2> QED BY <1>3, <2>1, <2>2, <2>3, AtenderClientes DEF Tipado
<1>4. CASE Dump
  BY <1>1, <1>4, DumpClientes DEF Tipado, listas
<1>5. ASSUME NEW e \in Entradas, Compactacion(e) PROVE SinEntradaNiHilo'
  <2>1. /\ DOMAIN comp' = Entradas
        /\ \A f \in Entradas : f # e => comp'[f] = comp[f]
    BY <1>5, CompOtros
  <2>2. CASE Muerte
    BY <1>1, <2>2 DEF Muerte, Caer, listas
  <2>3. CASE ~Muerte
    <3>1. comp[e].pc # "fin"
      BY <1>5, <2>3, ZenonT(60) DEF Compactacion, Muerte, Morir, EnComp, Nacer, CompDespertar, Tomar,
        Renombrar, LevantarClaves, BorrarTmpc, BorrarBin, CrearBin, EscribirBin, GuardarBin,
        CompMuere, Soltar
    <3>2. \A f \in Entradas : mutex'[f] = "nunca" => mutex[f] = "nunca"
      <4>1. UNCHANGED mutex \/ Tomar(e) \/ Soltar(e)
        BY <1>5, <2>3, CambiosComp
      <4> QED BY <1>0, <4>1 DEF Tomar, Soltar, Suelto
    <3> QED BY <2>1, <3>1, <3>2 DEF SinEntradaNiHilo
  <2> QED BY <2>2, <2>3
<1>6. CASE Apagar
  BY <1>1, <1>6 DEF Apagar, Caer, listas
<1>7. CASE Reiniciar
  <2>1. directorios \in SUBSET Tablas
    BY DEF Tipado, Inv, ClientesBien
  <2> QED BY <1>7, <2>1, HilosDeArranque DEF Reiniciar, SinEntradaNiHilo
<1> QED BY <1>1, <1>2, <1>3, <1>4, <1>5, <1>6, <1>7 DEF Next, vars, listas

LEMMA ArrancaPaso == Arranca /\ [Next]_vars => Arranca'
<1> SUFFICES ASSUME Arranca, [Next]_vars PROVE Arranca'
  OBVIOUS
<1>0. Tipado' /\ SinEntradaNiHilo' /\ Tipado /\ SinEntradaNiHilo
  BY PasoTipado, EntradasPaso DEF Arranca
<1> SUFFICES ASSUME NEW t \in directorios' \ metadatas'
             PROVE  HayArchivos(t)' \/ EnObra(t)' \/ AMedias(t)'
  BY <1>0 DEF Arranca
<1>t. t \in Tablas
  BY <1>0 DEF Tipado, Inv, ClientesBien
<1>1. ASSUME t \in directorios \ metadatas PROVE HayArchivos(t) \/ EnObra(t) \/ AMedias(t)
  BY <1>1 DEF Arranca
<1>2. CASE UNCHANGED <<disco, comp, cl>>
  BY <1>1, <1>2 DEF disco, HayArchivos, EnObra, AMedias
<1>3. ASSUME NEW h \in Clientes, Pedido(h)
      PROVE  HayArchivos(t)' \/ EnObra(t)' \/ AMedias(t)'
  <2>1. UNCHANGED <<directorios, metadatas, tmp, tmpc, bin, comp>>
    BY <1>3, CambiosPedido
  <2>2. AMedias(t) => AMedias(t)'
    <3>1. cl[h].pc = "libre" /\ \A g \in Clientes : g # h => cl'[g] = cl[g]
      BY <1>0, <1>3, PedidoOtros
    <3> QED BY <3>1 DEF AMedias
  <2> QED BY <1>1, <2>1, <2>2 DEF HayArchivos, EnObra
<1>4. ASSUME NEW h \in Clientes, Atender(h)
      PROVE  HayArchivos(t)' \/ EnObra(t)' \/ AMedias(t)'
  <2>1. CASE Muerte
    BY <1>2, <2>1 DEF Muerte, Caer
  <2>2. CASE ~Muerte
    <3>1. /\ UNCHANGED <<directorios, metadatas>> \/ Mkdir(h) \/ CrearMetadata(h)
                 \/ BorrarArchivos(h) \/ QuitarDirectorio(h)
          /\ UNCHANGED <<tmp, tmpc>> \/ BorrarArchivos(h)
          /\ UNCHANGED bin \/ BorrarArchivos(h) \/ CrearParticiones(h)
          /\ UNCHANGED comp \/ Anotar(h)
      BY <1>4, <2>2, CambiosAtender
    <3>2. \A g \in Clientes : g # h => cl'[g].pc = cl[g].pc /\ cl'[g].t = cl[g].t
      BY <1>0, <1>4, AtenderOtros DEF Iguales
    <3>3. /\ DOMAIN cl = Clientes /\ DOMAIN cl[h] = CamposCl
          /\ DOMAIN comp = Entradas
      BY <1>0 DEF Tipado, Inv, ClientesBien, Tipos
    <3>4. CASE BorrarArchivos(h)
      <4>1. CASE t = cl[h].t
        BY <3>3, <3>4, <4>1 DEF BorrarArchivos, Sigue, AMedias, CamposCl
      <4>2. CASE t # cl[h].t
        <5>1. /\ t \in directorios \ metadatas /\ UNCHANGED comp
              /\ tmp'[t] = tmp[t] /\ tmpc'[t] = tmpc[t] /\ bin'[t] = bin[t]
          BY <1>0, <1>t, <3>4, <4>2 DEF BorrarArchivos, Tipado, TipoTmp, TipoTmpc, TipoBin
        <5>2. AMedias(t) => AMedias(t)'
          BY <3>2, <4>2 DEF AMedias
        <5> QED BY <1>1, <5>1, <5>2 DEF HayArchivos, EnObra
      <4> QED BY <4>1, <4>2
    <3>5. CASE CrearParticiones(h)
      <4>1. UNCHANGED <<directorios, metadatas, tmp, tmpc, comp>> /\ cl[h].pc = "particiones"
        BY <3>5 DEF CrearParticiones, En
      <4>2. AMedias(t) => AMedias(t)'
        BY <3>2, <4>1 DEF AMedias
      <4>3. HayArchivos(t) => HayArchivos(t)'
        <5>1. bin' = [bin EXCEPT ![cl[h].t] = [p \in NumerosBin |-> <<>>]]
          BY <3>5 DEF CrearParticiones
        <5>2. <<>> # NoExiste
          BY VacioHay
        <5>3. bin[t] \in [NumerosBin -> Archivo]
          BY <1>0, <1>t DEF Tipado, TipoBin
        <5>4. Existentes(bin[t]) \subseteq Existentes(bin'[t])
          BY <1>0, <1>t, <5>1, <5>2, <5>3 DEF Existentes, Tipado, TipoBin
        <5>5. HayArchivos(t)' <=> Existentes(tmp'[t]) \cup Existentes(tmpc'[t]) \cup Existentes(bin'[t]) # {}
          BY DEF HayArchivos
        <5> QED BY <4>1, <5>4, <5>5 DEF HayArchivos
      <4> QED BY <1>1, <4>1, <4>2, <4>3 DEF EnObra
    <3>6. CASE Anotar(h)
      <4>1. UNCHANGED disco /\ cl[h].pc = "anotar"
        BY <3>6 DEF Anotar, En
      <4>2. AMedias(t) => AMedias(t)'
        BY <3>2, <4>1 DEF AMedias
      <4>3. EnObra(t) => EnObra(t)'
        <5>1. PICK e \in Entradas : mutex[e] = "nunca" /\ comp' = [comp EXCEPT ![e] = Hilo("nace", cl[h].t)]
          BY <3>6, EntradaNueva
        <5>2. comp[e].pc = "fin"
          BY <1>0, <5>1 DEF SinEntradaNiHilo
        <5>3. \A f \in Entradas : f # e => comp'[f] = comp[f]
          BY <3>3, <5>1
        <5> QED BY <5>2, <5>3 DEF EnObra
      <4> QED BY <1>1, <4>1, <4>2, <4>3 DEF disco, HayArchivos
    <3>7. CASE Mkdir(h)
      <4>1. /\ UNCHANGED <<metadatas, tmp, tmpc, bin, comp>> /\ cl[h].pc = "mkdir"
            /\ directorios' = directorios \cup {cl[h].t}
            /\ cl' = [cl EXCEPT ![h].pc = IF cl[h].t \in directorios THEN "ingresar" ELSE "metadata"]
        BY <3>7 DEF Mkdir, En, Sigue, TrasMkdir
      <4>2. CASE t \in directorios
        <5>1. AMedias(t) => AMedias(t)'
          BY <3>2, <4>1 DEF AMedias
        <5> QED BY <1>1, <4>1, <4>2, <5>1 DEF HayArchivos, EnObra
      <4>3. CASE t \notin directorios
        <5>1. cl'[h].t = t /\ cl'[h].pc = "metadata"
          BY <3>3, <4>1, <4>3 DEF CamposCl
        <5> QED BY <5>1 DEF AMedias
      <4> QED BY <4>2, <4>3
    <3>8. CASE CrearMetadata(h)
      <4>1. /\ UNCHANGED <<directorios, tmp, tmpc, bin, comp>> /\ metadatas' = metadatas \cup {cl[h].t}
        BY <3>8 DEF CrearMetadata
      <4>2. AMedias(t) => AMedias(t)'
        BY <3>2, <4>1 DEF AMedias
      <4> QED BY <1>1, <4>1, <4>2 DEF HayArchivos, EnObra
    <3>9. CASE QuitarDirectorio(h)
      <4>1. UNCHANGED <<metadatas, tmp, tmpc, bin, comp>>
        BY <3>9 DEF QuitarDirectorio
      <4>2. CASE t = cl[h].t
        <5>1. HayArchivos(t)
          BY <3>9, <4>1, <4>2 DEF QuitarDirectorio, HayArchivos
        <5> QED BY <4>1, <5>1 DEF HayArchivos
      <4>3. CASE t # cl[h].t
        <5>1. AMedias(t) => AMedias(t)'
          BY <3>2, <4>3 DEF AMedias
        <5>2. t \in directorios
          BY <3>9 DEF QuitarDirectorio
        <5> QED BY <1>1, <4>1, <5>1, <5>2 DEF HayArchivos, EnObra
      <4> QED BY <4>2, <4>3
    <3>10. CASE ~(BorrarArchivos(h) \/ CrearParticiones(h) \/ Anotar(h) \/ Mkdir(h)
                   \/ CrearMetadata(h) \/ QuitarDirectorio(h))
      <4>1. UNCHANGED <<directorios, metadatas, tmp, tmpc, bin, comp>>
        BY <3>1, <3>10
      <4>2. AMedias(t) => AMedias(t)'
        <5>1. cl[h].pc \notin {"metadata", "rmdir"}
          <6>1. CASE TablaMuere(h)
            BY <2>2, <6>1 DEF TablaMuere, Muerte, Morir
          <6>2. CASE ~TablaMuere(h)
            BY <1>4, <3>10, <6>2 DEF Atender, Poner, Agregar, AgregarSinLista, Enlazar, Sumar, EnlazarLiberado,
              Compuerta, SelectMuere, LeerBin, ListarTmp, LeerTmp, MirarMemtable, Filtrar, Responder,
              Ingresar, AnotarLiberado, Sacar, En
          <6> QED BY <6>1, <6>2
        <5> QED BY <3>2, <5>1 DEF AMedias
      <4> QED BY <1>1, <4>1, <4>2 DEF HayArchivos, EnObra
    <3> QED BY <3>4, <3>5, <3>6, <3>7, <3>8, <3>9, <3>10
  <2> QED BY <2>1, <2>2
<1>5. CASE Dump
  <2>1. CASE Muerte
    BY <1>2, <2>1 DEF Muerte, Caer
  <2>2. CASE ~Muerte
    <3>1. /\ UNCHANGED <<directorios, metadatas, tmpc, bin, comp>>
          /\ UNCHANGED tmp \/ Crear \/ Guardar \/ Escribir
      BY <1>5, <2>2, CambiosDump
    <3>2. AMedias(t) => AMedias(t)'
      <4>1. \A g \in Clientes : cl'[g].pc = cl[g].pc /\ cl'[g].t = cl[g].t
        BY <1>0, <1>5, DumpOtros DEF Iguales
      <4> QED BY <4>1 DEF AMedias
    <3>3. Existentes(tmp[t]) \subseteq Existentes(tmp'[t])
      <4>1. \E v : (tmp' = [tmp EXCEPT ![dump.t][dump.numero] = v] /\ v # NoExiste) \/ UNCHANGED tmp
        <5>1. \A q, r : q \in Seq(Registros) => q # NoExiste
          BY Constantes
        <5>2. CASE Crear
          <6>1. tmp' = [tmp EXCEPT ![dump.t][dump.numero] = <<>>]
            BY <5>2 DEF Crear
          <6>2. <<>> # NoExiste
            BY VacioHay
          <6> QED BY <6>1, <6>2
        <5>3. CASE Guardar
          <6>1. dump.escritos # NoExiste
            BY <1>0, Constantes DEF Tipado, TipoDump, TDump
          <6> QED BY <5>3, <6>1 DEF Guardar
        <5>4. CASE Escribir
          <6>1. TipoTmp'
            BY <1>0 DEF Tipado
          <6>2. PICK v : v = Append(tmp[dump.t][dump.numero], Volcando[dump.posicion])
            OBVIOUS
          <6>3. tmp' = [tmp EXCEPT ![dump.t][dump.numero] = v]
            BY <5>4, <6>2 DEF Escribir
          <6>4. v # NoExiste
            <7>1. dump.t \in Tablas /\ dump.numero \in Numeros
              BY <1>0, <5>4 DEF Escribir, EnDump, Tipado, TipoDump, TDump, EnVolcado
            <7>2. tmp[dump.t][dump.numero] \in Seq(Registros)
              BY <1>0, <5>4, <7>1 DEF Escribir, Tipado, TipoTmp, Archivo
            <7>3. Volcando \in Seq(Registros) /\ dump.posicion \in DOMAIN Volcando
              BY <1>0, <5>4, VolcandoTipo DEF Escribir, EnDump, EnVolcado
            <7>4. Volcando[dump.posicion] \in Registros
              BY <7>3
            <7>5. v \in Seq(Registros)
              BY <6>2, <7>2, <7>4
            <7> QED BY <7>5, Constantes
          <6> QED BY <6>3, <6>4
        <5> QED BY <3>1, <5>2, <5>3, <5>4
      <4>2. PICK v : (tmp' = [tmp EXCEPT ![dump.t][dump.numero] = v] /\ v # NoExiste) \/ UNCHANGED tmp
        BY <4>1
      <4>3. tmp[t] \in [Numeros -> Archivo] /\ DOMAIN tmp = Tablas
        BY <1>0, <1>t DEF Tipado, TipoTmp
      <4> QED BY <1>t, <4>2, <4>3 DEF Existentes
    <3>4. HayArchivos(t) => HayArchivos(t)'
      <4>1. HayArchivos(t)' <=> Existentes(tmp'[t]) \cup Existentes(tmpc'[t]) \cup Existentes(bin'[t]) # {}
        BY DEF HayArchivos
      <4> QED BY <3>1, <3>3, <4>1 DEF HayArchivos
    <3> QED BY <1>1, <3>1, <3>2, <3>4 DEF EnObra
  <2> QED BY <2>1, <2>2
<1>6. ASSUME NEW e \in Entradas, Compactacion(e)
      PROVE  HayArchivos(t)' \/ EnObra(t)' \/ AMedias(t)'
  <2>1. CASE Muerte
    BY <1>2, <2>1 DEF Muerte, Caer
  <2>2. CASE ~Muerte
    <3>1. /\ UNCHANGED <<directorios, metadatas, cl>>
          /\ UNCHANGED tmp \/ Renombrar(e)
          /\ UNCHANGED tmpc \/ Renombrar(e) \/ BorrarTmpc(e)
          /\ UNCHANGED bin \/ BorrarBin(e) \/ CrearBin(e) \/ EscribirBin(e)
      BY <1>6, <2>2, CambiosComp
    <3>2. /\ \A f \in Entradas : f # e => comp'[f] = comp[f]
          /\ comp'[e].t = comp[e].t
      BY <1>0, <1>6, CompOtros
    <3>3. DOMAIN comp = Entradas /\ DOMAIN comp[e] = CamposHilo /\ t \in directorios \ metadatas
      BY <1>0, <3>1 DEF Tipado, Inv, Tipos
    <3>4. CASE comp[e].t # t
      <4>1. tmp'[t] = tmp[t] /\ tmpc'[t] = tmpc[t] /\ bin'[t] = bin[t]
        <5>1. tmp'[t] = tmp[t]
          BY <1>0, <1>t, <3>1, <3>4 DEF Renombrar, Tipado, TipoTmp
        <5>2. tmpc'[t] = tmpc[t]
          BY <1>0, <1>t, <3>1, <3>4 DEF Renombrar, BorrarTmpc, Tipado, TipoTmpc
        <5>3. bin'[t] = bin[t]
          <6>1. CASE BorrarBin(e) \/ CrearBin(e)
            BY <1>0, <1>t, <3>4, <6>1 DEF BorrarBin, CrearBin, Tipado, TipoBin
          <6>2. CASE EscribirBin(e)
            BY <1>0, <1>t, <3>4, <6>2 DEF EscribirBin, Tipado, TipoBin
          <6> QED BY <3>1, <6>1, <6>2
        <5> QED BY <5>1, <5>2, <5>3
      <4>2. EnObra(t) => EnObra(t)'
        BY <3>2, <3>4 DEF EnObra
      <4> QED BY <1>1, <3>1, <3>3, <4>1, <4>2 DEF HayArchivos, AMedias
    <3>5. CASE comp[e].t = t
      <4>1. CASE Renombrar(e) \/ LevantarClaves(e) \/ BorrarTmpc(e) \/ BorrarBin(e)
        <5>1. comp'[e].pc \in {"renombrar", "leer", "borrarTmpc", "borrarBin", "crearBin"}
          <6>1. CASE Renombrar(e)
            BY <3>3, <6>1 DEF Renombrar, EnComp, CamposHilo
          <6>2. CASE LevantarClaves(e)
            BY <3>3, <6>2 DEF LevantarClaves, CamposHilo
          <6>3. CASE BorrarTmpc(e) \/ BorrarBin(e)
            BY <3>3, <6>3 DEF BorrarTmpc, BorrarBin, Avanza, CamposHilo
          <6> QED BY <4>1, <6>1, <6>2, <6>3
        <5> QED BY <3>2, <3>5, <5>1 DEF EnObra
      <4>2. CASE Tomar(e)
        <5>1. comp'[e].pc \in {"renombrar", "leer"}
          BY <3>3, <4>2 DEF Tomar, CamposHilo
        <5> QED BY <3>2, <3>5, <5>1 DEF EnObra
      <4>3. CASE Nacer(e) \/ CompDespertar(e) \/ EscribirBin(e) \/ GuardarBin(e) \/ Soltar(e) \/ CompMuere(e)
        <5>1. comp[e].pc \in {"nace", "dormida", "escribir", "guardar"}
          BY <2>2, <4>3 DEF Nacer, CompDespertar, EscribirBin, GuardarBin, Soltar, EnComp, CompMuere, Muerte, Morir
        <5>2. EnObra(t) => EnObra(t)'
          BY <3>2, <5>1 DEF EnObra
        <5>3. UNCHANGED <<tmp, tmpc>>
          BY <3>1, <5>1 DEF Renombrar, BorrarTmpc, EnComp
        <5>4. HayArchivos(t) => HayArchivos(t)'
          <6>1. CASE UNCHANGED bin
            BY <5>3, <6>1 DEF HayArchivos
          <6>2. CASE EscribirBin(e)
            <7>1. PICK r \in Registros, p \in NumerosBin, q \in Seq(Registros) :
                     /\ comp[e].j \in 1..Len(comp[e].claves) /\ r = comp[e].claves[comp[e].j]
                     /\ p = Particion(r.key) /\ comp[e].t \in Tablas
                     /\ q = bin[comp[e].t][p]
                     /\ bin' = [bin EXCEPT ![comp[e].t][p] = Append(q, r)]
              BY <1>0, <6>2, EscribirBinBien
            <7>2. PICK v \in Seq(Registros) : v = Append(q, r)
              <8>1. Append(q, r) \in Seq(Registros)
                OBVIOUS
              <8> QED BY <8>1
            <7>3. v # NoExiste
              BY Constantes
            <7>4. bin[t] \in [NumerosBin -> Archivo] /\ DOMAIN bin = Tablas
              BY <1>0, <1>t DEF Tipado, TipoBin
            <7>8. Existentes(bin[t]) \subseteq Existentes(bin'[t])
              BY <1>t, <3>5, <7>1, <7>2, <7>3, <7>4 DEF Existentes
            <7>9. HayArchivos(t)' <=> Existentes(tmp'[t]) \cup Existentes(tmpc'[t]) \cup Existentes(bin'[t]) # {}
              BY DEF HayArchivos
            <7> QED BY <5>3, <7>8, <7>9 DEF HayArchivos
          <6> QED BY <3>1, <5>1, <6>1, <6>2 DEF BorrarBin, CrearBin, EnComp
        <5> QED BY <1>1, <3>1, <3>3, <5>2, <5>4 DEF AMedias
      <4>4. CASE CrearBin(e)
        BY <3>3, <3>5, <4>4 DEF CrearBin
      <4> QED BY <1>6, <4>1, <4>2, <4>3, <4>4 DEF Compactacion
    <3> QED BY <3>4, <3>5
  <2> QED BY <2>1, <2>2
<1>7. CASE Apagar
  BY <1>2, <1>7 DEF Apagar, Caer
<1>8. CASE Reiniciar
  BY <1>8 DEF Reiniciar, disco
<1> QED BY <1>2, <1>3, <1>4, <1>5, <1>6, <1>7, <1>8 DEF Next, vars

\* Whatever the process dies of, it can be started again, unless it died half
\* way through a CREATE or a DROP or left files in a directory without Metadata
\* (inicializarListaDeTablas).
THEOREM SiempreSePuedeArrancar == Spec => []SiempreArranca
<1>1. Init => Arranca
  BY ArrancaInit
<1>2. Arranca /\ [Next]_vars => Arranca'
  BY ArrancaPaso
<1>3. Arranca => SiempreArranca
  BY ArrancaSiempre
<1> QED BY <1>1, <1>2, <1>3, PTL DEF Spec
=============================================================================
