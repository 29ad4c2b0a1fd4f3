--------------------------- MODULE MemoriaProofs ---------------------------
(***************************************************************************)
(* Proofs about Memoria, for any number of frames, tables, keys, values    *)
(* and threads: its types and the integrity of its pages first; then the   *)
(* LRU list, the segments and the counter of free pages.  What holds       *)
(* whatever the clients ask comes before what holds while no table is      *)
(* dropped, because the loop that purges the list after a DROP leaves it   *)
(* out of step with the pages.                                             *)
(* Last comes what a journal keeps of the pages it has gone past, and what *)
(* its wipe may then lose.                                                 *)
(***************************************************************************)
EXTENDS MemoriaProp, Lemas

TPagina == [path : Tablas, numeroPagina : Nat \ {0}, direccion : Marcos,
            modificado : {0, 1}]
TRegistro == [timestamp : Nat, key : Claves \cup {Nulo},
              value : Valores \cup {Nulo}]

\* A set of segments, a set of pages and the frames fit together.  Over
\* values, so that the same lemmas serve an eviction, a DROP and a wipe.
Coherentes(segs, pags, mem) ==
  /\ segs \subseteq Tablas
  /\ pags \subseteq TPagina
  /\ mem \in [Marcos -> TRegistro]
  /\ \A p, q \in pags :
       p # q => /\ p.direccion # q.direccion
                /\ p.path = q.path =>
                     /\ p.numeroPagina # q.numeroPagina
                     /\ mem[p.direccion].key # mem[q.direccion].key
  /\ \A p \in pags : mem[p.direccion].timestamp # 0 /\ p.path \in segs
  /\ \A m \in Marcos :
       mem[m].timestamp # 0 => /\ mem[m].key \in Claves
                               /\ mem[m].value \in Valores
                               /\ \E p \in pags : p.direccion = m

LEMMA VacioTipo == Vacio \in TRegistro /\ Vacio.timestamp = 0
BY DEF Vacio, TRegistro

\* Taking pages out and clearing their frames keeps the rest coherent.
LEMMA QuitarPaginas ==
  ASSUME NEW segs, NEW pags, NEW mem, Coherentes(segs, pags, mem),
         NEW Q \in SUBSET pags,
         NEW resto \in SUBSET Tablas, \A p \in pags \ Q : p.path \in resto
  PROVE  Coherentes(resto, pags \ Q, Liberar(mem, Q))
<1> DEFINE nueva == Liberar(mem, Q)
<1>1. nueva \in [Marcos -> TRegistro]
  BY VacioTipo DEF Liberar, Coherentes
<1>2. \A p \in pags \ Q : nueva[p.direccion] = mem[p.direccion]
  BY DEF Liberar, Coherentes, TPagina
<1>3. \A m \in Marcos : nueva[m].timestamp # 0 =>
        nueva[m] = mem[m] /\ \A p \in Q : p.direccion # m
  BY VacioTipo DEF Liberar
<1> HIDE DEF nueva
<1>4. \A m \in Marcos :
        nueva[m].timestamp # 0 => /\ nueva[m].key \in Claves
                                  /\ nueva[m].value \in Valores
                                  /\ \E p \in pags \ Q : p.direccion = m
  BY <1>3 DEF Coherentes
<1>5. \A p, q \in pags \ Q :
        p # q => /\ p.direccion # q.direccion
                 /\ p.path = q.path =>
                      /\ p.numeroPagina # q.numeroPagina
                      /\ nueva[p.direccion].key # nueva[q.direccion].key
  BY <1>2 DEF Coherentes
<1>6. \A p \in pags \ Q : nueva[p.direccion].timestamp # 0 /\ p.path \in resto
  BY <1>2 DEF Coherentes
<1>7. QED
  BY <1>1, <1>4, <1>5, <1>6 DEF Coherentes, nueva

\* A page for a new key, with a new number, in an empty frame.
LEMMA PonerPagina ==
  ASSUME NEW segs, NEW pags, NEW mem, Coherentes(segs, pags, mem),
         NEW pag \in TPagina, mem[pag.direccion].timestamp = 0,
         NEW ts \in Nat \ {0}, NEW k \in Claves, NEW v \in Valores,
         \A p \in pags : p.path = pag.path =>
           p.numeroPagina # pag.numeroPagina /\ mem[p.direccion].key # k
  PROVE  Coherentes(segs \cup {pag.path}, pags \cup {pag},
                    [mem EXCEPT ![pag.direccion] =
                       [timestamp |-> ts, key |-> k, value |-> v]])
<1> DEFINE reg == [timestamp |-> ts, key |-> k, value |-> v]
           nueva == [mem EXCEPT ![pag.direccion] = reg]
<1>1. reg \in TRegistro /\ reg.timestamp # 0 /\ pag.direccion \in Marcos
  BY DEF TRegistro, TPagina
<1>2. mem \in [Marcos -> TRegistro]
  BY DEF Coherentes
<1>3. nueva \in [Marcos -> TRegistro]
  BY <1>1, <1>2
<1>4. \A p \in pags : /\ p.direccion # pag.direccion
                      /\ nueva[p.direccion] = mem[p.direccion]
  BY <1>2 DEF Coherentes, TPagina
<1>5. nueva[pag.direccion] = reg
  BY <1>1, <1>2
<1>6. \A m \in Marcos : m # pag.direccion => nueva[m] = mem[m]
  BY <1>2
<1>7. reg.key = k /\ reg.value = v
  OBVIOUS
<1> HIDE DEF nueva, reg
<1>8. \A p, q \in pags \cup {pag} :
        p # q => /\ p.direccion # q.direccion
                 /\ p.path = q.path =>
                      /\ p.numeroPagina # q.numeroPagina
                      /\ nueva[p.direccion].key # nueva[q.direccion].key
  <2>1. ASSUME NEW p \in pags, NEW q \in pags, p # q
        PROVE  /\ p.direccion # q.direccion
               /\ p.path = q.path =>
                    /\ p.numeroPagina # q.numeroPagina
                    /\ nueva[p.direccion].key # nueva[q.direccion].key
    BY <2>1, <1>4 DEF Coherentes
  <2>2. ASSUME NEW p \in pags
        PROVE  /\ p.direccion # pag.direccion
               /\ p.path = pag.path =>
                    /\ p.numeroPagina # pag.numeroPagina
                    /\ nueva[p.direccion].key # nueva[pag.direccion].key
    BY <1>4, <1>5, <1>7
  <2>3. QED
    BY <2>1, <2>2
<1>9. \A p \in pags \cup {pag} : /\ nueva[p.direccion].timestamp # 0
                                 /\ p.path \in segs \cup {pag.path}
  BY <1>1, <1>4, <1>5 DEF Coherentes
<1>10. \A m \in Marcos :
         nueva[m].timestamp # 0 => /\ nueva[m].key \in Claves
                                   /\ nueva[m].value \in Valores
                                   /\ \E p \in pags \cup {pag} : p.direccion = m
  <2>1. TAKE m \in Marcos
  <2>2. CASE m = pag.direccion
    BY <2>2, <1>5, <1>7
  <2>3. CASE m # pag.direccion
    BY <2>3, <1>6 DEF Coherentes
  <2>4. QED
    BY <2>2, <2>3
<1>11. segs \cup {pag.path} \subseteq Tablas /\ pags \cup {pag} \subseteq TPagina
  BY DEF Coherentes, TPagina
<1>12. QED
  BY <1>3, <1>8, <1>9, <1>10, <1>11 DEF Coherentes, nueva, reg

LEMMA MarcosFinitos == IsFiniteSet(Marcos) /\ Cardinality(Marcos) = NMarcos
BY FS_Interval, ConstantesValidas DEF Marcos

\* The pages are finite: each has a frame of its own.
LEMMA PaginasFinitas ==
  ASSUME NEW segs, NEW pags, NEW mem, Coherentes(segs, pags, mem)
  PROVE  IsFiniteSet(pags)
<1> DEFINE f == [p \in pags |-> p.direccion]
<1>1. f \in [pags -> Marcos]
  BY DEF Coherentes, TPagina
<1>2. \A p, q \in pags : p # q => f[p] # f[q]
  BY DEF Coherentes
<1>3. f \in Injection(pags, Marcos)
  BY <1>1, <1>2 DEF Injection, IsInjective
<1>4. QED
  BY <1>3, MarcosFinitos, FS_Injection

-----------------------------------------------------------------------------
(* The inductive invariant, and what making room and adding a page do. *)

InvCache ==
  /\ segmentos \in Seq(Tablas)
  /\ cantPaginasLibres \in Int
  /\ Coherentes(ToSet(segmentos), paginas, memoria)

InvBase == InvCache /\ TipoHilos /\ TipoSistema

\* A segment appended, or taken out, of tabla_segmentos.
LEMMA SegmentosTras ==
  ASSUME segmentos \in Seq(Tablas), NEW t \in Tablas
  PROVE  /\ ToSet(segmentos) \subseteq Tablas
         /\ Append(segmentos, t) \in Seq(Tablas)
         /\ ToSet(Append(segmentos, t)) = ToSet(segmentos) \cup {t}
         /\ RemoveFirst(segmentos, t) \in Seq(Tablas)
         /\ ToSet(segmentos) \ {t} \subseteq ToSet(RemoveFirst(segmentos, t))
<1>1. ToSet(segmentos) \subseteq Tablas
  BY LenProperties, ElementOfSeq DEF ToSet
<1>2. /\ Append(segmentos, t) \in Seq(Tablas)
      /\ ToSet(Append(segmentos, t)) = ToSet(segmentos) \cup {t}
  BY AppendProperties, LenProperties DEF ToSet
<1>3. CASE \A i \in 1..Len(segmentos) : segmentos[i] # t
  BY <1>1, <1>2, <1>3 DEF RemoveFirst
<1>4. CASE \E i \in 1..Len(segmentos) : segmentos[i] = t
  <2> DEFINE I == {n \in 1..Len(segmentos) : segmentos[n] = t}
             i == Min(I)
  <2>1. i \in 1..Len(segmentos) /\ segmentos[i] = t
    <3>1. I \in SUBSET Int /\ IsFiniteSet(I) /\ I # {}
      <4>1. Len(segmentos) \in Int /\ IsFiniteSet(1..Len(segmentos))
        BY LenProperties, FS_Interval
      <4>2. I \in SUBSET (1..Len(segmentos)) /\ I # {}
        BY <1>4
      <4> HIDE DEF I
      <4>3. IsFiniteSet(I)
        BY <4>1, <4>2, FS_Subset
      <4>4. QED
        BY <4>1, <4>2, <4>3
    <3>2. Min(I) \in I
      <4> HIDE DEF I
      <4> QED BY <3>1, MinimoExiste
    <3>3. QED
      BY <3>2
  <2>2. RemoveFirst(segmentos, t) = RemoveAt(segmentos, i)
    BY <1>4 DEF RemoveFirst, SelectInSeq
  <2> HIDE DEF i, I
  <2> DEFINE resto == RemoveAt(segmentos, i)
  <2>3. /\ resto \in Seq(Tablas) /\ Len(resto) = Len(segmentos) - 1
        /\ \A n \in 1..Len(segmentos)-1 :
             resto[n] = IF n < i THEN segmentos[n] ELSE segmentos[n+1]
    BY <2>1, RemoveAtProps
  <2> HIDE DEF resto
  <2>4. ASSUME NEW u \in ToSet(segmentos), u # t PROVE u \in ToSet(resto)
    <3>1. PICK n \in 1..Len(segmentos) : segmentos[n] = u
      BY LenProperties DEF ToSet
    <3>2. Len(segmentos) \in Nat /\ DOMAIN resto = 1..Len(resto) /\ n # i
      BY <2>1, <2>3, <2>4, <3>1, LenProperties
    <3>3. CASE n < i
      BY <2>1, <2>3, <3>1, <3>2, <3>3 DEF ToSet
    <3>4. CASE n > i
      <4>1. n-1 \in 1..Len(segmentos)-1 /\ ~(n-1 < i) /\ (n-1)+1 = n
        BY <2>1, <3>2, <3>4
      <4>2. resto[n-1] = u
        BY <2>3, <3>1, <4>1
      <4>3. QED
        BY <2>3, <3>2, <4>1, <4>2 DEF ToSet
    <3>5. QED
      BY <2>1, <3>2, <3>3, <3>4
  <2>5. QED
    BY <1>1, <1>2, <2>2, <2>3, <2>4 DEF resto
<1>5. QED
  BY <1>3, <1>4

\* The eviction, if there is one, keeps the cache coherent, and the pages that
\* stay keep their frames.
LEMMA LugarCoherente ==
  ASSUME InvCache
  PROVE  /\ Coherentes(ToSet(segmentos), PaginasTras, MemoriaTras)
         /\ \A p \in PaginasTras : MemoriaTras[p.direccion] = memoria[p.direccion]
         /\ LibresTras \in Int
<1>1. Salen \in SUBSET paginas
  BY DEF Salen, PaginaVictima
<1>2. ToSet(segmentos) \in SUBSET Tablas
  BY DEF InvCache, Coherentes
<1>3. \A p \in paginas : p.path \in ToSet(segmentos)
  BY DEF InvCache, Coherentes
<1>4. Coherentes(ToSet(segmentos), PaginasTras, MemoriaTras)
  BY <1>1, <1>2, <1>3, QuitarPaginas DEF InvCache, PaginasTras, MemoriaTras
<1>5. \A p \in PaginasTras : MemoriaTras[p.direccion] = memoria[p.direccion]
  BY <1>1 DEF InvCache, Coherentes, PaginasTras, MemoriaTras, Liberar, TPagina
<1>6. QED
  BY <1>4, <1>5 DEF LibresTras, InvCache

\* The next numeroPagina of a segment is above those in use.
LEMMA IndiceNuevo ==
  ASSUME InvCache, NEW t \in Tablas
  PROVE  /\ ObtenerIndicePagina(t) \in Nat \ {0}
         /\ \A p \in PaginasTras :
              p.path = t => p.numeroPagina < ObtenerIndicePagina(t)
<1> DEFINE P == {q \in PaginasTras : q.path = t}
           nums == {p.numeroPagina : p \in P}
<1>1. IsFiniteSet(P) /\ P \subseteq TPagina
  <2>1. IsFiniteSet(PaginasTras) /\ PaginasTras \subseteq TPagina
    <3>1. Coherentes(ToSet(segmentos), PaginasTras, MemoriaTras)
      BY LugarCoherente
    <3>2. QED
      BY <3>1, PaginasFinitas DEF Coherentes
  <2>2. P \in SUBSET PaginasTras
    OBVIOUS
  <2> HIDE DEF P
  <2>3. QED
    BY <2>1, <2>2, FS_Subset
<1>2. nums \in SUBSET Int /\ \A n \in nums : n \in Nat \ {0}
  BY <1>1 DEF TPagina
<1>3. IsFiniteSet(nums)
  <2> DEFINE f == [p \in P |-> p.numeroPagina]
  <2>1. f \in Surjection(P, nums)
    BY DEF Surjection
  <2> HIDE DEF f, nums, P
  <2>2. QED
    BY <2>1, <1>1, FS_Surjection
<1>4. nums # {} => Max(nums) \in nums /\ \A y \in nums : Max(nums) >= y
  <2> HIDE DEF nums
  <2> QED BY <1>2, <1>3, MaximoExiste
<1>5. ObtenerIndicePagina(t) = IF nums = {} THEN 1 ELSE Max(nums) + 1
  BY DEF ObtenerIndicePagina
<1>6. \A p \in PaginasTras : p.path = t => p.numeroPagina \in nums
  OBVIOUS
<1> HIDE DEF nums
<1>7. CASE nums = {}
  BY <1>5, <1>6, <1>7
<1>8. CASE nums # {}
  <2>1. PICK m \in nums : m = Max(nums) /\ \A y \in nums : m >= y
    BY <1>4, <1>8
  <2>2. m \in Nat \ {0} /\ ObtenerIndicePagina(t) = m + 1
    BY <1>2, <1>5, <1>8, <2>1
  <2>3. \A p \in PaginasTras : p.path = t => p.numeroPagina <= m /\ p.numeroPagina \in Nat
    BY <1>2, <1>6, <2>1
  <2>4. QED
    BY <2>2, <2>3
<1>9. QED
  BY <1>7, <1>8

\* guardarRegistro, when there is an empty frame, picks one.
LEMMA MarcoVacio ==
  ASSUME NEW mem, MarcosVacios(mem) # {}
  PROVE  Min(MarcosVacios(mem)) \in Marcos /\ mem[Min(MarcosVacios(mem))].timestamp = 0
<1>1. MarcosVacios(mem) \in SUBSET Marcos
  BY DEF MarcosVacios
<1>2. MarcosVacios(mem) \in SUBSET Int /\ IsFiniteSet(MarcosVacios(mem))
  <2>1. IsFiniteSet(MarcosVacios(mem))
    BY <1>1, MarcosFinitos, FS_Subset
  <2>2. QED
    BY <1>1, <2>1, ConstantesValidas DEF Marcos
<1>3. Min(MarcosVacios(mem)) \in MarcosVacios(mem)
  BY <1>2, MinimoExiste
<1>4. QED
  BY <1>3 DEF MarcosVacios

\* Adding the page of a key that is not cached keeps the cache coherent.
LEMMA PaginaAgregada ==
  ASSUME InvCache, ~DesbordeMarcos,
         NEW t \in Tablas, NEW k \in Claves, NEW ts \in Nat \ {0},
         NEW v \in Valores, NEW bit \in {0, 1},
         BuscarPagina(t, k) = {}, AgregarPagina(t, k, ts, v, bit)
  PROVE  /\ Coherentes(ToSet(segmentos) \cup {t}, paginas', memoria')
         /\ cantPaginasLibres' \in Int
<1> DEFINE marco == Min(MarcosVacios(MemoriaTras))
           pag == [path |-> t, numeroPagina |-> ObtenerIndicePagina(t),
                   direccion |-> marco, modificado |-> bit]
<1>1. marco \in Marcos /\ MemoriaTras[marco].timestamp = 0
  BY MarcoVacio DEF DesbordeMarcos
<1>2. pag \in TPagina
  BY <1>1, IndiceNuevo DEF TPagina
<1>3. \A p \in PaginasTras : p.path = t =>
        /\ p.numeroPagina # ObtenerIndicePagina(t)
        /\ MemoriaTras[p.direccion].key # k
  <2>1. TAKE p \in PaginasTras
  <2>2. p \in paginas /\ p \in TPagina
    BY LugarCoherente DEF PaginasTras, Coherentes
  <2>3. p.path = t => p.numeroPagina < ObtenerIndicePagina(t)
    BY IndiceNuevo
  <2>4. p.path = t => memoria[p.direccion].key # k
    BY <2>2 DEF BuscarPagina, PaginasDe
  <2>5. QED
    BY <2>2, <2>3, <2>4, LugarCoherente, IndiceNuevo DEF TPagina
<1>4. /\ paginas' = PaginasTras \cup {pag}
      /\ memoria' = [MemoriaTras EXCEPT
           ![marco] = [timestamp |-> ts, key |-> k, value |-> v]]
      /\ cantPaginasLibres' = LibresTras - 1
  BY DEF AgregarPagina
<1>5. /\ pag.path = t /\ pag.direccion = marco
      /\ pag.numeroPagina = ObtenerIndicePagina(t)
  OBVIOUS
<1> HIDE DEF pag, marco
<1>6. Coherentes(ToSet(segmentos) \cup {pag.path}, PaginasTras \cup {pag},
                 [MemoriaTras EXCEPT ![pag.direccion] =
                    [timestamp |-> ts, key |-> k, value |-> v]])
  BY <1>1, <1>2, <1>3, <1>5, LugarCoherente, PonerPagina
<1>7. QED
  BY <1>4, <1>5, <1>6, LugarCoherente

\* Position z of a segment's page list holds a page, when the list is longer.
LEMMA PosicionOcupada ==
  ASSUME InvCache, NEW t \in Tablas, NEW z \in Nat,
         z < Cardinality(PaginasDe(t))
  PROVE  \E p \in PaginasDe(t) :
           Cardinality({q \in PaginasDe(t) : q.numeroPagina < p.numeroPagina}) = z
<1> DEFINE S == PaginasDe(t)
           f == [p \in S |-> p.numeroPagina]
<1>1. S \in SUBSET paginas
  BY DEF PaginasDe
<1>2. Coherentes(ToSet(segmentos), paginas, memoria)
  BY DEF InvCache
<1>3. IsFiniteSet(S)
  BY <1>1, <1>2, PaginasFinitas, FS_Subset
<1>4. f \in [S -> Int]
  BY <1>1, <1>2 DEF Coherentes, TPagina
<1>5. \A x, y \in S : f[x] = f[y] => x = y
  BY <1>2 DEF Coherentes, PaginasDe
<1>6. PICK x \in S : Cardinality({y \in S : f[y] < f[x]}) = z
  <2> HIDE DEF S, f
  <2> QED BY <1>3, <1>4, <1>5, HayUnoEnCadaPosicion DEF S
<1>7. {y \in S : f[y] < f[x]} = {q \in S : q.numeroPagina < x.numeroPagina}
  OBVIOUS
<1> QED BY <1>6, <1>7

LEMMA PaginaEnLista ==
  ASSUME InvCache, NEW t \in Tablas, NEW z \in Nat,
         z < Cardinality(PaginasDe(t))
  PROVE  PaginaEn(t, z) \in PaginasDe(t)
BY PosicionOcupada DEF PaginaEn

-----------------------------------------------------------------------------
(* Every step keeps the inductive invariant. *)

LEMMA InitBase == Init => InvBase
<1> SUFFICES ASSUME Init PROVE InvBase
  OBVIOUS
<1>1. segmentos \in Seq(Tablas) /\ ToSet(segmentos) = {}
  BY EmptySeq DEF Init, ToSet
<1>2. InvCache
  BY <1>1, VacioTipo, ConstantesValidas DEF Init, InvCache, Coherentes
<1>3. TipoHilos
  BY EmptySeq DEF Init, TipoHilos, JournalVacio, LocalesJournal
<1>4. TipoSistema
  BY ConstantesValidas DEF Init, TipoSistema
<1>5. QED
  BY <1>2, <1>3, <1>4 DEF InvBase

LEMMA CaerBase == ASSUME InvBase, NEW m, Caer(m),
                         m \in {"selectSinSegmento", "lruColgante",
                                "desbordeMarcos", "segmentoLiberado",
                                "journalSinSegmento", "journalSinPagina",
                                "paginaLiberada"}
                  PROVE  InvBase'
<1>1. segmentos' \in Seq(Tablas) /\ ToSet(segmentos') = {}
  BY EmptySeq DEF Caer, ToSet
<1>2. InvCache'
  BY <1>1, VacioTipo, ConstantesValidas DEF Caer, InvCache, Coherentes
<1>3. TipoHilos'
  BY EmptySeq DEF Caer, TipoHilos, JournalVacio, LocalesJournal
<1>4. TipoSistema'
  BY DEF Caer, InvBase, TipoSistema, sistema
<1>5. QED
  BY <1>2, <1>3, <1>4 DEF InvBase

\* Contestar and Ir only move a thread.
LEMMA ContestarTipo ==
  ASSUME TipoHilos, NEW h \in Hilos, Contestar(h)
  PROVE  /\ pc' \in [Hilos -> {"inicio", "abierta", "compuerta", "espera",
                 "procesar", "llena", "dropFS", "jsegmento", "jtomar",
                 "jpagina", "jobtener", "jcopiar", "jenviar", "jvaciar",
                 "javisar", "jbajar"}]
         /\ pedido' \in [Hilos -> Pedidos \cup {PedidoJournal}]
BY DEF TipoHilos, Contestar, Ir

\* The steps that leave the cache and the file system alone.
LEMMA QuietosBase ==
  ASSUME InvBase, UNCHANGED <<cache, sistema>>, TipoHilos',
         reloj' \in Nat \ {0}
  PROVE  InvBase'
<1>1. InvCache'
  BY DEF InvBase, InvCache, cache
<1>2. TipoSistema'
  BY DEF InvBase, TipoSistema, sistema
<1>3. QED
  BY <1>1, <1>2 DEF InvBase

LEMMA RecibirBase ==
  ASSUME InvBase, NEW h \in Hilos,
         \/ Recibir(h) \/ RecibirOtro(h) \/ Cerrar(h) \/ Despertar(h)
         \/ Compuerta(h) \/ Entrar(h) \/ Llena(h)
  PROVE  InvBase'
<1> USE DEF InvBase
<1>1. CASE Recibir(h)
  <2>1. TipoHilos'
    BY <1>1 DEF TipoHilos, Recibir, Ir, compuerta
  <2>2. QED
    BY <1>1, <2>1, QuietosBase DEF Recibir, TipoSistema
<1>2. CASE RecibirOtro(h)
  <2>1. j' \in [Hilos -> LocalesJournal]
    <3>1. PICK b \in BOOLEAN : j' = [j EXCEPT ![h].repite = b]
      BY <1>2 DEF RecibirOtro
    <3>2. QED
      BY <3>1, ZenonT(60) DEF TipoHilos, LocalesJournal
  <2>2. TipoHilos'
    BY <1>2, <2>1 DEF TipoHilos, RecibirOtro, Ir, compuerta
  <2>3. QED
    BY <1>2, <2>2, QuietosBase DEF RecibirOtro, TipoSistema
<1>3. CASE Cerrar(h)
  <2>1. TipoHilos'
    BY <1>3 DEF TipoHilos, Cerrar, Ir, compuerta
  <2>2. QED
    BY <1>3, <2>1, QuietosBase DEF Cerrar, TipoSistema
<1>4. CASE Despertar(h)
  <2>1. TipoHilos'
    BY <1>4 DEF TipoHilos, Despertar, Ir, compuerta
  <2>2. QED
    BY <1>4, <2>1, QuietosBase DEF Despertar, TipoSistema
<1>5. CASE Compuerta(h)
  <2>1. TipoHilos'
    BY <1>5 DEF TipoHilos, Compuerta, Ir, compuerta
  <2>2. QED
    BY <1>5, <2>1, QuietosBase DEF Compuerta, TipoSistema
<1>6. CASE Entrar(h)
  <2>1. TipoHilos'
    BY <1>6 DEF TipoHilos, Entrar, Ir
  <2>2. QED
    BY <1>6, <2>1, QuietosBase DEF Entrar, TipoSistema
<1>7. CASE Llena(h)
  <2>1. TipoHilos'
    BY <1>7 DEF TipoHilos, Llena, Contestar, Ir
  <2>2. QED
    BY <1>7, <2>1, QuietosBase DEF Llena, TipoSistema
<1>8. QED
  BY <1>1, <1>2, <1>3, <1>4, <1>5, <1>6, <1>7

\* The request a thread processes has the fields its kind needs.
LEMMA PedidoTipo ==
  ASSUME TipoHilos, NEW h \in Hilos
  PROVE  /\ Atiende(h, "SELECT") => pedido[h].t \in Tablas /\ pedido[h].k \in Claves
         /\ Atiende(h, "INSERT") => /\ pedido[h].t \in Tablas
                                    /\ pedido[h].k \in Claves
                                    /\ pedido[h].v \in Valores
         /\ Atiende(h, "CREATE") \/ Atiende(h, "DROP") => pedido[h].t \in Tablas
<1>1. pedido[h] \in Pedidos \cup {PedidoJournal}
  BY DEF TipoHilos
<1>2. QED
  BY <1>1 DEF Atiende, Pedidos, PedidoJournal

\* A request that makes room takes pages from under the journals, at most.
Suelta == UNCHANGED j \/ SoltarPaginas(Salen)

LEMMA SueltaTipo ==
  ASSUME j \in [Hilos -> LocalesJournal], Suelta
  PROVE  /\ j' \in [Hilos -> LocalesJournal]
         /\ \A g \in Hilos : j'[g] \in {j[g], [j[g] EXCEPT !.pagina = 0]}
<1>1. \A x \in LocalesJournal : [x EXCEPT !.pagina = 0] \in LocalesJournal
  BY DEF LocalesJournal
<1>2. CASE UNCHANGED j
  BY <1>2
<1>3. CASE SoltarPaginas(Salen)
  <2>1. \A g \in Hilos : j'[g] \in {j[g], [j[g] EXCEPT !.pagina = 0]}
    BY <1>3 DEF SoltarPaginas
  <2>2. j' = [g \in Hilos |-> j'[g]]
    BY <1>3 DEF SoltarPaginas
  <2> QED BY <1>1, <2>1, <2>2
<1> QED BY <1>2, <1>3 DEF Suelta

\* A request that ends, or stops at FULL_R, in a cache that stays coherent.
LEMMA SigueBase ==
  ASSUME InvBase, NEW h \in Hilos, Contestar(h), Sigue, Suelta, InvCache',
         TipoSistema'
  PROVE  InvBase'
<1>0. j' \in [Hilos -> LocalesJournal]
  BY SueltaTipo DEF InvBase, TipoHilos
<1>1. TipoHilos'
  BY <1>0, ContestarTipo DEF InvBase, TipoHilos, Sigue, compuerta
<1>2. QED
  BY <1>1 DEF InvBase

LEMMA FullBase ==
  ASSUME InvBase, NEW h \in Hilos, ConFull(h)
  PROVE  InvBase'
<1>1. TipoHilos'
  BY DEF InvBase, TipoHilos, ConFull, Contestar, Ir, Sigue, compuerta
<1>2. QED
  BY <1>1, QuietosBase DEF ConFull, Sigue, InvBase, TipoSistema

LEMMA SelectBase ==
  ASSUME InvBase, NEW h \in Hilos, SelectEnCache(h) \/ SelectFuera(h)
  PROVE  InvBase'
<1> DEFINE t == pedido[h].t  k == pedido[h].k  r == fs[t][k]
<1>1. CASE SelectEnCache(h)
  <2>1. InvCache'
    BY <1>1 DEF SelectEnCache, InvBase, InvCache
  <2>2. TipoSistema'
    BY <1>1 DEF SelectEnCache, InvBase, TipoSistema, Sigue, sistema
  <2>3. QED
    BY <1>1, <2>1, <2>2, SigueBase DEF SelectEnCache, Suelta
<1>2. CASE SelectFuera(h)
  <2>1. t \in Tablas /\ k \in Claves
    BY <1>2, PedidoTipo DEF SelectFuera, InvBase
  <2>2. CASE ConFull(h)
    BY <2>2, FullBase
  <2>3. CASE SelectFallido(h)
    <3>1. InvCache'
      BY <2>3, LugarCoherente DEF SelectFallido, HacerLugar, InvBase, InvCache
    <3>2. TipoSistema'
      BY <2>3 DEF SelectFallido, InvBase, TipoSistema, Sigue, sistema
    <3>3. QED
      BY <2>3, <3>1, <3>2, SigueBase DEF SelectFallido, HacerLugar, Suelta
  <2>4. CASE SelectDelFS(h)
    <3>1. r.timestamp \in Nat \ {0} /\ r.value \in Valores
      <4>1. r \in {Nulo} \cup [timestamp : Nat \ {0}, value : Valores] /\ r # Nulo
        BY <2>1, <2>4 DEF SelectDelFS, TieneRegistro, InvBase, TipoSistema
      <4>2. QED
        BY <4>1
    <3>2. CASE BuscarSegmento(t)
      <4>1. /\ AgregarPagina(t, k, r.timestamp, r.value, 0)
            /\ ~DesbordeMarcos /\ UNCHANGED <<segmentos, sistema>>
            /\ Contestar(h) /\ Sigue
        BY <2>4, <3>2 DEF SelectDelFS
      <4>2. BuscarPagina(t, k) = {}
        BY <1>2 DEF SelectFuera
      <4> HIDE DEF t, k, r
      <4>3. /\ Coherentes(ToSet(segmentos) \cup {t}, paginas', memoria')
            /\ cantPaginasLibres' \in Int
        BY <2>1, <3>1, <4>1, <4>2, PaginaAgregada DEF InvBase
      <4>4. ToSet(segmentos) \cup {t} = ToSet(segmentos)
        BY <3>2 DEF BuscarSegmento
      <4>5. InvCache'
        BY <4>1, <4>3, <4>4 DEF InvBase, InvCache
      <4>6. TipoSistema'
        BY <4>1 DEF InvBase, TipoSistema, Sigue, sistema
      <4>7. QED
        BY <4>1, <4>5, <4>6, SigueBase DEF AgregarPagina, Suelta
    <3>3. CASE ~BuscarSegmento(t)
      BY <2>4, <3>3, CaerBase DEF SelectDelFS
    <3>4. QED
      BY <3>2, <3>3
  <2>5. CASE Caer("lruColgante") \/ Caer("desbordeMarcos")
    BY <2>5, CaerBase
  <2>6. QED
    BY <1>2, <2>2, <2>3, <2>4, <2>5 DEF SelectFuera
<1>3. QED
  BY <1>1, <1>2

LEMMA InsertBase ==
  ASSUME InvBase, NEW h \in Hilos, InsertEnCache(h) \/ InsertFuera(h)
  PROVE  InvBase'
<1> DEFINE t == pedido[h].t  k == pedido[h].k  v == pedido[h].v
<1>1. t \in Tablas /\ k \in Claves /\ v \in Valores
  BY PedidoTipo DEF InsertEnCache, InsertFuera, InvBase
<1>2. reloj \in Nat \ {0}
  BY DEF InvBase, TipoSistema
<1>3. CASE InsertEnCache(h)
  <2>1. PICK p \in BuscarPagina(t, k) :
          IF memoria[p.direccion].timestamp < reloj
          THEN /\ paginas' = (paginas \ {p}) \cup {MarcarModificada(p)}
               /\ memoria' = [memoria EXCEPT ![p.direccion] =
                                [timestamp |-> reloj, key |-> k, value |-> v]]
          ELSE UNCHANGED <<paginas, memoria>>
    BY <1>3 DEF InsertEnCache
  <2>2. /\ UNCHANGED <<segmentos, cantPaginasLibres, sistema>> /\ Contestar(h)
        /\ Sigue /\ Suelta
    BY <1>3 DEF InsertEnCache, Suelta
  <2>3. TipoSistema'
    BY <2>2 DEF InvBase, TipoSistema, Sigue, sistema
  <2>4. Coherentes(ToSet(segmentos), paginas, memoria)
    BY DEF InvBase, InvCache
  <2>5. p \in paginas /\ p.path = t /\ memoria[p.direccion].key = k
    BY DEF BuscarPagina, PaginasDe
  <2>6. CASE memoria[p.direccion].timestamp < reloj
    <3> DEFINE q == MarcarModificada(p)
               uno == {p}
               M == Liberar(memoria, uno)
    <3>1. /\ q \in TPagina /\ q.path = t /\ q.direccion = p.direccion
          /\ q.numeroPagina = p.numeroPagina
      BY <2>4, <2>5 DEF MarcarModificada, TPagina, Coherentes
    <3>2. Coherentes(ToSet(segmentos), paginas \ uno, M)
      <4>1. ToSet(segmentos) \in SUBSET Tablas
        BY <2>4 DEF Coherentes
      <4>2. \A x \in paginas : x.path \in ToSet(segmentos)
        BY <2>4 DEF Coherentes
      <4>3. uno \in SUBSET paginas
        BY <2>5
      <4> HIDE DEF uno
      <4>4. QED
        BY <2>4, <4>1, <4>2, <4>3, QuitarPaginas
    <3>3. p.direccion \in Marcos /\ M[p.direccion].timestamp = 0
      BY <2>4, <2>5, VacioTipo DEF Liberar, Coherentes, TPagina
    <3>4. \A x \in paginas \ uno : x.path = t =>
            x.numeroPagina # q.numeroPagina /\ M[x.direccion].key # k
      BY <2>4, <2>5, <3>1 DEF Liberar, Coherentes, TPagina
    <3>5. [M EXCEPT ![p.direccion] = [timestamp |-> reloj, key |-> k, value |-> v]]
            = [memoria EXCEPT ![p.direccion] =
                 [timestamp |-> reloj, key |-> k, value |-> v]]
      BY <2>4 DEF Liberar, Coherentes
    <3>6. t \in ToSet(segmentos)
      BY <2>4, <2>5 DEF Coherentes
    <3>7. /\ paginas' = (paginas \ uno) \cup {q}
          /\ memoria' = [memoria EXCEPT ![p.direccion] =
                           [timestamp |-> reloj, key |-> k, value |-> v]]
      BY <2>1, <2>6
    <3> HIDE DEF q, uno, M, t, k, v
    <3>8. Coherentes(ToSet(segmentos) \cup {q.path}, (paginas \ uno) \cup {q},
                     [M EXCEPT ![q.direccion] =
                        [timestamp |-> reloj, key |-> k, value |-> v]])
      BY <1>1, <1>2, <3>1, <3>2, <3>3, <3>4, PonerPagina
    <3>9. ToSet(segmentos) \cup {q.path} = ToSet(segmentos)
      BY <3>1, <3>6
    <3>10. InvCache'
      BY <2>2, <3>1, <3>5, <3>7, <3>8, <3>9 DEF InvBase, InvCache
    <3>11. QED
      BY <2>2, <2>3, <3>10, SigueBase
  <2>7. CASE ~(memoria[p.direccion].timestamp < reloj)
    <3>1. InvCache'
      BY <2>1, <2>2, <2>7 DEF InvBase, InvCache
    <3>2. QED
      BY <2>2, <2>3, <3>1, SigueBase
  <2>8. QED
    BY <2>6, <2>7
<1>4. CASE InsertFuera(h)
  <2>1. CASE ConFull(h)
    BY <2>1, FullBase
  <2>2. CASE InsertNuevo(h)
    <3>1. /\ AgregarPagina(t, k, reloj, v, 1) /\ ~DesbordeMarcos
          /\ segmentos' = IF BuscarSegmento(t) THEN segmentos
                          ELSE Append(segmentos, t)
          /\ UNCHANGED sistema /\ Contestar(h) /\ Sigue
      BY <2>2 DEF InsertNuevo
    <3>2. BuscarPagina(t, k) = {}
      BY <1>4 DEF InsertFuera
    <3> HIDE DEF t, k, v
    <3>3. /\ Coherentes(ToSet(segmentos) \cup {t}, paginas', memoria')
          /\ cantPaginasLibres' \in Int
      BY <1>1, <1>2, <3>1, <3>2, PaginaAgregada DEF InvBase
    <3>4. segmentos' \in Seq(Tablas) /\ ToSet(segmentos') = ToSet(segmentos) \cup {t}
      BY <1>1, <3>1, SegmentosTras DEF BuscarSegmento, InvBase, InvCache
    <3>5. ToSet(segmentos)' = ToSet(segmentos')
      OBVIOUS
    <3>6. InvCache'
      BY <3>3, <3>4, <3>5 DEF InvCache
    <3>7. TipoSistema'
      BY <3>1 DEF InvBase, TipoSistema, Sigue, sistema
    <3>8. QED
      BY <3>1, <3>6, <3>7, SigueBase DEF AgregarPagina, Suelta
  <2>3. CASE Caer("lruColgante") \/ Caer("desbordeMarcos")
    BY <2>3, CaerBase
  <2>4. QED
    BY <1>4, <2>1, <2>2, <2>3 DEF InsertFuera
<1>5. QED
  BY <1>3, <1>4

\* Freed segments only change the marks in the journals' locals.
LEMMA LiberarSegmentosTipo ==
  ASSUME j \in [Hilos -> LocalesJournal], NEW S, LiberarSegmentos(S)
  PROVE  j' \in [Hilos -> LocalesJournal]
BY DEF LiberarSegmentos, LocalesJournal

LEMMA TablasBase ==
  ASSUME InvBase, NEW h \in Hilos,
         Create(h) \/ Describe(h) \/ DropEnMemoria(h) \/ DropEnFS(h)
  PROVE  InvBase'
<1>1. CASE Create(h)
  <2>1. pedido[h].t \in Tablas
    BY <1>1, PedidoTipo DEF Create, InvBase
  <2>2. InvCache'
    BY <1>1 DEF Create, InvBase, InvCache, cache
  <2>3. TipoSistema'
    BY <1>1, <2>1 DEF Create, InvBase, TipoSistema, Sigue
  <2>4. QED
    BY <1>1, <2>2, <2>3, SigueBase DEF Create, Suelta
<1>2. CASE Describe(h)
  <2>1. InvCache'
    BY <1>2 DEF Describe, InvBase, InvCache, cache
  <2>2. TipoSistema'
    BY <1>2 DEF Describe, InvBase, TipoSistema, Sigue, sistema
  <2>3. QED
    BY <1>2, <2>1, <2>2, SigueBase DEF Describe, Suelta
<1>3. CASE DropEnMemoria(h)
  <2> DEFINE t == pedido[h].t  Q == PaginasDe(t)
  <2>1. t \in Tablas
    BY <1>3, PedidoTipo DEF DropEnMemoria, InvBase
  <2>2. CASE BuscarSegmento(t)
    <3>1. /\ segmentos' = RemoveFirst(segmentos, t)
          /\ paginas' = paginas \ Q /\ memoria' = Liberar(memoria, Q)
          /\ cantPaginasLibres' = cantPaginasLibres + Cardinality(Q)
          /\ LiberarSegmentos({t})
      BY <1>3, <2>2 DEF DropEnMemoria
    <3>2. Q \in SUBSET paginas /\ \A p \in paginas \ Q : p.path # t
      BY DEF PaginasDe
    <3>3. Coherentes(ToSet(segmentos), paginas, memoria) /\ segmentos \in Seq(Tablas)
      BY DEF InvBase, InvCache
    <3>4. Cardinality(Q) \in Int
      <4> HIDE DEF Q
      <4>1. IsFiniteSet(Q)
        BY <3>2, <3>3, PaginasFinitas, FS_Subset
      <4>2. QED
        BY <4>1, FS_CardinalityType
    <3> DEFINE resto == RemoveFirst(segmentos, t)
    <3>5. /\ resto \in Seq(Tablas) /\ ToSet(resto) \in SUBSET Tablas
          /\ ToSet(segmentos) \ {t} \subseteq ToSet(resto)
      <4>1. resto \in Seq(Tablas) /\ ToSet(segmentos) \ {t} \subseteq ToSet(resto)
        BY <2>1, <3>3, SegmentosTras
      <4> HIDE DEF resto
      <4>2. ToSet(resto) \in SUBSET Tablas
        BY <4>1, LenProperties, ElementOfSeq DEF ToSet
      <4>3. QED
        BY <4>1, <4>2
    <3>6. \A p \in paginas \ Q : p.path \in ToSet(resto)
      BY <3>2, <3>3, <3>5 DEF Coherentes
    <3>7. Coherentes(ToSet(resto), paginas \ Q, Liberar(memoria, Q))
      <4> HIDE DEF Q, resto
      <4>1. QED
        BY <3>2, <3>3, <3>5, <3>6, QuitarPaginas
    <3> HIDE DEF Q, t
    <3>8. ToSet(segmentos)' = ToSet(resto)
      BY <3>1
    <3>9. InvCache'
      BY <3>1, <3>4, <3>5, <3>7, <3>8 DEF InvBase, InvCache
    <3>10. TipoHilos'
      <4>1. j' \in [Hilos -> LocalesJournal]
        BY <3>1, LiberarSegmentosTipo DEF InvBase, TipoHilos
      <4>2. QED
        BY <1>3, <4>1 DEF InvBase, TipoHilos, DropEnMemoria, Ir, compuerta
    <3>11. TipoSistema'
      BY <1>3 DEF InvBase, TipoSistema, DropEnMemoria, sistema
    <3>12. QED
      BY <3>9, <3>10, <3>11 DEF InvBase
  <2>3. CASE ~BuscarSegmento(t)
    <3>1. TipoHilos' /\ UNCHANGED cache
      BY <1>3, <2>3 DEF InvBase, TipoHilos, DropEnMemoria, Ir, compuerta
    <3>2. QED
      BY <1>3, <3>1, QuietosBase DEF DropEnMemoria, InvBase, TipoSistema
  <2>4. QED
    BY <2>2, <2>3
<1>4. CASE DropEnFS(h)
  <2>1. InvCache'
    BY <1>4 DEF DropEnFS, InvBase, InvCache, cache
  <2>2. TipoSistema'
    <3> DEFINE t == pedido[h].t
               F == {Nulo} \cup [timestamp : Nat \ {0}, value : Valores]
    <3>1. fs \in [Tablas -> [Claves -> F]]
      BY DEF InvBase, TipoSistema
    <3>2. fs' = fs \/ \E S \in SUBSET Claves :
            fs' = [fs EXCEPT ![t] = [k \in Claves |-> IF k \in S THEN Nulo ELSE fs[t][k]]]
      BY <1>4 DEF DropEnFS, sistema
    <3>3. fs' \in [Tablas -> [Claves -> F]]
      <4>1. CASE fs' = fs
        BY <3>1, <4>1
      <4>2. ASSUME NEW S \in SUBSET Claves,
                   fs' = [fs EXCEPT ![t] = [k \in Claves |-> IF k \in S THEN Nulo ELSE fs[t][k]]]
            PROVE  fs' \in [Tablas -> [Claves -> F]]
        <5> DEFINE g == [k \in Claves |-> IF k \in S THEN Nulo ELSE fs[t][k]]
        <5>1. Nulo \in F
          OBVIOUS
        <5> HIDE DEF F, t
        <5>2. t \in Tablas => g \in [Claves -> F]
          BY <3>1, <5>1
        <5>3. fs' = [fs EXCEPT ![t] = g]
          BY <4>2
        <5> HIDE DEF g
        <5>4. QED
          BY <3>1, <5>2, <5>3
      <4>3. QED
        BY <3>2, <4>1, <4>2
    <3>4. existe' \subseteq Tablas /\ reloj' \in Nat \ {0}
      BY <1>4 DEF DropEnFS, InvBase, TipoSistema, Sigue, sistema
    <3>5. QED
      BY <3>3, <3>4 DEF TipoSistema
  <2>3. QED
    BY <1>4, <2>1, <2>2, SigueBase DEF DropEnFS, Suelta
<1>5. QED
  BY <1>1, <1>2, <1>3, <1>4

\* The assignments journal() makes to its locals keep their types.
LEMMA CambiarLocales ==
  ASSUME NEW f \in [Hilos -> LocalesJournal], NEW h \in Hilos
  PROVE  /\ \A x \in Nat : [f EXCEPT ![h].i = x] \in [Hilos -> LocalesJournal]
         /\ \A x \in Nat : [f EXCEPT ![h].pagina = x] \in [Hilos -> LocalesJournal]
         /\ \A s \in Tablas \cup {Nulo, "liberado"}, x \in Nat :
              [f EXCEPT ![h].seg = s, ![h].z = x] \in [Hilos -> LocalesJournal]
         /\ \A x, y \in Nat, l \in Seq([t : Tablas, k : Claves, v : Valores]) :
              [f EXCEPT ![h].z = x, ![h].pagina = y, ![h].lista = l]
                \in [Hilos -> LocalesJournal]
         /\ \A x \in Nat, l \in Seq([t : Tablas, k : Claves, v : Valores]) :
              [f EXCEPT ![h].z = x, ![h].lista = l, ![h].ajeno = TRUE]
                \in [Hilos -> LocalesJournal]
         /\ \A l \in Seq([t : Tablas, k : Claves, v : Valores]) :
              [f EXCEPT ![h].lista = l] \in [Hilos -> LocalesJournal]
<1> DEFINE S == Tablas \cup {Nulo, "liberado"}
           L == Seq([t : Tablas, k : Claves, v : Valores])
           R == [i : Nat, seg : S, z : Nat, pagina : Nat, lista : L,
                 repite : BOOLEAN, inicio : Nat, ajeno : BOOLEAN]
<1>1. LocalesJournal = R
  BY DEF LocalesJournal
<1> HIDE DEF S, L
<1>2. \A e \in [Hilos -> R], x \in Nat : /\ [e EXCEPT ![h].i = x] \in [Hilos -> R]
                                        /\ [e EXCEPT ![h].z = x] \in [Hilos -> R]
                                        /\ [e EXCEPT ![h].pagina = x] \in [Hilos -> R]
  OBVIOUS
<1>3. \A e \in [Hilos -> R], s \in S : [e EXCEPT ![h].seg = s] \in [Hilos -> R]
  OBVIOUS
<1>4. \A e \in [Hilos -> R], l \in L : [e EXCEPT ![h].lista = l] \in [Hilos -> R]
  OBVIOUS
<1>5. \A e \in [Hilos -> R] : [e EXCEPT ![h].ajeno = TRUE] \in [Hilos -> R]
  OBVIOUS
<1> HIDE DEF R
<1>6. QED
  BY <1>1, <1>2, <1>3, <1>4, <1>5 DEF S, L

\* A list of pages that is not empty is that of a segment.
LEMMA SegmentoConPaginas ==
  ASSUME Coherentes(ToSet(segmentos), paginas, memoria),
         NEW seg \in Tablas \cup {Nulo, "liberado"}, seg # "liberado",
         NEW z \in Nat, z < Cardinality(PaginasDe(seg))
  PROVE  seg \in Tablas
<1>1. CASE seg = Nulo
  <2>1. PaginasDe(Nulo) = {}
    BY ConstantesValidas DEF PaginasDe, Coherentes, TPagina
  <2> QED BY <1>1, <2>1, FS_EmptySet
<1> QED BY <1>1

LEMMA JournalBase ==
  ASSUME InvBase, NEW h \in Hilos, Journal(h)
  PROVE  InvBase'
<1> USE DEF InvBase
<1> DEFINE Rec == [t : Tablas, k : Claves, v : Valores]
<1>1. /\ j[h].i \in Nat /\ j[h].z \in Nat /\ j[h].lista \in Seq(Rec)
      /\ j[h].seg \in Tablas \cup {Nulo, "liberado"}
      /\ j[h].pagina \in Nat /\ j[h].repite \in BOOLEAN /\ j[h].inicio \in Nat
      /\ j[h].ajeno \in BOOLEAN
      /\ j[h] \in LocalesJournal
  BY DEF TipoHilos, LocalesJournal
<1>2. reloj \in Nat \ {0}
  BY DEF TipoSistema
<1>3. CASE JournalIniciar(h)
  <2>1. j' \in [Hilos -> LocalesJournal]
    BY <1>1, <1>2, <1>3, EmptySeq DEF JournalIniciar, TipoHilos, LocalesJournal, JournalVacio
  <2>2. TipoHilos'
    BY <1>3, <2>1 DEF TipoHilos, JournalIniciar, Ir, compuerta
  <2>3. QED
    BY <1>2, <1>3, <2>2, QuietosBase DEF JournalIniciar
\* A turn of the loops that assigns to the locals of the thread.
<1>20. ASSUME j' \in [Hilos -> LocalesJournal],
              NEW l \in {"jsegmento", "jtomar", "jpagina", "jobtener", "jcopiar", "jenviar"},
              Ir(h, l), UNCHANGED <<cache, compuerta, pedido, caida, reloj, sistema>>
       PROVE  InvBase'
  <2>1. TipoHilos'
    BY <1>20 DEF TipoHilos, Ir, compuerta
  <2> QED BY <1>2, <1>20, <2>1, QuietosBase
<1>21. j \in [Hilos -> LocalesJournal]
  BY DEF TipoHilos
<1>22. \A x \in Nat : x + 1 \in Nat
  OBVIOUS
<1>4. CASE JournalSegmento(h)
  <2>1. j' = j \/ j' = [j EXCEPT ![h].seg = Nulo, ![h].z = 0]
    BY <1>4 DEF JournalSegmento
  <2>2. [j EXCEPT ![h].seg = Nulo, ![h].z = 0] \in [Hilos -> LocalesJournal]
    BY <1>21, CambiarLocales
  <2>3. j' \in [Hilos -> LocalesJournal]
    BY <1>21, <2>1, <2>2, Zenon
  <2> QED BY <1>4, <1>20, <2>3 DEF JournalSegmento
<1>12. CASE JournalTomar(h)
  <2>1. CASE Caer("journalSinSegmento")
    BY <2>1, CaerBase
  <2>2. CASE ~Caer("journalSinSegmento")
    <3>1. /\ j[h].i < Len(segmentos)
          /\ j' = [j EXCEPT ![h].seg = segmentos[j[h].i + 1], ![h].z = 0]
          /\ Ir(h, "jpagina")
          /\ UNCHANGED <<cache, compuerta, pedido, caida, reloj, sistema>>
      BY <1>12, <2>2 DEF JournalTomar
    <3>2. segmentos[j[h].i + 1] \in Tablas
      <4>1. segmentos \in Seq(Tablas) /\ Len(segmentos) \in Nat
        BY LenProperties DEF InvCache
      <4>2. j[h].i + 1 \in 1..Len(segmentos)
        BY <1>1, <3>1, <4>1
      <4>3. QED
        BY <4>1, <4>2, ElementOfSeq
    <3>3. j' \in [Hilos -> LocalesJournal]
      BY <1>21, <3>1, <3>2, CambiarLocales
    <3> QED BY <1>20, <3>1, <3>3
  <2> QED BY <2>1, <2>2
<1>5. CASE JournalPagina(h)
  <2>1. j' = j \/ j' = [j EXCEPT ![h].i = j[h].i + 1]
    BY <1>5 DEF JournalPagina
  <2>2. [j EXCEPT ![h].i = j[h].i + 1] \in [Hilos -> LocalesJournal]
    BY <1>1, <1>21, <1>22, CambiarLocales
  <2>3. j' \in [Hilos -> LocalesJournal]
    BY <1>21, <2>1, <2>2, Zenon
  <2> QED BY <1>5, <1>20, <2>3 DEF JournalPagina
<1>13. CASE JournalObtener(h)
  <2> DEFINE seg == j[h].seg  z == j[h].z
  <2>1. CASE Caer("journalSinPagina")
    BY <2>1, CaerBase
  <2>2. CASE ~Caer("journalSinPagina")
    <3>1. /\ seg # "liberado" /\ z < Cardinality(PaginasDe(seg))
          /\ j' = [j EXCEPT ![h].pagina = PaginaEn(seg, z).numeroPagina]
          /\ Ir(h, "jcopiar")
          /\ UNCHANGED <<cache, compuerta, pedido, caida, reloj, sistema>>
      BY <1>13, <2>2 DEF JournalObtener
    <3>2. Coherentes(ToSet(segmentos), paginas, memoria)
      BY DEF InvCache
    <3>3. seg \in Tablas
      BY <1>1, <3>1, <3>2, SegmentoConPaginas
    <3>4. PaginaEn(seg, z) \in paginas
      BY <1>1, <3>1, <3>2, <3>3, PaginaEnLista DEF PaginasDe
    <3>5. PaginaEn(seg, z).numeroPagina \in Nat
      BY <3>2, <3>4 DEF Coherentes, TPagina
    <3>6. j' \in [Hilos -> LocalesJournal]
      BY <1>21, <3>1, <3>5, CambiarLocales
    <3> QED BY <1>20, <3>1, <3>6
  <2> QED BY <2>1, <2>2
\* A turn that adds to the list.
<1>23. ASSUME NEW rs \in Seq(Rec), Anotar(h, rs)
       PROVE  InvBase'
  <2>1. j[h].lista \o rs \in Seq(Rec)
    <3> HIDE DEF Rec
    <3> QED BY <1>1, <1>23, ConcatProperties
  <2>2. j' = [j EXCEPT ![h].z = j[h].z + 1, ![h].pagina = 0, ![h].lista = j[h].lista \o rs]
    BY <1>23 DEF Anotar
  <2>3. j' \in [Hilos -> LocalesJournal]
    <3> DEFINE l == j[h].lista \o rs
    <3>1. l \in Seq(Rec) /\ j' = [j EXCEPT ![h].z = j[h].z + 1, ![h].pagina = 0, ![h].lista = l]
      BY <2>1, <2>2
    <3> HIDE DEF l
    <3> QED BY <1>1, <1>21, <1>22, <3>1, CambiarLocales
  <2> QED BY <1>20, <1>23, <2>3 DEF Anotar
<1>14. CASE JournalCopiar(h)
  <2>1. Coherentes(ToSet(segmentos), paginas, memoria)
    BY DEF InvCache
  <2>2. PICK p \in paginas :
          Anotar(h, IF p.modificado = 1
                      THEN <<[t |-> p.path, k |-> memoria[p.direccion].key,
                              v |-> memoria[p.direccion].value]>>
                      ELSE <<>>)
    BY <1>14 DEF JournalCopiar, PaginasDe
  <2>3. [t |-> p.path, k |-> memoria[p.direccion].key, v |-> memoria[p.direccion].value] \in Rec
    BY <2>1 DEF Coherentes, TPagina
  <2>4. \A x \in Rec : <<x>> \in Seq(Rec) /\ <<>> \in Seq(Rec)
    OBVIOUS
  <2>5. <<>> \in Seq(Rec)
    OBVIOUS
  <2> HIDE DEF Rec
  <2> QED BY <1>23, <2>2, <2>3, <2>4, <2>5
<1>15. CASE JournalCopiarLiberada(h)
  <2>1. CASE Caer("paginaLiberada")
    BY <2>1, CaerBase
  <2>2. CASE Anotar(h, <<>>)
    <3>1. <<>> \in Seq(Rec)
      OBVIOUS
    <3> HIDE DEF Rec
    <3> QED BY <1>23, <2>2, <3>1
  <2>3. CASE ~Caer("paginaLiberada") /\ ~Anotar(h, <<>>)
    <3>1. PICK r \in [t : {x \in Tablas : j[h].seg \in {x, "liberado"}},
                      k : Claves, v : Valores] :
            /\ j' = [j EXCEPT ![h].z = @ + 1, ![h].lista = Append(@, r), ![h].ajeno = TRUE]
            /\ Ir(h, "jpagina")
            /\ UNCHANGED <<cache, compuerta, pedido, caida, reloj, sistema>>
      BY <1>15, <2>3 DEF JournalCopiarLiberada
    <3>2. r \in Rec
      OBVIOUS
    <3>3. Append(j[h].lista, r) \in Seq(Rec)
      <4> HIDE DEF Rec
      <4> QED BY <1>1, <3>2, AppendProperties
    <3>4. j' \in [Hilos -> LocalesJournal]
      <4> DEFINE l == Append(j[h].lista, r)
      <4>1. l \in Seq(Rec) /\ j' = [j EXCEPT ![h].z = j[h].z + 1, ![h].lista = l, ![h].ajeno = TRUE]
        BY <3>1, <3>3
      <4> HIDE DEF l
      <4> QED BY <1>1, <1>21, <1>22, <4>1, CambiarLocales
    <3> QED BY <1>20, <3>1, <3>4
  <2> QED BY <2>1, <2>2, <2>3
<1>6. CASE JournalColgado(h)
  <2>1. CASE Caer("segmentoLiberado")
    BY <2>1, CaerBase
  <2>2. CASE ~Caer("segmentoLiberado")
    <3>1. /\ j' = j \/ j' = [j EXCEPT ![h].i = j[h].i + 1]
          /\ Ir(h, "jsegmento") \/ Ir(h, "jcopiar")
          /\ UNCHANGED <<cache, compuerta, pedido, caida, reloj, sistema>>
      BY <1>6, <2>2 DEF JournalColgado
    <3>2. [j EXCEPT ![h].i = j[h].i + 1] \in [Hilos -> LocalesJournal]
      BY <1>1, <1>21, <1>22, CambiarLocales
    <3>3. j' \in [Hilos -> LocalesJournal]
      BY <1>21, <3>1, <3>2, Zenon
    <3> QED BY <1>20, <3>1, <3>3
  <2> QED BY <2>1, <2>2
<1>7. CASE JournalEnviar(h)
  <2> DEFINE lista == j[h].lista
  <2>1. InvCache'
    BY <1>7 DEF JournalEnviar, InvCache, cache
  <2>2. CASE lista = <<>>
    <3>1. TipoHilos'
      BY <1>7, <2>2 DEF TipoHilos, JournalEnviar, Ir, compuerta
    <3>2. TipoSistema'
      BY <1>7, <2>2 DEF TipoSistema, JournalEnviar
    <3>3. QED
      BY <2>1, <3>1, <3>2
  <2>3. CASE lista # <<>>
    <3> DEFINE r == Head(lista)
    <3>1. r \in Rec /\ Tail(lista) \in Seq(Rec)
      <4> HIDE DEF Rec
      <4> QED BY <1>1, <2>3, HeadTailProperties
    <3>2. j' = [j EXCEPT ![h].lista = Tail(lista)] /\ UNCHANGED pc
      BY <1>7, <2>3 DEF JournalEnviar, TipoHilos, LocalesJournal
    <3>3. j' \in [Hilos -> LocalesJournal]
      <4> DEFINE l == Tail(lista)
      <4>1. l \in Seq(Rec) /\ j' = [j EXCEPT ![h].lista = l]
        BY <3>1, <3>2
      <4> HIDE DEF l
      <4>2. QED
        BY <1>1, <4>1 DEF TipoHilos, LocalesJournal
    <3>4. TipoHilos'
      BY <1>7, <3>2, <3>3 DEF TipoHilos, JournalEnviar, compuerta
    <3>5. GuardarEnFS(r.t, r.k, r.v) \/ UNCHANGED fs
      BY <1>7, <2>3 DEF JournalEnviar
    <3>6. r.t \in Tablas /\ r.k \in Claves /\ r.v \in Valores
      BY <3>1
    <3> HIDE DEF r
    <3>7. TipoSistema'
      <4> DEFINE x == [timestamp |-> reloj, value |-> r.v]
                 F == {Nulo} \cup [timestamp : Nat \ {0}, value : Valores]
      <4>1. x \in F
        BY <1>2, <3>6
      <4>2. fs' = [fs EXCEPT ![r.t][r.k] = x] \/ fs' = fs
        BY <3>5 DEF GuardarEnFS
      <4> HIDE DEF x, F
      <4>3. fs' \in [Tablas -> [Claves -> F]]
        BY <3>6, <4>1, <4>2 DEF TipoSistema, F
      <4>4. QED
        BY <1>7, <4>3 DEF TipoSistema, JournalEnviar, F
    <3>8. QED
      BY <2>1, <3>4, <3>7
  <2>4. QED
    BY <2>2, <2>3
<1>8. CASE Vaciar(h)
  <2>1. Coherentes(ToSet(segmentos), paginas, memoria)
    BY DEF InvCache
  <2>2. Coherentes({}, paginas \ paginas, Liberar(memoria, paginas))
    BY <2>1, QuitarPaginas
  <2>3. /\ segmentos' = <<>> /\ paginas' = {} /\ memoria' = Liberar(memoria, paginas)
        /\ cantPaginasLibres' = NMarcos
    BY <1>8 DEF Vaciar
  <2>4. segmentos' \in Seq(Tablas) /\ ToSet(segmentos)' = {}
    BY <2>3, EmptySeq DEF ToSet
  <2>5. paginas \ paginas = {}
    OBVIOUS
  <2>6. InvCache'
    <3>1. Coherentes({}, {}, Liberar(memoria, paginas))
      BY <2>2, <2>5
    <3>2. Coherentes(ToSet(segmentos), paginas, memoria)'
      BY <2>3, <2>4, <3>1 DEF Coherentes
    <3>3. QED
      BY <2>3, <2>4, <3>2, ConstantesValidas DEF InvCache
  <2>7. j' \in [Hilos -> LocalesJournal]
    BY <1>8, LiberarSegmentosTipo DEF Vaciar, TipoHilos
  <2>8. TipoHilos'
    BY <1>8, <2>7 DEF TipoHilos, Vaciar, Ir, compuerta
  <2>9. TipoSistema'
    BY <1>8 DEF TipoSistema, Vaciar, sistema
  <2>10. QED
    BY <2>6, <2>8, <2>9
<1>9. CASE JournalAvisar(h)
  <2>1. TipoHilos'
    BY <1>9 DEF TipoHilos, JournalAvisar, Ir
  <2>2. QED
    BY <1>2, <1>9, <2>1, QuietosBase DEF JournalAvisar
<1>10. CASE JournalBajar(h)
  <2>1. j' \in [Hilos -> LocalesJournal]
    BY <1>10, EmptySeq DEF JournalBajar, TerminarJournal, TipoHilos, LocalesJournal, JournalVacio
  <2>2. TipoHilos'
    BY <1>10, <2>1 DEF TipoHilos, JournalBajar, TerminarJournal, Contestar, Ir
  <2>3. QED
    BY <1>2, <1>10, <2>2, QuietosBase DEF JournalBajar
<1>11. QED
  BY <1>3, <1>4, <1>5, <1>6, <1>7, <1>8, <1>9, <1>10, <1>12, <1>13, <1>14, <1>15 DEF Journal

LEMMA PasoBase == InvBase /\ [Next]_vars => InvBase'
<1> SUFFICES ASSUME InvBase, [Next]_vars PROVE InvBase'
  OBVIOUS
<1>1. CASE Tic
  <2>1. TipoHilos'
    BY <1>1 DEF InvBase, TipoHilos, Tic, compuerta
  <2>2. QED
    BY <1>1, <2>1, QuietosBase DEF Tic, InvBase, TipoSistema
<1>2. CASE Reiniciar
  <2>1. TipoHilos'
    BY <1>2 DEF InvBase, TipoHilos, Reiniciar, compuerta
  <2>2. QED
    BY <1>2, <2>1, QuietosBase DEF Reiniciar, InvBase, TipoSistema
<1>3. ASSUME NEW h \in Hilos, Paso(h) PROVE InvBase'
  BY <1>3, RecibirBase, SelectBase, InsertBase, TablasBase, JournalBase
     DEF Paso, Atender
<1>4. CASE UNCHANGED vars
  <2>1. TipoHilos'
    BY <1>4 DEF InvBase, TipoHilos, vars, compuerta
  <2>2. QED
    BY <1>4, <2>1, QuietosBase DEF vars, InvBase, TipoSistema
<1>5. QED
  BY <1>1, <1>2, <1>3, <1>4 DEF Next

\* Whatever the clients do, DROP included, and however the journals overlap:
\* every variable but the LRU list keeps its type, and the pages, their
\* numbers, keys, frames and segments stay in step.
THEOREM PaginasIntegras ==
  Spec => [](TipoCache /\ TipoHilos /\ TipoSistema /\ IntegridadPaginas)
<1>1. InvBase => TipoCache /\ TipoHilos /\ TipoSistema /\ IntegridadPaginas
  BY DEF InvBase, InvCache, Coherentes, TipoCache, TPagina, TRegistro,
         IntegridadPaginas, BuscarSegmento
<1>2. QED
  BY InitBase, PasoBase, <1>1, PTL DEF Spec

-----------------------------------------------------------------------------
(* The LRU list. *)

TEntrada == [path : Tablas, numeroPagina : Nat \ {0}, modificado : {0, 1}]

MismaClave(p, q) == p.path = q.path /\ p.numeroPagina = q.numeroPagina

\* No two pages have one path and number.
Distinguibles(pags) ==
  /\ pags \subseteq TPagina
  /\ \A p, q \in pags : p # q => ~MismaClave(p, q)

LEMMA EntradaTipo ==
  ASSUME NEW p \in TPagina
  PROVE  /\ EntradaLRU(p) \in TEntrada
         /\ EntradaLRU(p).path = p.path
         /\ EntradaLRU(p).numeroPagina = p.numeroPagina
         /\ EntradaLRU(p).modificado = p.modificado
BY DEF EntradaLRU, TEntrada, TPagina

-----------------------------------------------------------------------------
(* What stays true of the list whatever is dropped: entries of pages that    *)
(* are gone may linger, and pages may lack theirs.                           *)

\* No two entries for one page, and the entry of a page that is there has its
\* modificado.
LRUFloja(lru, pags) ==
  /\ lru \in Seq(TEntrada)
  /\ \A i, n \in 1..Len(lru) : i # n => ~MismaClave(lru[i], lru[n])
  /\ \A i \in 1..Len(lru), p \in pags :
       MismaClave(lru[i], p) => lru[i].modificado = p.modificado

LEMMA FlojaSinUna ==
  ASSUME NEW lru, NEW pags, LRUFloja(lru, pags), NEW i \in 1..Len(lru)
  PROVE  /\ LRUFloja(RemoveAt(lru, i), pags)
         /\ Len(RemoveAt(lru, i)) = Len(lru) - 1
         /\ \A n \in 1..Len(lru)-1 :
              \E m \in 1..Len(lru) : m # i /\ RemoveAt(lru, i)[n] = lru[m]
<1>1. lru \in Seq(TEntrada) /\ Len(lru) \in Nat
  BY LenProperties DEF LRUFloja
<1>2. PICK r : r = RemoveAt(lru, i)
  OBVIOUS
<1>3. /\ r \in Seq(TEntrada) /\ Len(r) = Len(lru) - 1
      /\ \A n \in 1..Len(lru)-1 : r[n] = IF n < i THEN lru[n] ELSE lru[n+1]
  BY <1>1, <1>2, RemoveAtProps
<1>4. \A n \in 1..Len(lru)-1 :
        /\ (IF n < i THEN n ELSE n+1) \in 1..Len(lru)
        /\ (IF n < i THEN n ELSE n+1) # i
        /\ r[n] = lru[IF n < i THEN n ELSE n+1]
  BY <1>1, <1>3
<1>5. ASSUME NEW n \in 1..Len(r), NEW m \in 1..Len(r), n # m
      PROVE  ~MismaClave(r[n], r[m])
  <2>1. (IF n < i THEN n ELSE n+1) # (IF m < i THEN m ELSE m+1)
    BY <1>1, <1>3, <1>5
  <2> QED BY <1>3, <1>4, <2>1 DEF LRUFloja
<1>6. \A n \in 1..Len(r), p \in pags :
        MismaClave(r[n], p) => r[n].modificado = p.modificado
  BY <1>3, <1>4 DEF LRUFloja
<1> QED BY <1>2, <1>3, <1>4, <1>5, <1>6 DEF LRUFloja

\* agregarEnListaLRU, whether or not the page has an entry.
LEMMA AgregarFloja ==
  ASSUME NEW lru, NEW pags, LRUFloja(lru, pags), NEW q \in TPagina,
         NEW otras, \A x \in otras : x \in pags \/ x = q,
         \A x \in otras : MismaClave(x, q) => x = q
  PROVE  LRUFloja(AgregarEnListaLRU(lru, q), otras)
<1> DEFINE e == EntradaLRU(q)
           I == {i \in 1..Len(lru) : MismaPagina(lru[i], q)}
<1>1. lru \in Seq(TEntrada) /\ Len(lru) \in Nat
  BY LenProperties DEF LRUFloja
<1>2. e \in TEntrada /\ MismaClave(e, q) /\ e.modificado = q.modificado
  BY EntradaTipo DEF MismaClave
<1>3. \E r : /\ AgregarEnListaLRU(lru, q) = Append(r, e)
             /\ LRUFloja(r, pags)
             /\ \A i \in 1..Len(r) : ~MismaClave(r[i], q)
  <2>1. CASE I = {}
    <3>1. \A i \in 1..Len(lru) : ~MismaPagina(lru[i], q)
      BY <2>1
    <3>2. AgregarEnListaLRU(lru, q) = Append(lru, e)
      BY <3>1 DEF AgregarEnListaLRU, RemoveFirstMatch
    <3> QED BY <3>1, <3>2 DEF MismaPagina, MismaClave
  <2>2. CASE I # {}
    <3>1. Min(I) \in I
      <4>1. I \in SUBSET (1..Len(lru))
        OBVIOUS
      <4> HIDE DEF I
      <4> QED BY <1>1, <2>2, <4>1, PrimeraPosicion
    <3>2. PICK i : i = Min(I)
      OBVIOUS
    <3>3. i \in 1..Len(lru) /\ MismaPagina(lru[i], q)
      BY <3>1, <3>2
    <3>4. AgregarEnListaLRU(lru, q) = Append(RemoveAt(lru, i), e)
      BY <3>2, <3>3 DEF AgregarEnListaLRU, RemoveFirstMatch, SelectInSeq
    <3>5. PICK r : r = RemoveAt(lru, i)
      OBVIOUS
    <3>6. /\ LRUFloja(r, pags) /\ Len(r) = Len(lru) - 1
          /\ \A n \in 1..Len(lru)-1 : \E m \in 1..Len(lru) : m # i /\ r[n] = lru[m]
      <4> DEFINE Queda(m, n, x) == m # i /\ x[n] = lru[m]
      <4>1. i \in 1..Len(lru)
        BY <3>3
      <4> HIDE DEF I, e
      <4>2. /\ LRUFloja(RemoveAt(lru, i), pags)
            /\ Len(RemoveAt(lru, i)) = Len(lru) - 1
        BY <4>1, FlojaSinUna
      <4>3. \A n \in 1..Len(lru)-1 : \E m \in 1..Len(lru) : Queda(m, n, RemoveAt(lru, i))
        BY <4>1, FlojaSinUna
      <4> QED BY <3>5, <4>2, <4>3
    <3>7. ASSUME NEW n \in 1..Len(r) PROVE ~MismaClave(r[n], q)
      <4>1. PICK m \in 1..Len(lru) : m # i /\ r[n] = lru[m]
        BY <3>6
      <4>2. ~MismaClave(lru[m], lru[i])
        BY <3>3, <4>1 DEF LRUFloja
      <4> QED BY <3>3, <4>1, <4>2 DEF MismaClave, MismaPagina
    <3> QED BY <3>4, <3>5, <3>6, <3>7
  <2> QED BY <2>1, <2>2
<1>4. PICK r : /\ AgregarEnListaLRU(lru, q) = Append(r, e)
               /\ LRUFloja(r, pags)
               /\ \A i \in 1..Len(r) : ~MismaClave(r[i], q)
  BY <1>3
<1>5. PICK s : s = Append(r, e)
  OBVIOUS
<1> HIDE DEF e, I
<1>6. r \in Seq(TEntrada) /\ Len(r) \in Nat
  BY <1>4, LenProperties DEF LRUFloja
<1>7. /\ s \in Seq(TEntrada) /\ Len(s) = Len(r) + 1
      /\ \A i \in 1..Len(r) : s[i] = r[i]
      /\ s[Len(r)+1] = e
  BY <1>2, <1>5, <1>6, AppendProperties
<1>8. \A i \in 1..Len(s) : i \in 1..Len(r) \/ i = Len(r)+1
  BY <1>6, <1>7
<1>9. \A i \in 1..Len(r) : ~MismaClave(s[i], e) /\ ~MismaClave(e, s[i])
  BY <1>2, <1>4, <1>7 DEF MismaClave
<1>10. ASSUME NEW i \in 1..Len(s), NEW n \in 1..Len(s), i # n
       PROVE  ~MismaClave(s[i], s[n])
  BY <1>4, <1>7, <1>8, <1>9, <1>10 DEF LRUFloja
<1>11. ASSUME NEW i \in 1..Len(s), NEW p \in otras, MismaClave(s[i], p)
       PROVE  s[i].modificado = p.modificado
  <2>1. CASE i \in 1..Len(r)
    <3>1. p # q /\ p \in pags
      BY <1>4, <1>7, <1>11, <2>1
    <3> QED BY <1>4, <1>7, <1>11, <2>1, <3>1 DEF LRUFloja
  <2>2. CASE i = Len(r)+1
    <3>1. MismaClave(p, q)
      BY <1>2, <1>7, <1>11, <2>2 DEF MismaClave
    <3> QED BY <1>2, <1>7, <2>2, <3>1
  <2> QED BY <1>8, <2>1, <2>2
<1> QED BY <1>4, <1>5, <1>7, <1>10, <1>11 DEF LRUFloja

\* One round of the loop of dropSegmento takes out one entry, or none.
LEMMA QuitarUnoFloja ==
  ASSUME NEW lru, NEW pags, LRUFloja(lru, pags), NEW n
  PROVE  LRUFloja(QuitarUno(lru, n), pags)
<1> DEFINE I == {i \in 1..Len(lru) : lru[i].path = lru[n].path}
<1>1. CASE I = {}
  BY <1>1 DEF QuitarUno, RemoveFirstMatch
<1>2. CASE I # {}
  <2>1. Min(I) \in I
    <3>1. I \in SUBSET (1..Len(lru)) /\ Len(lru) \in Nat
      BY LenProperties DEF LRUFloja
    <3> HIDE DEF I
    <3> QED BY <1>2, <3>1, PrimeraPosicion
  <2>2. PICK i : i = Min(I)
    OBVIOUS
  <2>3. i \in 1..Len(lru) /\ lru[i].path = lru[n].path
    BY <2>1, <2>2
  <2>4. QuitarUno(lru, n) = RemoveAt(lru, i)
    BY <2>2, <2>3 DEF QuitarUno, RemoveFirstMatch, SelectInSeq
  <2> QED BY <2>3, <2>4, FlojaSinUna
<1> QED BY <1>1, <1>2

\* The first n rounds.
EsPurgaHasta(g, n) ==
  g = [i \in 0..n |-> IF i = 0 THEN lista_LRU ELSE QuitarUno(g[i-1], i)]

LEMMA HayPurga == \A n \in Nat : \E g : EsPurgaHasta(g, n)
<1> DEFINE Malos == {n \in Nat : ~\E g : EsPurgaHasta(g, n)}
<1> SUFFICES ASSUME Malos # {} PROVE FALSE
  OBVIOUS
<1>1. Malos \in SUBSET Nat
  OBVIOUS
<1>2. PICK n \in Malos : \A y \in Malos : n <= y
  <2> HIDE DEF Malos
  <2> QED BY <1>1, MinimoNatural
<1>3. CASE n = 0
  <2>1. EsPurgaHasta([i \in 0..0 |-> lista_LRU], 0)
    BY DEF EsPurgaHasta
  <2> QED BY <1>2, <1>3, <2>1
<1>4. CASE n # 0
  <2>1. n - 1 \in Nat /\ ~(n <= n - 1) /\ (n-1)+1 = n
    BY <1>2, <1>4
  <2>2. PICK g : EsPurgaHasta(g, n-1)
    BY <1>2, <2>1
  <2> DEFINE f == [i \in 0..n |-> IF i = n THEN QuitarUno(g[n-1], n) ELSE g[i]]
  <2>3. ASSUME NEW i \in 0..n
        PROVE  f[i] = IF i = 0 THEN lista_LRU ELSE QuitarUno(f[i-1], i)
    <3>1. CASE i = n
      <4>1. f[i] = QuitarUno(g[n-1], n) /\ f[n-1] = g[n-1]
        BY <2>1, <3>1
      <4> HIDE DEF f
      <4> QED BY <1>4, <3>1, <4>1
    <3>2. CASE i # n
      <4>1. i \in 0..n-1 /\ f[i] = g[i]
        BY <2>1, <3>2
      <4>2. g[i] = IF i = 0 THEN lista_LRU ELSE QuitarUno(g[i-1], i)
        BY <2>2, <4>1 DEF EsPurgaHasta
      <4>3. i # 0 => f[i-1] = g[i-1]
        BY <4>1
      <4> HIDE DEF f
      <4> QED BY <4>1, <4>2, <4>3
    <3> QED BY <3>1, <3>2
  <2>4. f = [i \in 0..n |-> f[i]]
    OBVIOUS
  <2> HIDE DEF f
  <2>5. f = [i \in 0..n |-> IF i = 0 THEN lista_LRU ELSE QuitarUno(f[i-1], i)]
    BY <2>3, <2>4
  <2>6. EsPurgaHasta(f, n)
    BY <2>5 DEF EsPurgaHasta
  <2> QED BY <1>2, <2>6
<1> QED BY <1>3, <1>4

\* However the loop goes wrong, it only takes entries out.
LEMMA PurgaFloja ==
  ASSUME NEW pags, LRUFloja(lista_LRU, pags)
  PROVE  LRUFloja(LRUTrasDrop, pags)
<1>1. PICK n : n = (Len(lista_LRU) + 1) \div 2
  OBVIOUS
<1>2. n \in Nat
  BY <1>1, LenProperties DEF LRUFloja
<1>3. PICK g : /\ EsPurgaHasta(g, n) /\ LRUTrasDrop = g[n]
  BY <1>1, <1>2, HayPurga DEF LRUTrasDrop, EsPurgaHasta
<1>4. \A i \in 0..n :
        g[i] = IF i = 0 THEN lista_LRU ELSE QuitarUno(g[i-1], i)
  BY <1>3 DEF EsPurgaHasta
<1> DEFINE Malos == {i \in 0..n : ~LRUFloja(g[i], pags)}
<1>5. Malos = {}
  <2> SUFFICES ASSUME Malos # {} PROVE FALSE
    OBVIOUS
  <2>1. Malos \in SUBSET Nat
    OBVIOUS
  <2>2. PICK i \in Malos : \A y \in Malos : i <= y
    <3> HIDE DEF Malos
    <3> QED BY <2>1, MinimoNatural
  <2>3. i # 0
    BY <1>4, <2>2
  <2>4. i - 1 \in 0..n /\ ~(i <= i - 1)
    BY <1>2, <2>2, <2>3
  <2>5. LRUFloja(g[i-1], pags)
    BY <2>2, <2>4
  <2>6. g[i] = QuitarUno(g[i-1], i)
    BY <1>4, <2>2, <2>3
  <2> QED BY <2>2, <2>5, <2>6, QuitarUnoFloja
<1>6. n \in 0..n
  BY <1>2
<1> QED BY <1>3, <1>5, <1>6

-----------------------------------------------------------------------------
(* The inductive invariant.  Every segment holds a dirty page: the INSERT    *)
(* that makes a segment makes a dirty page with it, and only what takes the  *)
(* segment away takes that page.  So a stale entry that the eviction follows *)
(* always ends in the NULL it dereferences, never in a miscount.             *)

SegmentosVivos ==
  /\ \A i, n \in DOMAIN segmentos : segmentos[i] = segmentos[n] => i = n
  /\ \A t \in ToSet(segmentos) : \E p \in paginas : p.path = t /\ p.modificado = 1

\* The list, the segments and the counter, whatever is dropped.
Lista == LRUFloja(lista_LRU, paginas) /\ SegmentosVivos /\ ContadorExacto

InvLista == InvBase /\ Lista

LEMMA CoherentesDistinguibles ==
  ASSUME NEW segs, NEW pags, NEW mem, Coherentes(segs, pags, mem)
  PROVE  Distinguibles(pags)
BY DEF Coherentes, Distinguibles, MismaClave

LEMMA VaciosFinitos ==
  ASSUME NEW mem
  PROVE  /\ IsFiniteSet(MarcosVacios(mem))
         /\ Cardinality(MarcosVacios(mem)) \in Nat
<1>1. MarcosVacios(mem) \in SUBSET Marcos
  BY DEF MarcosVacios
<1>2. IsFiniteSet(MarcosVacios(mem))
  BY <1>1, MarcosFinitos, FS_Subset
<1> QED BY <1>2, FS_CardinalityType

\* An empty cache.
LEMMA CacheVacia ==
  ASSUME \A m \in Marcos : memoria'[m].timestamp = 0, segmentos' = <<>>,
         paginas' = {}, lista_LRU' = <<>>, cantPaginasLibres' = NMarcos
  PROVE  Lista'
<1>1. LRUFloja(<<>>, {})
  BY EmptySeq DEF LRUFloja
<1>2. MarcosVacios(memoria') = Marcos
  BY DEF MarcosVacios
<1>3. ContadorExacto'
  BY <1>2, MarcosFinitos DEF ContadorExacto, MarcosVacios
<1>4. SegmentosVivos'
  BY DEF SegmentosVivos, ToSet
<1> QED BY <1>1, <1>3, <1>4 DEF Lista

\* liberarMemoriaLRU, when it neither gives up nor dies: the victim is a clean
\* page, and its frame is the one that becomes free.
LEMMA LugarLista ==
  ASSUME InvLista, ~MemoriaLlena, ~DesalojoColgante
  PROVE  /\ LRUFloja(LRUTras, PaginasTras)
         /\ LibresTras = Cardinality(MarcosVacios(MemoriaTras))
         /\ LibresTras > 0
         /\ \A p \in Salen : p.modificado = 0
<1>1. Coherentes(ToSet(segmentos), paginas, memoria) /\ cantPaginasLibres \in Int
  BY DEF InvLista, InvBase, InvCache
<1>2. Distinguibles(paginas)
  BY <1>1, CoherentesDistinguibles
<1>3. LRUFloja(lista_LRU, paginas)
  BY DEF InvLista, Lista
<1>4. cantPaginasLibres = Cardinality(MarcosVacios(memoria))
  BY DEF InvLista, Lista, ContadorExacto
<1>5. CASE ~Desaloja
  <2>1. MemoriaTras = memoria
    BY <1>1, <1>5 DEF MemoriaTras, Salen, Liberar, Coherentes
  <2>2. PaginasTras = paginas /\ Salen = {} /\ LRUTras = lista_LRU
        /\ LibresTras = cantPaginasLibres
    BY <1>5 DEF PaginasTras, Salen, LRUTras, LibresTras
  <2>3. LibresTras > 0
    BY <1>4, <1>5, <2>2, VaciosFinitos DEF Desaloja
  <2> QED BY <1>3, <1>4, <2>1, <2>2, <2>3
<1>6. CASE Desaloja
  <2> DEFINE I == {n \in 1..Len(lista_LRU) : lista_LRU[n].modificado = 0}
             i == SinModificar
  <2>1. i \in 1..Len(lista_LRU) /\ lista_LRU[i].modificado = 0
    <3>1. I # {} /\ i = Min(I)
      BY <1>6 DEF MemoriaLlena, SinModificar, SelectInSeq
    <3>2. I \in SUBSET (1..Len(lista_LRU)) /\ Len(lista_LRU) \in Nat
      BY <1>3, LenProperties DEF LRUFloja
    <3> HIDE DEF I, i
    <3>3. i \in I
      BY <3>1, <3>2, PrimeraPosicion
    <3> QED BY <3>3 DEF I
  <2>2. Victima = lista_LRU[i] /\ SinModificar # 0
    BY <1>6 DEF Victima, MemoriaLlena
  <2>3. BuscarSegmento(Victima.path)
        /\ (PaginaVictima # {} \/ PaginasDe(Victima.path) = {})
    BY <1>6, <2>2 DEF DesalojoColgante
  <2>4. PaginasDe(Victima.path) # {}
    BY <2>3 DEF InvLista, Lista, SegmentosVivos, BuscarSegmento, PaginasDe
  <2>5. PICK p \in PaginaVictima : TRUE
    BY <2>3, <2>4
  <2>6. p \in paginas /\ p \in TPagina /\ MismaClave(lista_LRU[i], p)
    BY <1>2, <2>2, <2>5 DEF PaginaVictima, MismaPagina, MismaClave, Distinguibles
  <2>7. p.modificado = 0
    BY <1>3, <2>1, <2>6 DEF LRUFloja
  <2>8. PaginaVictima = {p}
    BY <1>2, <2>2, <2>5, <2>6 DEF PaginaVictima, MismaPagina, MismaClave, Distinguibles
  <2>9. Salen = {p} /\ PaginasTras = paginas \ {p} /\ LibresTras = 1
        /\ LRUTras = RemoveAt(lista_LRU, i) /\ MemoriaTras = Liberar(memoria, {p})
    BY <1>6, <2>8 DEF Salen, PaginasTras, LRUTras, LibresTras, MemoriaTras
  <2> HIDE DEF i
  <2>10. LRUFloja(LRUTras, PaginasTras)
    <3>1. LRUFloja(RemoveAt(lista_LRU, i), paginas)
      BY <1>3, <2>1, FlojaSinUna
    <3> QED BY <2>9, <3>1 DEF LRUFloja
  <2>11. MarcosVacios(memoria) = {}
    BY <1>4, <1>6, VaciosFinitos, FS_EmptySet DEF Desaloja
  <2>12. MarcosVacios(MemoriaTras) = {p.direccion}
    BY <2>6, <2>9, <2>11, VacioTipo DEF MarcosVacios, Liberar, TPagina
  <2>13. Cardinality(MarcosVacios(MemoriaTras)) = 1
    BY <2>12, FS_Singleton
  <2> QED BY <2>7, <2>9, <2>10, <2>13
<1> QED BY <1>5, <1>6

\* guardarRegistro always finds a frame.
LEMMA HayMarco ==
  ASSUME InvLista, ~MemoriaLlena, ~DesalojoColgante
  PROVE  ~DesbordeMarcos
BY LugarLista, FS_EmptySet DEF DesbordeMarcos

\* Adding the page of a key that is not cached.
LEMMA PaginaAgregadaLista ==
  ASSUME InvLista, ~MemoriaLlena, ~DesalojoColgante,
         NEW t \in Tablas, NEW k \in Claves, NEW ts \in Nat \ {0},
         NEW v \in Valores, NEW bit \in {0, 1},
         BuscarPagina(t, k) = {}, AgregarPagina(t, k, ts, v, bit)
  PROVE  /\ LRUFloja(lista_LRU', paginas') /\ ContadorExacto'
         /\ \E q \in paginas' : q.path = t /\ q.modificado = bit
<1> DEFINE marco == Min(MarcosVacios(MemoriaTras))
           pag == [path |-> t, numeroPagina |-> ObtenerIndicePagina(t),
                   direccion |-> marco, modificado |-> bit]
           reg == [timestamp |-> ts, key |-> k, value |-> v]
<1>1. InvCache /\ Coherentes(ToSet(segmentos), PaginasTras, MemoriaTras)
  BY LugarCoherente DEF InvLista, InvBase
<1>2. marco \in Marcos /\ MemoriaTras[marco].timestamp = 0
  BY HayMarco, MarcoVacio DEF DesbordeMarcos
<1>3. pag \in TPagina /\ pag.path = t /\ pag.modificado = bit
  BY <1>1, <1>2, IndiceNuevo DEF TPagina
<1>4. /\ paginas' = PaginasTras \cup {pag}
      /\ memoria' = [MemoriaTras EXCEPT ![marco] = reg]
      /\ lista_LRU' = AgregarEnListaLRU(LRUTras, pag)
      /\ cantPaginasLibres' = LibresTras - 1
  BY DEF AgregarPagina
<1>5. \A p \in PaginasTras : ~MismaClave(p, pag)
  BY <1>1, IndiceNuevo DEF MismaClave, Coherentes, TPagina
<1>6. reg.timestamp # 0
  OBVIOUS
<1> HIDE DEF pag, marco, reg
<1>7. LRUFloja(lista_LRU', paginas')
  <2>1. PICK otras : otras = PaginasTras \cup {pag}
    OBVIOUS
  <2>2. /\ \A x \in otras : x \in PaginasTras \/ x = pag
        /\ \A x \in otras : MismaClave(x, pag) => x = pag
    BY <1>5, <2>1
  <2>3. LRUFloja(LRUTras, PaginasTras)
    BY LugarLista
  <2> QED BY <1>3, <1>4, <2>1, <2>2, <2>3, AgregarFloja
<1>8. MarcosVacios(memoria') = MarcosVacios(MemoriaTras) \ {marco}
  BY <1>1, <1>2, <1>4, <1>6 DEF MarcosVacios, Coherentes
<1>9. marco \in MarcosVacios(MemoriaTras)
  BY <1>2 DEF MarcosVacios
<1>10. Cardinality(MarcosVacios(memoria')) = LibresTras - 1
  BY <1>8, <1>9, LugarLista, VaciosFinitos, FS_RemoveElement, ZenonT(60)
<1>11. ContadorExacto'
  BY <1>4, <1>10 DEF ContadorExacto, MarcosVacios
<1> QED BY <1>3, <1>4, <1>7, <1>11

\* The steps that leave the cache alone.
LEMMA QuietosLista ==
  ASSUME InvLista, UNCHANGED cache
  PROVE  Lista'
BY DEF InvLista, Lista, ContadorExacto, SegmentosVivos, MarcosVacios, cache

LEMMA CaerLista ==
  ASSUME NEW m, Caer(m)
  PROVE  Lista'
<1>1. \A x \in Marcos : memoria'[x].timestamp = 0
  BY VacioTipo DEF Caer
<1> QED BY <1>1, CacheVacia DEF Caer

LEMMA SelectLista ==
  ASSUME InvLista, NEW h \in Hilos, SelectEnCache(h) \/ SelectFuera(h)
  PROVE  Lista'
<1> DEFINE t == pedido[h].t  k == pedido[h].k  r == fs[t][k]
<1>1. Coherentes(ToSet(segmentos), paginas, memoria)
  BY DEF InvLista, InvBase, InvCache
<1>2. Distinguibles(paginas)
  BY <1>1, CoherentesDistinguibles
<1>3. LRUFloja(lista_LRU, paginas) /\ SegmentosVivos /\ ContadorExacto
  BY DEF InvLista, Lista
<1>4. CASE SelectEnCache(h)
  <2>1. PICK p \in paginas : lista_LRU' = AgregarEnListaLRU(lista_LRU, p)
    BY <1>4 DEF SelectEnCache, BuscarPagina, PaginasDe
  <2>2. LRUFloja(lista_LRU', paginas)
    <3>1. /\ p \in TPagina
          /\ \A x \in paginas : MismaClave(x, p) => x = p
      BY <1>2 DEF Distinguibles
    <3> QED BY <1>3, <2>1, <3>1, AgregarFloja
  <2>3. UNCHANGED <<segmentos, paginas, memoria, cantPaginasLibres>>
    BY <1>4 DEF SelectEnCache
  <2> QED BY <1>3, <2>2, <2>3 DEF Lista, ContadorExacto, MarcosVacios, SegmentosVivos
<1>5. CASE SelectFuera(h)
  <2>1. t \in Tablas /\ k \in Claves
    BY <1>5, PedidoTipo DEF SelectFuera, InvLista, InvBase
  <2>2. CASE ConFull(h)
    BY <2>2, QuietosLista DEF ConFull
  <2>3. ASSUME ~MemoriaLlena, ~DesalojoColgante, PaginasTras \subseteq paginas',
               UNCHANGED segmentos
        PROVE  SegmentosVivos'
    <3>1. \A p \in paginas : p.modificado = 1 => p \in paginas'
      BY <2>3, LugarLista DEF PaginasTras
    <3> QED BY <1>3, <2>3, <3>1 DEF SegmentosVivos
  <2>4. CASE SelectFallido(h)
    <3>1. SegmentosVivos'
      BY <2>3, <2>4 DEF SelectFallido, HacerLugar
    <3> QED BY <2>4, <3>1, LugarLista DEF SelectFallido, HacerLugar, Lista, ContadorExacto, MarcosVacios
  <2>5. CASE SelectDelFS(h)
    <3>1. r.timestamp \in Nat \ {0} /\ r.value \in Valores
      <4>1. r \in {Nulo} \cup [timestamp : Nat \ {0}, value : Valores] /\ r # Nulo
        BY <2>1, <2>5 DEF SelectDelFS, TieneRegistro, InvLista, InvBase, TipoSistema
      <4> QED BY <4>1
    <3>2. CASE AgregarPagina(t, k, r.timestamp, r.value, 0) /\ UNCHANGED segmentos
      <4>1. BuscarPagina(t, k) = {} /\ ~MemoriaLlena /\ ~DesalojoColgante
        BY <1>5, <2>5 DEF SelectFuera, SelectDelFS
      <4>2. SegmentosVivos'
        BY <2>3, <3>2, <4>1 DEF AgregarPagina
      <4> HIDE DEF t, k, r
      <4> QED BY <2>1, <3>1, <3>2, <4>1, <4>2, PaginaAgregadaLista DEF Lista
    <3>3. CASE Caer("selectSinSegmento")
      BY <3>3, CaerLista
    <3> QED BY <2>5, <3>2, <3>3 DEF SelectDelFS
  <2>6. CASE Caer("lruColgante") \/ Caer("desbordeMarcos")
    BY <2>6, CaerLista
  <2> QED BY <1>5, <2>2, <2>4, <2>5, <2>6 DEF SelectFuera
<1> QED BY <1>4, <1>5

LEMMA InsertLista ==
  ASSUME InvLista, NEW h \in Hilos, InsertEnCache(h) \/ InsertFuera(h)
  PROVE  Lista'
<1> DEFINE t == pedido[h].t  k == pedido[h].k  v == pedido[h].v
           reg == [timestamp |-> reloj, key |-> k, value |-> v]
<1>1. t \in Tablas /\ k \in Claves /\ v \in Valores
  BY PedidoTipo DEF InsertEnCache, InsertFuera, InvLista, InvBase
<1>2. reloj \in Nat \ {0} /\ segmentos \in Seq(Tablas)
  BY DEF InvLista, InvBase, TipoSistema, InvCache
<1>3. Coherentes(ToSet(segmentos), paginas, memoria)
  BY DEF InvLista, InvBase, InvCache
<1>4. LRUFloja(lista_LRU, paginas) /\ SegmentosVivos /\ ContadorExacto
  BY DEF InvLista, Lista
<1>5. CASE InsertEnCache(h)
  <2>1. PICK p \in BuscarPagina(t, k) :
          IF memoria[p.direccion].timestamp < reloj
          THEN /\ paginas' = (paginas \ {p}) \cup {MarcarModificada(p)}
               /\ memoria' = [memoria EXCEPT ![p.direccion] = reg]
               /\ lista_LRU' = AgregarEnListaLRU(lista_LRU, MarcarModificada(p))
          ELSE UNCHANGED <<paginas, memoria, lista_LRU>>
    BY <1>5 DEF InsertEnCache
  <2>2. UNCHANGED <<segmentos, cantPaginasLibres>>
    BY <1>5 DEF InsertEnCache
  <2>3. p \in paginas /\ p \in TPagina
    BY <1>3 DEF BuscarPagina, PaginasDe, Coherentes
  <2>4. CASE memoria[p.direccion].timestamp < reloj
    <3> DEFINE q == MarcarModificada(p)
    <3>1. q \in TPagina /\ MismaClave(p, q) /\ q.path = p.path /\ q.modificado = 1
      BY <2>3 DEF MarcarModificada, TPagina, MismaClave
    <3> HIDE DEF q
    <3>2. LRUFloja(AgregarEnListaLRU(lista_LRU, q), (paginas \ {p}) \cup {q})
      <4>1. PICK otras : otras = (paginas \ {p}) \cup {q}
        OBVIOUS
      <4>2. \A x \in otras : (x \in paginas \/ x = q) /\ (MismaClave(x, q) => x = q)
        BY <1>3, <2>3, <3>1, <4>1, CoherentesDistinguibles DEF Distinguibles, MismaClave
      <4> QED BY <1>4, <3>1, <4>1, <4>2, AgregarFloja
    <3>3. reg.timestamp # 0 /\ memoria[p.direccion].timestamp # 0
      BY <1>2, <1>3, <2>3 DEF Coherentes
    <3>4. memoria' = [memoria EXCEPT ![p.direccion] = reg]
      BY <2>1, <2>4
    <3> HIDE DEF reg
    <3>5. MarcosVacios(memoria') = MarcosVacios(memoria)
      BY <1>3, <3>3, <3>4 DEF MarcosVacios, Coherentes
    <3>6. ContadorExacto'
      BY <1>4, <2>2, <3>5 DEF ContadorExacto, MarcosVacios
    <3>7. paginas' = (paginas \ {p}) \cup {q}
      BY <2>1, <2>4 DEF q
    <3>8. SegmentosVivos'
      <4>1. ASSUME NEW u \in ToSet(segmentos)
            PROVE  \E x \in paginas' : x.path = u /\ x.modificado = 1
        <5>1. PICK x \in paginas : x.path = u /\ x.modificado = 1
          BY <1>4 DEF SegmentosVivos
        <5>2. CASE x = p
          BY <3>1, <3>7, <5>1, <5>2
        <5>3. CASE x # p
          BY <3>7, <5>1, <5>3
        <5> QED BY <5>2, <5>3
      <4> QED BY <1>4, <2>2, <4>1 DEF SegmentosVivos
    <3> QED BY <2>1, <2>4, <3>2, <3>6, <3>7, <3>8 DEF q, Lista
  <2>5. CASE ~(memoria[p.direccion].timestamp < reloj)
    BY <2>1, <2>2, <2>5, QuietosLista DEF cache
  <2> QED BY <2>4, <2>5
<1>6. CASE InsertFuera(h)
  <2>1. CASE ConFull(h)
    BY <2>1, QuietosLista DEF ConFull
  <2>2. CASE InsertNuevo(h)
    <3>1. AgregarPagina(t, k, reloj, v, 1) /\ ~MemoriaLlena /\ ~DesalojoColgante
      BY <2>2 DEF InsertNuevo
    <3>2. BuscarPagina(t, k) = {}
      BY <1>6 DEF InsertFuera
    <3>3. segmentos' = IF BuscarSegmento(t) THEN segmentos ELSE Append(segmentos, t)
      BY <2>2 DEF InsertNuevo
    <3> HIDE DEF t, k, v
    <3>4. /\ LRUFloja(lista_LRU', paginas') /\ ContadorExacto'
          /\ \E q \in paginas' : q.path = t /\ q.modificado = 1
      BY <1>1, <1>2, <3>1, <3>2, PaginaAgregadaLista
    <3>5. \A p \in paginas : p.modificado = 1 => p \in paginas'
      BY <3>1, LugarLista DEF AgregarPagina, PaginasTras
    <3>6. ToSet(segmentos') \subseteq ToSet(segmentos) \cup {t}
      BY <1>1, <1>2, <3>3, SegmentosTras
    <3>7. \A i, n \in DOMAIN segmentos' : segmentos'[i] = segmentos'[n] => i = n
      <4>1. CASE BuscarSegmento(t)
        BY <1>4, <3>3, <4>1 DEF SegmentosVivos
      <4>2. CASE ~BuscarSegmento(t)
        <5>1. PICK s : s = Append(segmentos, t)
          OBVIOUS
        <5>2. /\ Len(segmentos) \in Nat /\ DOMAIN segmentos = 1..Len(segmentos)
              /\ DOMAIN s = 1..Len(segmentos)+1 /\ s[Len(segmentos)+1] = t
              /\ \A i \in 1..Len(segmentos) : s[i] = segmentos[i]
          BY <1>1, <1>2, <5>1, AppendProperties, LenProperties
        <5>3. \A i \in 1..Len(segmentos) : s[i] # t
          BY <4>2, <5>2 DEF BuscarSegmento, ToSet
        <5>4. \A i \in 1..Len(segmentos)+1 : i \in 1..Len(segmentos) \/ i = Len(segmentos)+1
          BY <5>2
        <5>5. \A i, n \in 1..Len(segmentos) : s[i] = s[n] => i = n
          BY <1>4, <5>2 DEF SegmentosVivos
        <5>6. \A i, n \in DOMAIN s : s[i] = s[n] => i = n
          BY <5>2, <5>3, <5>4, <5>5, ZenonT(60)
        <5> QED BY <3>3, <4>2, <5>1, <5>6
      <4> QED BY <4>1, <4>2
    <3>8. SegmentosVivos'
      BY <1>4, <3>4, <3>5, <3>6, <3>7 DEF SegmentosVivos
    <3> QED BY <3>4, <3>8 DEF Lista
  <2>3. CASE Caer("lruColgante") \/ Caer("desbordeMarcos")
    BY <2>3, CaerLista
  <2> QED BY <1>6, <2>1, <2>2, <2>3 DEF InsertFuera
<1> QED BY <1>5, <1>6

\* dropSegmento: the frames of the pages that go are the ones it counts.
LEMMA DropLista ==
  ASSUME InvLista, NEW h \in Hilos, DropEnMemoria(h)
  PROVE  Lista'
<1> DEFINE t == pedido[h].t  Q == PaginasDe(t)
<1>1. CASE ~BuscarSegmento(t)
  BY <1>1, QuietosLista DEF DropEnMemoria
<1>2. CASE BuscarSegmento(t)
  <2>1. /\ segmentos' = RemoveFirst(segmentos, t)
        /\ paginas' = paginas \ Q /\ memoria' = Liberar(memoria, Q)
        /\ cantPaginasLibres' = cantPaginasLibres + Cardinality(Q)
        /\ lista_LRU' = LRUTrasDrop
    BY <1>2 DEF DropEnMemoria
  <2>2. Coherentes(ToSet(segmentos), paginas, memoria) /\ segmentos \in Seq(Tablas)
    BY DEF InvLista, InvBase, InvCache
  <2>3. LRUFloja(lista_LRU, paginas) /\ SegmentosVivos /\ ContadorExacto
    BY DEF InvLista, Lista
  <2>4. Q \in SUBSET paginas /\ \A p \in paginas : p \in Q <=> p.path = t
    BY DEF PaginasDe
  <2> HIDE DEF Q, t
  <2>5. LRUFloja(lista_LRU', paginas')
    <3>1. LRUFloja(lista_LRU, paginas')
      BY <2>1, <2>3 DEF LRUFloja
    <3> QED BY <2>1, <3>1, PurgaFloja
  <2>6. SegmentosVivos'
    <3>1. PICK s : s = RemoveFirst(segmentos, t)
      OBVIOUS
    <3>2. \A i, n \in DOMAIN segmentos : segmentos[i] = segmentos[n] => i = n
      BY <2>3 DEF SegmentosVivos
    <3>3. /\ s \in Seq(Tablas)
          /\ \A x : Contains(s, x) => Contains(segmentos, x)
          /\ ~Contains(s, t)
          /\ \A i, n \in DOMAIN s : s[i] = s[n] => i = n
      BY <2>2, <3>1, <3>2, RemoveFirstProps
    <3>4. \A x \in ToSet(s) : x \in ToSet(segmentos) /\ x # t
      <4>1. \A x : (x \in ToSet(s) <=> Contains(s, x)) /\ (x \in ToSet(segmentos) <=> Contains(segmentos, x))
        BY <2>2, <3>3, LenProperties DEF ToSet, Contains
      <4> QED BY <3>3, <4>1
    <3>5. \A u \in ToSet(segmentos) : u # t => \E p \in paginas' : p.path = u /\ p.modificado = 1
      BY <2>1, <2>3, <2>4 DEF SegmentosVivos
    <3> QED BY <2>1, <3>1, <3>3, <3>4, <3>5 DEF SegmentosVivos
  <2>7. ContadorExacto'
    <3> DEFINE D == {p.direccion : p \in Q}
               f == [p \in Q |-> p.direccion]
    <3>1. \A p, q \in Q : p # q => f[p] # f[q]
      BY <2>2, <2>4 DEF Coherentes
    <3>2. f \in Surjection(Q, D)
      BY DEF Surjection
    <3>3. IsFiniteSet(Q)
      BY <2>2, <2>4, PaginasFinitas, FS_Subset
    <3>4. f \in Injection(Q, D)
      BY <3>1, <3>2 DEF Injection, IsInjective, Surjection
    <3> HIDE DEF f
    <3>5. IsFiniteSet(D) /\ Cardinality(D) = Cardinality(Q)
      <4> HIDE DEF D
      <4> QED BY <3>2, <3>3, <3>4, FS_Surjection
    <3>6. D \cap MarcosVacios(memoria) = {}
      BY <2>2, <2>4 DEF Coherentes, MarcosVacios
    <3>7. \A m \in Marcos : memoria'[m] = IF m \in D THEN Vacio ELSE memoria[m]
      BY <2>1 DEF Liberar
    <3>8. D \subseteq Marcos
      BY <2>2, <2>4 DEF Coherentes, TPagina
    <3> HIDE DEF D
    <3>9. MarcosVacios(memoria') = MarcosVacios(memoria) \cup D
      BY <3>7, <3>8, VacioTipo DEF MarcosVacios
    <3>10. Cardinality(MarcosVacios(memoria'))
             = Cardinality(MarcosVacios(memoria)) + Cardinality(D) - Cardinality({})
      <4>1. MarcosVacios(memoria) \cap D = {}
        BY <3>6
      <4> QED BY <3>5, <3>9, <4>1, VaciosFinitos, FS_Union
    <3>11. Cardinality({}) = 0 /\ Cardinality(D) \in Nat /\ Cardinality(MarcosVacios(memoria)) \in Nat
      BY <3>5, VaciosFinitos, FS_EmptySet, FS_CardinalityType
    <3>12. cantPaginasLibres' = Cardinality(MarcosVacios(memoria'))
      BY <2>1, <2>3, <3>5, <3>10, <3>11 DEF ContadorExacto
    <3> QED BY <3>12 DEF ContadorExacto, MarcosVacios
  <2> QED BY <2>5, <2>6, <2>7 DEF Lista
<1> QED BY <1>1, <1>2

\* A journal changes the cache in its wipe only, if it does not kill the process.
MuertesDeJournal == {"journalSinSegmento", "journalSinPagina", "paginaLiberada",
                     "segmentoLiberado"}
LEMMA JournalQuieto ==
  ASSUME NEW h \in Hilos, Journal(h), ~Vaciar(h)
  PROVE  UNCHANGED cache \/ \E m \in MuertesDeJournal : Caer(m)
<1>1. CASE JournalIniciar(h) \/ JournalSegmento(h) \/ JournalPagina(h)
  BY <1>1 DEF JournalIniciar, JournalSegmento, JournalPagina
<1>2. CASE JournalTomar(h) \/ JournalObtener(h)
  BY <1>2 DEF JournalTomar, JournalObtener, MuertesDeJournal
<1>3. CASE JournalCopiar(h)
  BY <1>3 DEF JournalCopiar, Anotar
<1>4. CASE JournalCopiarLiberada(h) \/ JournalColgado(h)
  BY <1>4 DEF JournalCopiarLiberada, Anotar, JournalColgado, MuertesDeJournal
<1>5. CASE JournalEnviar(h) \/ JournalAvisar(h) \/ JournalBajar(h)
  BY <1>5 DEF JournalEnviar, JournalAvisar, JournalBajar
<1> QED BY <1>1, <1>2, <1>3, <1>4, <1>5 DEF Journal

LEMMA JournalLista ==
  ASSUME InvLista, NEW h \in Hilos, Journal(h)
  PROVE  Lista'
<1>1. CASE Vaciar(h)
  <2>1. Coherentes(ToSet(segmentos), paginas, memoria)
    BY DEF InvLista, InvBase, InvCache
  <2>2. \A m \in Marcos : memoria'[m].timestamp = 0
    BY <1>1, <2>1, VacioTipo DEF Vaciar, Liberar, Coherentes
  <2> QED BY <1>1, <2>2, CacheVacia DEF Vaciar
<1>2. CASE ~Vaciar(h)
  BY <1>2, JournalQuieto, QuietosLista, CaerLista
<1> QED BY <1>1, <1>2

LEMMA PasoLista ==
  ASSUME InvLista, [Next]_vars
  PROVE  InvLista'
<1>1. InvBase'
  BY PasoBase DEF InvLista
<1>2. CASE Tic \/ Reiniciar \/ UNCHANGED vars
  <2>1. UNCHANGED cache
    BY <1>2 DEF Tic, Reiniciar, vars
  <2> QED BY <1>1, <2>1, QuietosLista DEF InvLista
<1>3. ASSUME NEW h \in Hilos, Paso(h)
      PROVE  Lista'
  <2>1. CASE \/ Recibir(h) \/ RecibirOtro(h) \/ Cerrar(h) \/ Despertar(h)
             \/ Compuerta(h) \/ Entrar(h) \/ Llena(h)
    BY <2>1, QuietosLista DEF Recibir, RecibirOtro, Cerrar, Despertar,
       Compuerta, Entrar, Llena
  <2>2. CASE Create(h) \/ Describe(h) \/ DropEnFS(h)
    BY <2>2, QuietosLista DEF Create, Describe, DropEnFS
  <2> QED BY <1>3, <2>1, <2>2, SelectLista, InsertLista, DropLista, JournalLista
          DEF Paso, Atender
<1> QED BY <1>1, <1>2, <1>3 DEF Next, InvLista

LEMMA InitLista == Init => InvLista
<1> SUFFICES ASSUME Init PROVE InvLista
  OBVIOUS
<1>1. \A m \in Marcos : memoria[m].timestamp = 0
  BY VacioTipo DEF Init
<1>2. LRUFloja(<<>>, {})
  BY EmptySeq DEF LRUFloja
<1>3. MarcosVacios(memoria) = Marcos
  BY <1>1 DEF MarcosVacios
<1>4. SegmentosVivos
  BY DEF Init, SegmentosVivos, ToSet
<1> QED BY <1>2, <1>3, <1>4, MarcosFinitos, InitBase DEF Init, InvLista, Lista, ContadorExacto

\* Every variable, the LRU list included, keeps its type: whatever the clients
\* ask and however the journals overlap.
THEOREM Tipos == Spec => []TypeOK
<1>1. InvLista => TypeOK
  BY DEF InvLista, Lista, InvBase, InvCache, Coherentes, LRUFloja, TypeOK,
         TipoCache, TipoLRU, TPagina, TRegistro, TEntrada
<1> QED BY InitLista, PasoLista, <1>1, PTL DEF Spec

\* cantPaginasLibres counts the empty frames through every eviction, DROP and
\* journal, even when a DROP has left the LRU list with entries of pages that
\* are gone: guardarRegistro always finds a frame.
THEOREM CuentaLosLibres == Spec => []ContadorExacto
<1>1. InvLista => ContadorExacto
  BY DEF InvLista, Lista
<1> QED BY InitLista, PasoLista, <1>1, PTL DEF Spec

-----------------------------------------------------------------------------
(* What a step may do to a dirty page. *)

LEMMA PasoSucio ==
  ASSUME InvLista, [Next]_vars, NEW p \in paginas
  PROVE  SucioQueda(p)
<1>1. SUFFICES ASSUME p.modificado = 1, p \notin paginas'
               PROVE  SucioQueda(p)
  <2>1. p.modificado \in {0, 1}
    BY DEF InvLista, InvBase, InvCache, Coherentes, TPagina
  <2>2. QED
    BY <1>1, <2>1 DEF SucioQueda
<1>2. ~(UNCHANGED paginas)
  BY <1>1
<1>3. PICK h \in Hilos : Paso(h)
  BY <1>2 DEF Next, Tic, Reiniciar, vars, cache
<1>4. CASE \E m \in MuertesDeJournal \cup {"selectSinSegmento", "lruColgante",
                                         "desbordeMarcos"} : Caer(m)
  BY <1>4 DEF Caer, SucioQueda, MuertesDeJournal
<1>5. CASE ~MemoriaLlena /\ ~DesalojoColgante /\ PaginasTras \subseteq paginas'
  <2>1. p \notin Salen
    BY <1>1, <1>5, LugarLista
  <2>2. QED
    BY <1>1, <1>5, <2>1 DEF PaginasTras
<1>6. CASE SelectFuera(h) \/ InsertFuera(h)
  <2>1. ConFull(h) => UNCHANGED paginas
    BY DEF ConFull, cache
  <2>2. SelectFallido(h) => ~MemoriaLlena /\ ~DesalojoColgante /\ PaginasTras \subseteq paginas'
    BY DEF SelectFallido, HacerLugar
  <2>3. SelectDelFS(h) => \/ Caer("selectSinSegmento")
                          \/ ~MemoriaLlena /\ ~DesalojoColgante /\ PaginasTras \subseteq paginas'
    BY DEF SelectDelFS, AgregarPagina
  <2>4. InsertNuevo(h) => ~MemoriaLlena /\ ~DesalojoColgante /\ PaginasTras \subseteq paginas'
    BY DEF InsertNuevo, AgregarPagina
  <2>5. QED
    BY <1>2, <1>4, <1>5, <1>6, <2>1, <2>2, <2>3, <2>4 DEF SelectFuera, InsertFuera
<1>7. CASE InsertEnCache(h)
  <2>1. PICK q \in paginas : UNCHANGED paginas \/
          paginas' = (paginas \ {q}) \cup {MarcarModificada(q)}
    BY <1>7 DEF InsertEnCache, BuscarPagina, PaginasDe
  <2>2. p = q
    BY <1>1, <1>2, <2>1
  <2>3. MarcarModificada(p) = p
    BY <1>1 DEF MarcarModificada, InvLista, InvBase, InvCache, Coherentes, TPagina
  <2>4. QED
    BY <1>1, <1>2, <2>1, <2>2, <2>3
<1>8. CASE Vaciar(h)
  <2>1. pc[h] = "jvaciar" /\ pc'[h] = "javisar"
    BY <1>8 DEF Vaciar, Ir, InvLista, InvBase, TipoHilos
  <2>2. QED
    BY <2>1 DEF SucioQueda
<1>9. CASE DropEnMemoria(h)
  <2>1. pc'[h] = "dropFS"
    BY <1>9 DEF DropEnMemoria, Ir, InvLista, InvBase, TipoHilos
  <2>2. paginas' = paginas \ PaginasDe(pedido[h].t)
    BY <1>2, <1>9 DEF DropEnMemoria, cache
  <2>3. p.path = pedido[h].t
    BY <1>1, <2>2 DEF PaginasDe
  <2>4. QED
    BY <2>1, <2>3 DEF SucioQueda
<1>10. CASE \/ Recibir(h) \/ RecibirOtro(h) \/ Cerrar(h) \/ Despertar(h)
            \/ Compuerta(h) \/ Entrar(h) \/ Llena(h) \/ SelectEnCache(h)
            \/ Create(h) \/ Describe(h) \/ DropEnFS(h)
  BY <1>2, <1>10 DEF Recibir, RecibirOtro, Cerrar, Despertar, Compuerta, Entrar,
     Llena, SelectEnCache, Create, Describe, DropEnFS, cache
<1>11. CASE Journal(h) /\ ~Vaciar(h)
  BY <1>2, <1>4, <1>11, JournalQuieto DEF MuertesDeJournal, cache
<1>12. QED
  BY <1>3, <1>6, <1>7, <1>8, <1>9, <1>10, <1>11 DEF Paso, Atender

\* liberarMemoriaLRU never throws away a record the file system has not been
\* sent, not even with the list a DROP leaves.
THEOREM NoSePierdeAlDesalojar == Spec => DesalojoSoloLimpias
<1>1. InvLista /\ [Next]_vars => InvLista'
  BY PasoLista
<1>2. InvLista /\ [Next]_vars => [\A p \in paginas : SucioQueda(p)]_vars
  BY PasoSucio
<1> QED BY InitLista, <1>1, <1>2, PTL DEF Spec, DesalojoSoloLimpias

-----------------------------------------------------------------------------
(* While no table is dropped, the list and the pages correspond. *)

SinDrop == "DROP" \notin Operaciones

\* The list and a set of pages correspond one to one.
LRUBien(lru, pags) ==
  /\ lru \in Seq(TEntrada)
  /\ \A i \in 1..Len(lru) : \E p \in pags : lru[i] = EntradaLRU(p)
  /\ \A p \in pags : \E i \in 1..Len(lru) : lru[i] = EntradaLRU(p)
  /\ \A i, n \in 1..Len(lru) : i # n => ~MismaClave(lru[i], lru[n])

\* Taking out an entry together with its page.
LEMMA QuitarDeLRU ==
  ASSUME NEW pags, Distinguibles(pags), NEW lru, LRUBien(lru, pags),
         NEW i \in 1..Len(lru), NEW p \in pags, MismaClave(lru[i], p)
  PROVE  LRUBien(RemoveAt(lru, i), pags \ {p})
<1> DEFINE r == RemoveAt(lru, i)
<1>1. lru \in Seq(TEntrada) /\ Len(lru) \in Nat
  BY LenProperties DEF LRUBien
<1>2. /\ r \in Seq(TEntrada) /\ Len(r) = Len(lru) - 1
      /\ \A n \in 1..Len(lru)-1 : r[n] = IF n < i THEN lru[n] ELSE lru[n+1]
  BY <1>1, RemoveAtProps
<1> HIDE DEF r
<1>3. \A n \in 1..Len(r) : \E m \in 1..Len(lru) : m # i /\ r[n] = lru[m]
  <2>1. TAKE n \in 1..Len(r)
  <2>2. CASE n < i
    BY <1>1, <1>2, <2>2
  <2>3. CASE ~(n < i)
    <3>1. n+1 \in 1..Len(lru) /\ n+1 # i /\ r[n] = lru[n+1]
      BY <1>1, <1>2, <2>3
    <3>2. QED
      BY <3>1
  <2>4. QED
    BY <2>2, <2>3
<1>4. \A m \in 1..Len(lru) : m # i => \E n \in 1..Len(r) : r[n] = lru[m]
  <2>1. SUFFICES ASSUME NEW m \in 1..Len(lru), m # i
                 PROVE  \E n \in 1..Len(r) : r[n] = lru[m]
    OBVIOUS
  <2>2. CASE m < i
    BY <1>1, <1>2, <2>2
  <2>3. CASE m > i
    <3>1. m-1 \in 1..Len(r) /\ ~(m-1 < i) /\ (m-1)+1 = m /\ m-1 \in 1..Len(lru)-1
      BY <1>1, <1>2, <2>3
    <3>2. r[m-1] = lru[m]
      BY <1>2, <3>1
    <3>3. QED
      BY <3>1, <3>2
  <2>4. QED
    BY <2>1, <2>2, <2>3
<1>5. lru[i] = EntradaLRU(p)
  <2>1. PICK q \in pags : lru[i] = EntradaLRU(q)
    BY DEF LRUBien
  <2>2. MismaClave(q, p)
    BY <2>1, EntradaTipo DEF MismaClave, Distinguibles
  <2>3. QED
    BY <2>1, <2>2 DEF Distinguibles
<1>6. \A n \in 1..Len(r) : \E q \in pags \ {p} : r[n] = EntradaLRU(q)
  <2>1. TAKE n \in 1..Len(r)
  <2>2. PICK m \in 1..Len(lru) : m # i /\ r[n] = lru[m]
    BY <1>3
  <2>3. PICK q \in pags : lru[m] = EntradaLRU(q)
    BY DEF LRUBien
  <2>4. q # p
    BY <1>5, <2>2, <2>3 DEF LRUBien, MismaClave
  <2>5. QED
    BY <2>2, <2>3, <2>4
<1>7. \A q \in pags \ {p} : \E n \in 1..Len(r) : r[n] = EntradaLRU(q)
  <2>1. TAKE q \in pags \ {p}
  <2>2. PICK m \in 1..Len(lru) : lru[m] = EntradaLRU(q)
    BY DEF LRUBien
  <2>3. m # i
    <3>1. ~MismaClave(q, p)
      BY DEF Distinguibles
    <3>2. QED
      BY <1>5, <2>2, <3>1, EntradaTipo DEF MismaClave, Distinguibles
  <2>4. QED
    BY <1>4, <2>2, <2>3
<1>8. \A n, m \in 1..Len(r) : n # m => ~MismaClave(r[n], r[m])
  <2>1. SUFFICES ASSUME NEW n \in 1..Len(r), NEW m \in 1..Len(r), n # m
                 PROVE  ~MismaClave(r[n], r[m])
    OBVIOUS
  <2>2. \A x \in 1..Len(r) :
          /\ (IF x < i THEN x ELSE x+1) \in 1..Len(lru)
          /\ r[x] = lru[IF x < i THEN x ELSE x+1]
    BY <1>1, <1>2
  <2>3. (IF n < i THEN n ELSE n+1) # (IF m < i THEN m ELSE m+1)
    BY <1>1, <1>2, <2>1
  <2>4. QED
    BY <2>2, <2>3 DEF LRUBien
<1>9. QED
  BY <1>2, <1>6, <1>7, <1>8 DEF LRUBien, r

\* Appending the entry of a page the list does not have.
LEMMA AlFinalDeLRU ==
  ASSUME NEW pags, Distinguibles(pags), NEW lru, LRUBien(lru, pags),
         NEW q \in TPagina, \A p \in pags : ~MismaClave(p, q)
  PROVE  LRUBien(Append(lru, EntradaLRU(q)), pags \cup {q})
<1> DEFINE e == EntradaLRU(q)  r == Append(lru, e)
<1>1. lru \in Seq(TEntrada) /\ Len(lru) \in Nat /\ e \in TEntrada
  BY LenProperties, EntradaTipo DEF LRUBien
<1>2. /\ r \in Seq(TEntrada) /\ Len(r) = Len(lru) + 1
      /\ \A i \in 1..Len(lru) : r[i] = lru[i]
      /\ r[Len(lru)+1] = e
  <2> HIDE DEF e
  <2> QED BY <1>1, AppendProperties
<1>3. \A i \in 1..Len(lru) : ~MismaClave(lru[i], e)
  <2>1. TAKE i \in 1..Len(lru)
  <2>2. PICK p \in pags : lru[i] = EntradaLRU(p)
    BY DEF LRUBien
  <2>3. p \in TPagina /\ ~MismaClave(p, q)
    BY DEF Distinguibles
  <2>4. QED
    BY <2>2, <2>3, EntradaTipo DEF MismaClave
<1> HIDE DEF r, e
<1>4. \A i \in 1..Len(r) : i \in 1..Len(lru) \/ i = Len(lru)+1
  BY <1>1, <1>2
<1>5. \A i \in 1..Len(r) : \E p \in pags \cup {q} : r[i] = EntradaLRU(p)
  BY <1>2, <1>4 DEF LRUBien, e
<1>6. \A p \in pags \cup {q} : \E i \in 1..Len(r) : r[i] = EntradaLRU(p)
  <2>1. Len(lru)+1 \in 1..Len(r) /\ \A i \in 1..Len(lru) : i \in 1..Len(r)
    BY <1>1, <1>2
  <2>2. QED
    BY <1>2, <2>1 DEF LRUBien, e
<1>7. \A i, n \in 1..Len(r) : i # n => ~MismaClave(r[i], r[n])
  <2>1. SUFFICES ASSUME NEW i \in 1..Len(r), NEW n \in 1..Len(r), i # n
                 PROVE  ~MismaClave(r[i], r[n])
    OBVIOUS
  <2>2. CASE i \in 1..Len(lru) /\ n \in 1..Len(lru)
    BY <1>2, <2>1, <2>2 DEF LRUBien
  <2>3. CASE i = Len(lru)+1 \/ n = Len(lru)+1
    BY <1>2, <1>3, <1>4, <2>1, <2>3 DEF MismaClave
  <2>4. QED
    BY <1>4, <2>2, <2>3
<1>8. QED
  BY <1>2, <1>5, <1>6, <1>7 DEF LRUBien, r, e

\* agregarEnListaLRU for a new page.
LEMMA AgregarNueva ==
  ASSUME NEW pags, Distinguibles(pags), NEW lru, LRUBien(lru, pags),
         NEW q \in TPagina, \A p \in pags : ~MismaClave(p, q)
  PROVE  LRUBien(AgregarEnListaLRU(lru, q), pags \cup {q})
<1>1. \A i \in 1..Len(lru) : ~MismaPagina(lru[i], q)
  <2>1. TAKE i \in 1..Len(lru)
  <2>2. PICK p \in pags : lru[i] = EntradaLRU(p)
    BY DEF LRUBien
  <2>3. p \in TPagina /\ ~MismaClave(p, q)
    BY DEF Distinguibles
  <2>4. QED
    BY <2>2, <2>3, EntradaTipo DEF MismaClave, MismaPagina
<1>2. AgregarEnListaLRU(lru, q) = Append(lru, EntradaLRU(q))
  BY <1>1 DEF AgregarEnListaLRU, RemoveFirstMatch
<1>3. QED
  BY <1>2, AlFinalDeLRU

\* agregarEnListaLRU for a page the list has, whose modificado may have
\* changed: its entry moves to the end.
LEMMA AgregarConocida ==
  ASSUME NEW pags, Distinguibles(pags), NEW lru, LRUBien(lru, pags),
         NEW p \in pags, NEW q \in TPagina, MismaClave(p, q)
  PROVE  LRUBien(AgregarEnListaLRU(lru, q), (pags \ {p}) \cup {q})
<1> DEFINE I == {i \in 1..Len(lru) : MismaPagina(lru[i], q)}
           i == Min(I)
           r == RemoveAt(lru, i)
<1>1. I \in SUBSET Int /\ IsFiniteSet(I) /\ I # {}
  <2>1. Len(lru) \in Nat /\ IsFiniteSet(1..Len(lru))
    BY LenProperties, FS_Interval DEF LRUBien
  <2>2. PICK n \in 1..Len(lru) : lru[n] = EntradaLRU(p)
    BY DEF LRUBien
  <2>3. MismaPagina(lru[n], q)
    BY <2>2, EntradaTipo DEF MismaPagina, MismaClave, Distinguibles
  <2>4. I \in SUBSET (1..Len(lru)) /\ I # {}
    BY <2>3
  <2> HIDE DEF I
  <2>5. IsFiniteSet(I)
    BY <2>1, <2>4, FS_Subset
  <2>6. QED
    BY <2>1, <2>4, <2>5
<1>2. i \in I
  <2> HIDE DEF I
  <2> QED BY <1>1, MinimoExiste
<1>3. i \in 1..Len(lru) /\ MismaClave(lru[i], p)
  BY <1>2 DEF MismaPagina, MismaClave
<1>4. AgregarEnListaLRU(lru, q) = Append(r, EntradaLRU(q))
  BY <1>2 DEF AgregarEnListaLRU, RemoveFirstMatch, SelectInSeq
<1> HIDE DEF i, I
<1>5. LRUBien(r, pags \ {p})
  BY <1>3, QuitarDeLRU
<1>6. Distinguibles(pags \ {p}) /\ \A x \in pags \ {p} : ~MismaClave(x, q)
  BY DEF Distinguibles, MismaClave
<1> HIDE DEF r
<1>7. QED
  BY <1>4, <1>5, <1>6, AlFinalDeLRU

InvLRU == InvLista /\ LRUBien(lista_LRU, paginas)

\* liberarMemoriaLRU with an exact list: the entry it takes is a clean page's,
\* and that page goes.
LEMMA LugarLRU ==
  ASSUME InvLRU, ~MemoriaLlena
  PROVE  ~DesalojoColgante /\ LRUBien(LRUTras, PaginasTras)
<1>1. Coherentes(ToSet(segmentos), paginas, memoria)
  BY DEF InvLRU, InvLista, InvBase, InvCache
<1>2. Distinguibles(paginas)
  BY <1>1, CoherentesDistinguibles
<1>3. CASE ~Desaloja
  BY <1>3 DEF DesalojoColgante, PaginasTras, Salen, LRUTras, InvLRU
<1>4. CASE Desaloja
  <2> DEFINE I == {n \in 1..Len(lista_LRU) : lista_LRU[n].modificado = 0}
             i == SinModificar
  <2>1. i \in 1..Len(lista_LRU)
    <3>1. I # {} /\ i = Min(I)
      BY <1>4 DEF MemoriaLlena, SinModificar, SelectInSeq
    <3>2. I \in SUBSET (1..Len(lista_LRU)) /\ Len(lista_LRU) \in Nat
      BY LenProperties DEF InvLRU, LRUBien
    <3> HIDE DEF I, i
    <3>3. i \in I
      BY <3>1, <3>2, PrimeraPosicion
    <3> QED BY <3>2, <3>3
  <2>2. PICK p \in paginas : lista_LRU[i] = EntradaLRU(p)
    BY <2>1 DEF InvLRU, LRUBien
  <2>3. p \in TPagina /\ MismaClave(lista_LRU[i], p)
    BY <1>2, <2>2, EntradaTipo DEF MismaClave, Distinguibles
  <2>4. PaginaVictima = {p}
    BY <1>2, <2>2, <2>3 DEF PaginaVictima, Victima, MismaPagina, MismaClave, Distinguibles
  <2>5. PaginasTras = paginas \ {p} /\ LRUTras = RemoveAt(lista_LRU, i)
    BY <1>4, <2>4 DEF Salen, PaginasTras, LRUTras
  <2>6. ~DesalojoColgante
    <3>1. BuscarSegmento(p.path)
      BY <1>1 DEF Coherentes, BuscarSegmento
    <3>2. Victima.path = p.path
      BY <2>3 DEF Victima, MismaClave
    <3> QED BY <2>4, <3>1, <3>2 DEF DesalojoColgante
  <2> HIDE DEF i
  <2> QED BY <1>2, <2>1, <2>3, <2>5, <2>6, QuitarDeLRU DEF InvLRU
<1> QED BY <1>3, <1>4

LEMMA PaginaAgregadaLRU ==
  ASSUME InvLRU, ~MemoriaLlena,
         NEW t \in Tablas, NEW k \in Claves, NEW ts \in Nat \ {0},
         NEW v \in Valores, NEW bit \in {0, 1}, AgregarPagina(t, k, ts, v, bit)
  PROVE  LRUBien(lista_LRU', paginas')
<1> DEFINE marco == Min(MarcosVacios(MemoriaTras))
           pag == [path |-> t, numeroPagina |-> ObtenerIndicePagina(t),
                   direccion |-> marco, modificado |-> bit]
<1>1. InvCache /\ Coherentes(ToSet(segmentos), PaginasTras, MemoriaTras)
  BY LugarCoherente DEF InvLRU, InvLista, InvBase
<1>2. marco \in Marcos
  BY LugarLRU, HayMarco, MarcoVacio DEF DesbordeMarcos, InvLRU
<1>3. pag \in TPagina
  BY <1>1, <1>2, IndiceNuevo DEF TPagina
<1>4. /\ paginas' = PaginasTras \cup {pag}
      /\ lista_LRU' = AgregarEnListaLRU(LRUTras, pag)
  BY DEF AgregarPagina
<1>5. \A p \in PaginasTras : ~MismaClave(p, pag)
  BY <1>1, IndiceNuevo DEF MismaClave, Coherentes, TPagina
<1> HIDE DEF pag, marco
<1> QED BY <1>1, <1>3, <1>4, <1>5, LugarLRU, CoherentesDistinguibles, AgregarNueva

LEMMA CaerLRU == ASSUME NEW m, Caer(m) PROVE LRUBien(lista_LRU', paginas')
BY EmptySeq DEF Caer, LRUBien

LEMMA SelectLRU ==
  ASSUME InvLRU, NEW h \in Hilos, SelectEnCache(h) \/ SelectFuera(h)
  PROVE  LRUBien(lista_LRU', paginas')
<1> DEFINE t == pedido[h].t  k == pedido[h].k  r == fs[t][k]
<1>1. Coherentes(ToSet(segmentos), paginas, memoria)
  BY DEF InvLRU, InvLista, InvBase, InvCache
<1>2. CASE SelectEnCache(h)
  <2>1. PICK p \in paginas : lista_LRU' = AgregarEnListaLRU(lista_LRU, p)
    BY <1>2 DEF SelectEnCache, BuscarPagina, PaginasDe
  <2>2. p \in TPagina /\ MismaClave(p, p)
    BY <1>1 DEF Coherentes, MismaClave
  <2>3. LRUBien(AgregarEnListaLRU(lista_LRU, p), (paginas \ {p}) \cup {p})
    BY <1>1, <2>2, CoherentesDistinguibles, AgregarConocida DEF InvLRU
  <2>4. (paginas \ {p}) \cup {p} = paginas
    OBVIOUS
  <2> QED BY <1>2, <2>1, <2>3, <2>4 DEF SelectEnCache
<1>3. CASE SelectFuera(h)
  <2>1. t \in Tablas /\ k \in Claves
    BY <1>3, PedidoTipo DEF SelectFuera, InvLRU, InvLista, InvBase
  <2>2. CASE ConFull(h)
    BY <2>2 DEF ConFull, cache, InvLRU
  <2>3. CASE SelectFallido(h)
    BY <2>3, LugarLRU DEF SelectFallido, HacerLugar
  <2>4. CASE SelectDelFS(h)
    <3>1. r.timestamp \in Nat \ {0} /\ r.value \in Valores
      <4>1. r \in {Nulo} \cup [timestamp : Nat \ {0}, value : Valores] /\ r # Nulo
        BY <2>1, <2>4 DEF SelectDelFS, TieneRegistro, InvLRU, InvLista, InvBase, TipoSistema
      <4> QED BY <4>1
    <3>2. CASE AgregarPagina(t, k, r.timestamp, r.value, 0)
      <4>1. ~MemoriaLlena
        BY <2>4 DEF SelectDelFS
      <4> HIDE DEF t, k, r
      <4> QED BY <2>1, <3>1, <3>2, <4>1, PaginaAgregadaLRU
    <3>3. CASE Caer("selectSinSegmento")
      BY <3>3, CaerLRU
    <3> QED BY <2>4, <3>2, <3>3 DEF SelectDelFS
  <2>5. CASE Caer("lruColgante") \/ Caer("desbordeMarcos")
    BY <2>5, CaerLRU
  <2> QED BY <1>3, <2>2, <2>3, <2>4, <2>5 DEF SelectFuera
<1> QED BY <1>2, <1>3

LEMMA InsertLRU ==
  ASSUME InvLRU, NEW h \in Hilos, InsertEnCache(h) \/ InsertFuera(h)
  PROVE  LRUBien(lista_LRU', paginas')
<1> DEFINE t == pedido[h].t  k == pedido[h].k  v == pedido[h].v
<1>1. t \in Tablas /\ k \in Claves /\ v \in Valores
  BY PedidoTipo DEF InsertEnCache, InsertFuera, InvLRU, InvLista, InvBase
<1>2. reloj \in Nat \ {0}
  BY DEF InvLRU, InvLista, InvBase, TipoSistema
<1>3. Coherentes(ToSet(segmentos), paginas, memoria)
  BY DEF InvLRU, InvLista, InvBase, InvCache
<1>4. CASE InsertEnCache(h)
  <2>1. PICK p \in BuscarPagina(t, k) :
          \/ /\ paginas' = (paginas \ {p}) \cup {MarcarModificada(p)}
             /\ lista_LRU' = AgregarEnListaLRU(lista_LRU, MarcarModificada(p))
          \/ UNCHANGED <<paginas, lista_LRU>>
    BY <1>4 DEF InsertEnCache
  <2>2. p \in paginas /\ p \in TPagina
    BY <1>3 DEF BuscarPagina, PaginasDe, Coherentes
  <2>3. PICK q : q = MarcarModificada(p)
    OBVIOUS
  <2>4. q \in TPagina /\ MismaClave(p, q)
    BY <2>2, <2>3 DEF MarcarModificada, TPagina, MismaClave
  <2>5. LRUBien(AgregarEnListaLRU(lista_LRU, q), (paginas \ {p}) \cup {q})
    BY <1>3, <2>2, <2>4, CoherentesDistinguibles, AgregarConocida DEF InvLRU
  <2> QED BY <2>1, <2>3, <2>5 DEF InvLRU
<1>5. CASE InsertFuera(h)
  <2>1. CASE ConFull(h)
    BY <2>1 DEF ConFull, cache, InvLRU
  <2>2. CASE InsertNuevo(h)
    <3>1. AgregarPagina(t, k, reloj, v, 1) /\ ~MemoriaLlena
      BY <2>2 DEF InsertNuevo
    <3> HIDE DEF t, k, v
    <3> QED BY <1>1, <1>2, <3>1, PaginaAgregadaLRU
  <2>3. CASE Caer("lruColgante") \/ Caer("desbordeMarcos")
    BY <2>3, CaerLRU
  <2> QED BY <1>5, <2>1, <2>2, <2>3 DEF InsertFuera
<1> QED BY <1>4, <1>5

LEMMA JournalLRU ==
  ASSUME InvLRU, NEW h \in Hilos, Journal(h)
  PROVE  LRUBien(lista_LRU', paginas')
<1>1. CASE Vaciar(h)
  BY <1>1, EmptySeq DEF Vaciar, LRUBien
<1>2. CASE ~Vaciar(h)
  BY <1>2, JournalQuieto, CaerLRU DEF cache, InvLRU
<1> QED BY <1>1, <1>2

LEMMA PasoLRU ==
  ASSUME SinDrop, InvLRU, [Next]_vars
  PROVE  InvLRU'
<1>1. InvLista'
  BY PasoLista DEF InvLRU
<1>2. CASE Tic \/ Reiniciar \/ UNCHANGED vars
  BY <1>1, <1>2 DEF Tic, Reiniciar, vars, cache, InvLRU
<1>3. ASSUME NEW h \in Hilos, Paso(h)
      PROVE  LRUBien(lista_LRU', paginas')
  <2>1. CASE \/ Recibir(h) \/ RecibirOtro(h) \/ Cerrar(h) \/ Despertar(h)
             \/ Compuerta(h) \/ Entrar(h) \/ Llena(h)
    BY <2>1 DEF Recibir, RecibirOtro, Cerrar, Despertar,
       Compuerta, Entrar, Llena, cache, InvLRU
  <2>2. CASE Create(h) \/ Describe(h) \/ DropEnFS(h)
    BY <2>2 DEF Create, Describe, DropEnFS, cache, InvLRU
  <2>3. ~DropEnMemoria(h)
    <3>1. pedido[h].op \in Operaciones \cup {"JOURNAL"}
      BY DEF InvLRU, InvLista, InvBase, TipoHilos, Pedidos, PedidoJournal
    <3> QED BY <3>1 DEF SinDrop, DropEnMemoria, Atiende
  <2> QED BY <1>3, <2>1, <2>2, <2>3, SelectLRU, InsertLRU, JournalLRU DEF Paso, Atender
<1> QED BY <1>1, <1>2, <1>3 DEF Next, InvLRU

LEMMA InitLRU == Init => InvLRU
BY InitLista, EmptySeq DEF Init, InvLRU, LRUBien

\* A one-to-one list is as long as the set of its pages.
LEMMA LargoLRU ==
  ASSUME InvLRU
  PROVE  LRUExacta
<1> DEFINE pagina(i) == CHOOSE p \in paginas : lista_LRU[i] = EntradaLRU(p)
           D == 1..Len(lista_LRU)
           f == [i \in D |-> pagina(i)]
<1>1. Distinguibles(paginas)
  BY CoherentesDistinguibles DEF InvLRU, InvLista, InvBase, InvCache
<1>2. \A i \in D : pagina(i) \in paginas /\ lista_LRU[i] = EntradaLRU(pagina(i))
  BY DEF InvLRU, LRUBien
<1>3. Len(lista_LRU) \in Nat /\ DOMAIN lista_LRU = D
  BY LenProperties DEF InvLRU, LRUBien
<1> HIDE DEF pagina
<1>4. f \in Injection(D, paginas)
  <2>1. f \in [D -> paginas]
    BY <1>2
  <2>2. \A i, n \in D : i # n => f[i] # f[n]
    <3>1. SUFFICES ASSUME NEW i \in D, NEW n \in D, i # n, pagina(i) = pagina(n)
                   PROVE  FALSE
      OBVIOUS
    <3>2. lista_LRU[i] = lista_LRU[n]
      BY <1>2, <3>1
    <3>3. QED
      BY <3>1, <3>2 DEF InvLRU, LRUBien, MismaClave
  <2>3. QED
    BY <2>1, <2>2 DEF Injection, IsInjective
<1>5. \A p \in paginas : \E i \in D : lista_LRU[i] = EntradaLRU(p) /\ f[i] = p
  <2>1. TAKE p \in paginas
  <2>2. PICK i \in D : lista_LRU[i] = EntradaLRU(p)
    BY DEF InvLRU, LRUBien
  <2>3. pagina(i) \in TPagina /\ p \in TPagina /\ MismaClave(pagina(i), p)
    BY <1>1, <1>2, <2>2, EntradaTipo DEF Distinguibles, MismaClave
  <2>4. QED
    BY <1>1, <1>2, <2>2, <2>3 DEF Distinguibles
<1>6. f \in Surjection(D, paginas)
  BY <1>4, <1>5 DEF Injection, Surjection
<1> HIDE DEF f
<1>7. IsFiniteSet(D) /\ Cardinality(D) = Len(lista_LRU)
  <2>1. PICK n \in Nat : n = Len(lista_LRU)
    BY <1>3
  <2>2. IsFiniteSet(1..n) /\ Cardinality(1..n) = n
    BY FS_Interval
  <2>3. QED
    BY <2>1, <2>2
<1>8. IsFiniteSet(paginas) /\ Cardinality(paginas) <= Cardinality(D)
  BY <1>6, <1>7, FS_Surjection
<1>9. Cardinality(D) <= Cardinality(paginas)
  BY <1>4, <1>8, FS_Injection
<1>10. Len(lista_LRU) = Cardinality(paginas)
  BY <1>3, <1>7, <1>8, <1>9, FS_CardinalityType
<1>11. \A p \in paginas : Contains(lista_LRU, EntradaLRU(p))
  BY <1>3, <1>5 DEF Contains
<1>12. QED
  BY <1>10, <1>11 DEF LRUExacta

\* While no table is dropped the LRU list has one entry for each page, with
\* its modificado, and no other: an eviction never follows a stale entry.
THEOREM ListaExacta == SinDrop => (Spec => []LRUExacta)
<1>1. InvLRU => LRUExacta
  BY LargoLRU
<1>2. SinDrop /\ InvLRU /\ [Next]_vars => InvLRU'
  BY PasoLRU
<1>3. CASE SinDrop
  <2>1. InvLRU /\ [Next]_vars => InvLRU'
    BY <1>2, <1>3
  <2> QED BY InitLRU, <1>1, <2>1, PTL DEF Spec
<1> QED BY <1>3

-----------------------------------------------------------------------------
(* FULL_R. *)

\* liberarMemoriaLRU gives up only on a memory full of dirty pages.
LEMMA LlenaDeSucias ==
  ASSUME InvLRU, MemoriaLlena
  PROVE  Marcos = {p.direccion : p \in {q \in paginas : q.modificado = 1}}
<1>1. Coherentes(ToSet(segmentos), paginas, memoria)
  BY DEF InvLRU, InvLista, InvBase, InvCache
<1>2. MarcosVacios(memoria) = {}
  BY VaciosFinitos, FS_EmptySet DEF InvLRU, InvLista, Lista, ContadorExacto, MemoriaLlena, Desaloja
<1>3. \A i \in 1..Len(lista_LRU) : lista_LRU[i].modificado # 0
  <2> DEFINE I == {n \in 1..Len(lista_LRU) : lista_LRU[n].modificado = 0}
  <2>1. SUFFICES ASSUME I # {} PROVE FALSE
    OBVIOUS
  <2>2. SinModificar = Min(I)
    BY <2>1 DEF SinModificar, SelectInSeq
  <2>3. I \in SUBSET (1..Len(lista_LRU)) /\ Len(lista_LRU) \in Nat
    BY LenProperties DEF InvLRU, LRUBien
  <2> HIDE DEF I
  <2>4. SinModificar \in 1..Len(lista_LRU)
    BY <2>1, <2>2, <2>3, PrimeraPosicion
  <2> QED BY <2>3, <2>4 DEF MemoriaLlena
<1>4. \A p \in paginas : p.modificado = 1
  <2> TAKE p \in paginas
  <2>1. PICK i \in 1..Len(lista_LRU) : lista_LRU[i] = EntradaLRU(p)
    BY DEF InvLRU, LRUBien
  <2>2. p \in TPagina
    BY <1>1 DEF Coherentes
  <2>3. p.modificado # 0 /\ p.modificado \in {0, 1}
    BY <1>3, <2>1, <2>2, EntradaTipo DEF TPagina
  <2> QED BY <2>3
<1>5. \A m \in Marcos : \E p \in paginas : p.direccion = m
  BY <1>1, <1>2 DEF Coherentes, MarcosVacios
<1>6. \A p \in paginas : p.direccion \in Marcos
  BY <1>1 DEF Coherentes, TPagina
<1> QED BY <1>4, <1>5, <1>6

\* Only what a full memory answers goes from procesarRequest to FULL_R.
LEMMA SoloFullLlena ==
  ASSUME InvBase, [Next]_vars, NEW g \in Hilos, pc[g] = "procesar", pc'[g] = "llena"
  PROVE  MemoriaLlena
<1>0. pc = [x \in Hilos |-> pc[x]]
  BY DEF InvBase, TipoHilos
<1>1. PICK h \in Hilos : Paso(h)
  BY DEF Next, Tic, Reiniciar, vars
<1>2. ASSUME NEW m, Caer(m) PROVE FALSE
  BY <1>2 DEF Caer
<1>3. ASSUME NEW lugar, Ir(h, lugar), lugar # "llena" PROVE FALSE
  BY <1>0, <1>3 DEF Ir
<1>4. ASSUME Contestar(h) PROVE FALSE
  BY <1>3, <1>4 DEF Contestar
<1>5. ASSUME UNCHANGED pc PROVE FALSE
  BY <1>5
<1>6. CASE ConFull(h)
  BY <1>6 DEF ConFull
<1>7. ~(Recibir(h) \/ RecibirOtro(h) \/ Cerrar(h) \/ Despertar(h))
  <2>1. Recibir(h) => Ir(h, "procesar") \/ Ir(h, "compuerta")
    BY DEF Recibir
  <2>2. RecibirOtro(h) => Ir(h, "procesar") \/ Ir(h, "compuerta")
    BY DEF RecibirOtro
  <2> QED BY <1>3, <2>1, <2>2 DEF Cerrar, Despertar
<1>8. ~(Compuerta(h) \/ Entrar(h) \/ Llena(h))
  <2>1. Compuerta(h) => Ir(h, "procesar") \/ Ir(h, "espera")
    BY DEF Compuerta
  <2> QED BY <1>3, <1>4, <2>1 DEF Entrar, Llena
<1>9. CASE SelectEnCache(h) \/ SelectFuera(h) \/ InsertEnCache(h) \/ InsertFuera(h)
  BY <1>2, <1>4, <1>6, <1>9 DEF SelectEnCache, SelectFuera, SelectFallido, SelectDelFS,
     InsertEnCache, InsertFuera, InsertNuevo
<1>10. ~(Create(h) \/ Describe(h) \/ DropEnMemoria(h) \/ DropEnFS(h))
  BY <1>3, <1>4 DEF Create, Describe, DropEnMemoria, DropEnFS
<1>11. ~Journal(h)
  <2>1. JournalIniciar(h) => Ir(h, "jsegmento")
    BY DEF JournalIniciar
  <2>2. JournalSegmento(h) => Ir(h, "jtomar") \/ Ir(h, "jenviar")
    BY DEF JournalSegmento
  <2>3. JournalTomar(h) \/ JournalPagina(h) =>
          \/ Ir(h, "jpagina") \/ Ir(h, "jobtener") \/ Ir(h, "jsegmento")
          \/ Caer("journalSinSegmento")
    BY DEF JournalTomar, JournalPagina
  <2>4. JournalObtener(h) \/ JournalCopiar(h) =>
          Ir(h, "jcopiar") \/ Ir(h, "jpagina") \/ Caer("journalSinPagina")
    BY DEF JournalObtener, JournalCopiar, Anotar
  <2>8. JournalCopiarLiberada(h) \/ JournalColgado(h) =>
          \/ Ir(h, "jcopiar") \/ Ir(h, "jpagina") \/ Ir(h, "jsegmento")
          \/ Caer("paginaLiberada") \/ Caer("segmentoLiberado")
    BY DEF JournalCopiarLiberada, JournalColgado, Anotar
  <2>5. JournalEnviar(h) => UNCHANGED pc \/ Ir(h, "jvaciar")
    BY DEF JournalEnviar
  <2>6. Vaciar(h) \/ JournalAvisar(h) => Ir(h, "javisar") \/ Ir(h, "jbajar")
    BY DEF Vaciar, JournalAvisar
  <2>7. JournalBajar(h) => Ir(h, "compuerta") \/ Contestar(h)
    BY DEF JournalBajar, TerminarJournal
  <2> QED BY <1>2, <1>3, <1>4, <1>5, <2>1, <2>2, <2>3, <2>4, <2>5, <2>6, <2>7, <2>8 DEF Journal
<1> QED BY <1>1, <1>7, <1>8, <1>9, <1>10, <1>11 DEF Paso, Atender

\* While no table is dropped, a client is told FULL_R only when every frame
\* holds a record that just a journal can write back.
THEOREM FullConMotivo == SinDrop => (Spec => FullSoloSiTodoModificado)
<1> DEFINE Motivo ==
      \A h \in Conexiones :
        pc[h] = "procesar" /\ pc'[h] = "llena" =>
          Marcos = {p.direccion : p \in {q \in paginas : q.modificado = 1}}
<1>1. SinDrop /\ InvLRU /\ [Next]_vars => InvLRU'
  BY PasoLRU
<1>2. InvLRU /\ [Next]_vars => [Motivo]_vars
  BY LlenaDeSucias, SoloFullLlena DEF Hilos, InvLRU, InvLista
<1>3. CASE SinDrop
  <2>1. InvLRU /\ [Next]_vars => InvLRU'
    BY <1>1, <1>3
  <2> QED BY InitLRU, <1>2, <2>1, PTL DEF Spec, FullSoloSiTodoModificado
<1> QED BY <1>3

-----------------------------------------------------------------------------
(* What can kill the process, when procesoJournal alone journals.           *)

UnSoloJournal ==
  "JOURNAL" \notin Operaciones /\ \A g, h \in Periodico : g = h

SoloEscribe == Operaciones \cap {"SELECT", "DROP"} = {}

TodasSucias == \A p \in paginas : p.modificado = 1

\* Nobody is between the two halves of a DROP.
NadieBorra == \A h \in Hilos : pc[h] # "dropFS"

\* While every page is dirty nothing is evicted.
LEMMA NadaSale ==
  ASSUME InvLRU, TodasSucias, ~MemoriaLlena
  PROVE  /\ PaginasTras = paginas /\ MemoriaTras = memoria
         /\ SoltarPaginas(Salen) => UNCHANGED j
<1>1. ~Desaloja
  <2> DEFINE I == {n \in 1..Len(lista_LRU) : lista_LRU[n].modificado = 0}
  <2>1. SUFFICES ASSUME Desaloja PROVE FALSE
    OBVIOUS
  <2>2. I # {}
    BY <2>1 DEF MemoriaLlena, SinModificar, SelectInSeq
  <2>3. PICK n \in 1..Len(lista_LRU) : lista_LRU[n].modificado = 0
    BY <2>2
  <2>4. PICK p \in paginas : lista_LRU[n] = EntradaLRU(p)
    BY DEF InvLRU, LRUBien
  <2>5. p.modificado = 1
    BY DEF TodasSucias
  <2> QED BY <2>3, <2>4, <2>5 DEF EntradaLRU
<1>2. Salen = {} /\ PaginasTras = paginas
  BY <1>1 DEF Salen, PaginasTras
<1>3. memoria \in [Marcos -> TRegistro] /\ j \in [Hilos -> LocalesJournal]
  BY DEF InvLRU, InvLista, InvBase, InvCache, Coherentes, TipoHilos
<1> QED BY <1>2, <1>3 DEF MemoriaTras, Liberar, SoltarPaginas

\* What a request may do to the cache: nothing, or write one record, in a frame
\* of a page that is there or after the last page of its segment.
Escribe ==
  /\ paginas \subseteq paginas' /\ TodasSucias'
  /\ \A p \in paginas, q \in paginas' \ paginas :
       q.path = p.path => p.numeroPagina < q.numeroPagina
  /\ \E m \in Marcos :
       /\ memoria'[m].timestamp = reloj
       /\ \A p \in paginas' : p.direccion # m =>
            p \in paginas /\ memoria'[p.direccion] = memoria[p.direccion]
  /\ segmentos' = segmentos \/ \E t \in Tablas : segmentos' = Append(segmentos, t)

LEMMA AgregadaEscribe ==
  ASSUME InvLRU, TodasSucias, ~MemoriaLlena,
         NEW t \in Tablas, NEW k \in Claves, NEW v \in Valores,
         AgregarPagina(t, k, reloj, v, 1)
  PROVE  /\ paginas \subseteq paginas' /\ TodasSucias'
         /\ \A p \in paginas, q \in paginas' \ paginas :
              q.path = p.path => p.numeroPagina < q.numeroPagina
         /\ \E m \in Marcos :
              /\ memoria'[m].timestamp = reloj
              /\ \A p \in paginas' : p.direccion # m =>
                   p \in paginas /\ memoria'[p.direccion] = memoria[p.direccion]
<1> DEFINE marco == Min(MarcosVacios(MemoriaTras))
           pag == [path |-> t, numeroPagina |-> ObtenerIndicePagina(t),
                   direccion |-> marco, modificado |-> 1]
           reg == [timestamp |-> reloj, key |-> k, value |-> v]
<1>1. PaginasTras = paginas /\ MemoriaTras = memoria
  BY NadaSale
<1>2. marco \in Marcos
  BY LugarLRU, HayMarco, MarcoVacio DEF InvLRU, DesbordeMarcos
<1>3. paginas' = paginas \cup {pag} /\ memoria' = [memoria EXCEPT ![marco] = reg]
  BY <1>1 DEF AgregarPagina
<1>4. /\ pag.path = t /\ pag.direccion = marco /\ pag.modificado = 1
      /\ pag.numeroPagina = ObtenerIndicePagina(t) /\ reg.timestamp = reloj
  OBVIOUS
<1>5. \A p \in paginas : p.path = t => p.numeroPagina < pag.numeroPagina
  BY <1>1, <1>4, IndiceNuevo DEF InvLRU, InvLista, InvBase
<1>6. /\ memoria \in [Marcos -> TRegistro]
      /\ \A p \in paginas : p.direccion \in Marcos
  BY DEF InvLRU, InvLista, InvBase, InvCache, Coherentes, TPagina
<1> HIDE DEF marco, pag, reg
<1>7. memoria'[marco] = reg /\ \A m \in Marcos : m # marco => memoria'[m] = memoria[m]
  BY <1>2, <1>3, <1>6
<1>8. \A p \in paginas' : p \in paginas \/ p = pag
  BY <1>3
<1>9. TodasSucias'
  BY <1>4, <1>8 DEF TodasSucias
<1>10. \A p \in paginas, q \in paginas' \ paginas :
         q.path = p.path => p.numeroPagina < q.numeroPagina
  BY <1>4, <1>5, <1>8
<1>11. \A p \in paginas' : p.direccion # marco =>
         p \in paginas /\ memoria'[p.direccion] = memoria[p.direccion]
  BY <1>4, <1>6, <1>7, <1>8
<1> QED BY <1>2, <1>3, <1>4, <1>7, <1>9, <1>10, <1>11

LEMMA AtenderEscribe ==
  ASSUME SoloEscribe, InvLRU, NadieBorra, TodasSucias,
         NEW h \in Hilos, Atender(h)
  PROVE  /\ UNCHANGED <<segmentos, paginas, memoria>> \/ Escribe
         /\ UNCHANGED <<fs, reloj, j>>
<1> DEFINE t == pedido[h].t  k == pedido[h].k  v == pedido[h].v
<1>1. pedido[h].op \in Operaciones \cup {"JOURNAL"}
  BY DEF InvLRU, InvLista, InvBase, TipoHilos, Pedidos, PedidoJournal
<1>2. ~(SelectEnCache(h) \/ SelectFuera(h) \/ DropEnMemoria(h))
  BY <1>1 DEF SoloEscribe, SelectEnCache, SelectFuera, DropEnMemoria, Atiende
<1>7. ~MemoriaLlena => ~DesalojoColgante /\ ~DesbordeMarcos
  BY LugarLRU, HayMarco DEF InvLRU
<1>8. DesalojoColgante => ~MemoriaLlena
  BY DEF DesalojoColgante, MemoriaLlena
<1>3. CASE Compuerta(h) \/ Entrar(h) \/ Llena(h) \/ Create(h) \/ Describe(h) \/ ConFull(h)
  BY <1>3 DEF Compuerta, Entrar, Llena, Create, Describe, ConFull, Sigue, cache, sistema
<1>4. CASE InsertEnCache(h)
  <2> DEFINE reg == [timestamp |-> reloj, key |-> k, value |-> v]
  <2>1. PICK q \in BuscarPagina(t, k) :
          \/ /\ paginas' = (paginas \ {q}) \cup {MarcarModificada(q)}
             /\ memoria' = [memoria EXCEPT ![q.direccion] = reg]
          \/ UNCHANGED <<paginas, memoria>>
    BY <1>4 DEF InsertEnCache
  <2>2. UNCHANGED <<segmentos, fs, reloj, j>>
    BY <1>4 DEF InsertEnCache, Sigue, sistema
  <2>3. CASE /\ paginas' = (paginas \ {q}) \cup {MarcarModificada(q)}
             /\ memoria' = [memoria EXCEPT ![q.direccion] = reg]
    <3>1. q \in paginas /\ q \in TPagina /\ q.modificado = 1 /\ memoria \in [Marcos -> TRegistro]
      BY DEF BuscarPagina, PaginasDe, TodasSucias, InvLRU, InvLista, InvBase, InvCache, Coherentes
    <3>2. MarcarModificada(q) = q
      BY <3>1 DEF MarcarModificada, TPagina
    <3>3. paginas' = paginas /\ TodasSucias'
      BY <2>3, <3>1, <3>2 DEF TodasSucias
    <3>4. q.direccion \in Marcos /\ \A p \in paginas : p.direccion \in Marcos
      BY <3>1 DEF TPagina, InvLRU, InvLista, InvBase, InvCache, Coherentes
    <3>5. reg.timestamp = reloj
      OBVIOUS
    <3> HIDE DEF reg
    <3>6. /\ memoria'[q.direccion].timestamp = reloj
          /\ \A p \in paginas : p.direccion # q.direccion =>
               memoria'[p.direccion] = memoria[p.direccion]
      BY <2>3, <3>1, <3>4, <3>5
    <3> QED BY <2>2, <3>3, <3>4, <3>6 DEF Escribe
  <2> QED BY <2>1, <2>2, <2>3
<1>5. CASE InsertNuevo(h) /\ InsertFuera(h)
  <2>1. ~MemoriaLlena /\ AgregarPagina(t, k, reloj, v, 1) /\ UNCHANGED <<fs, reloj>>
    BY <1>5 DEF InsertNuevo, Sigue, sistema
  <2>4. UNCHANGED j
    BY <2>1, NadaSale DEF AgregarPagina
  <2>2. t \in Tablas /\ k \in Claves /\ v \in Valores
    BY <1>5, PedidoTipo DEF InsertFuera, InvLRU, InvLista, InvBase
  <2>3. segmentos' = segmentos \/ segmentos' = Append(segmentos, t)
    BY <1>5 DEF InsertNuevo
  <2> HIDE DEF t, k, v
  <2> QED BY <2>1, <2>2, <2>3, <2>4, AgregadaEscribe DEF Escribe
<1>6. ~DropEnFS(h)
  BY DEF NadieBorra, DropEnFS
<1> QED BY <1>2, <1>3, <1>4, <1>5, <1>6, <1>7, <1>8 DEF Atender, InsertFuera

\* Where a request is until it is answered; where a journal is, and where it is
\* in the pages of a segment.
EnPedido == {"compuerta", "espera", "procesar", "llena"}
EnPaginas == {"jpagina", "jobtener", "jcopiar"}
EnJournal ==
  {"jsegmento", "jtomar", "jenviar", "jvaciar", "javisar", "jbajar"} \cup EnPaginas
Lugares == {"inicio", "abierta", "dropFS"} \cup EnPedido \cup EnJournal

\* The page the journal has counted, or got, is there.
NadaSuelto(h) ==
  /\ pc[h] = "jobtener" => j[h].z < Cardinality(PaginasDe(j[h].seg))
  /\ pc[h] = "jcopiar" => j[h].pagina # 0
  /\ ~j[h].ajeno

InvCaida ==
  /\ SoloCaeSelect /\ NadieBorra
  /\ \A h \in Hilos \ Periodico :
       pc[h] \notin EnJournal /\ (pc[h] \in EnPedido => pedido[h] \in Pedidos)
  /\ \A h \in Hilos :
       /\ j[h].seg \in Tablas =>
            h \in Periodico /\ pc[h] \in {"jsegmento", "jtomar"} \cup EnPaginas
       /\ pc[h] \in EnPaginas => j[h].seg \in Tablas
       /\ pc[h] = "jtomar" => j[h].i < Len(segmentos)
       /\ j[h].ajeno => pc[h] \in EnJournal
  /\ "SELECT" \notin Operaciones => TodasSucias /\ \A h \in Hilos : NadaSuelto(h)

InvMuerte == InvLRU /\ InvCaida

\* How a request's step ends, if no table is dropped.
LEMMA AtenderSalida ==
  ASSUME SinDrop, InvLRU, NEW h \in Hilos, Atender(h)
  PROVE  \/ "SELECT" \in Operaciones /\ Caer("selectSinSegmento")
         \/ /\ Suelta /\ UNCHANGED caida
            /\ UNCHANGED segmentos \/ \E t \in Tablas : segmentos' = Append(segmentos, t)
            /\ \/ pc[h] \in EnPedido /\ UNCHANGED pedido /\ \E l \in EnPedido : Ir(h, l)
               \/ pc[h] \in EnPedido \cup {"dropFS"} /\ Contestar(h)
<1> USE DEF EnPedido, Suelta
<1>1. InvBase /\ (Atiende(h, "SELECT") \/ Atiende(h, "INSERT") => pedido[h].t \in Tablas)
  BY PedidoTipo DEF InvLRU, InvLista, InvBase
<1>2. pedido[h].op \in Operaciones \cup {"JOURNAL"}
  BY DEF InvLRU, InvLista, InvBase, TipoHilos, Pedidos, PedidoJournal
<1>3. ~DropEnMemoria(h)
  BY <1>2 DEF SinDrop, DropEnMemoria, Atiende
<1>4. ~MemoriaLlena => ~DesalojoColgante /\ ~DesbordeMarcos
  BY LugarLRU, HayMarco DEF InvLRU
<1>5. DesalojoColgante => ~MemoriaLlena
  BY DEF DesalojoColgante, MemoriaLlena
<1>6. CASE Compuerta(h) \/ Entrar(h)
  BY <1>6 DEF Compuerta, Entrar, cache
<1>7. CASE Llena(h)
  BY <1>7 DEF Llena, cache
<1>8. ASSUME pc[h] = "procesar", ConFull(h)
      PROVE  /\ Suelta /\ UNCHANGED <<caida, segmentos>>
             /\ (UNCHANGED pedido /\ Ir(h, "llena")) \/ Contestar(h)
  BY <1>8 DEF ConFull, Sigue, cache
<1>9. CASE SelectFuera(h)
  <2>1. pc[h] = "procesar" /\ "SELECT" \in Operaciones
    BY <1>2, <1>9 DEF SelectFuera, Atiende
  <2>2. CASE ConFull(h)
    BY <1>8, <2>1, <2>2
  <2>3. CASE SelectFallido(h)
    BY <2>1, <2>3 DEF SelectFallido, HacerLugar, Sigue
  <2>4. CASE SelectDelFS(h)
    BY <2>1, <2>4 DEF SelectDelFS, AgregarPagina, Sigue
  <2> QED BY <1>4, <1>5, <1>9, <2>2, <2>3, <2>4 DEF SelectFuera
<1>10. CASE InsertFuera(h)
  <2>1. pc[h] = "procesar" /\ pedido[h].t \in Tablas
    BY <1>1, <1>10 DEF InsertFuera, Atiende
  <2>2. CASE ConFull(h)
    BY <1>8, <2>1, <2>2
  <2>3. CASE InsertNuevo(h)
    BY <2>1, <2>3 DEF InsertNuevo, AgregarPagina, Sigue
  <2> QED BY <1>4, <1>5, <1>10, <2>2, <2>3 DEF InsertFuera
<1>11. CASE SelectEnCache(h) \/ InsertEnCache(h) \/ Create(h) \/ Describe(h)
            \/ DropEnFS(h)
  BY <1>11 DEF SelectEnCache, InsertEnCache, Create, Describe, DropEnFS, Atiende, Sigue, cache
<1> QED BY <1>3, <1>6, <1>7, <1>9, <1>10, <1>11 DEF Atender

\* Nobody but procesoJournal starts a journal.
LEMMA SoloPeriodico ==
  ASSUME SinDrop, UnSoloJournal, InvMuerte, NEW h \in Hilos, Journal(h)
  PROVE  h \in Periodico
<1>1. \A r \in Pedidos : r.op # "JOURNAL"
  BY DEF Pedidos, UnSoloJournal
<1>2. CASE JournalIniciar(h)
  BY <1>1, <1>2 DEF JournalIniciar, Atiende, InvMuerte, InvCaida, EnPedido
<1>3. CASE ~JournalIniciar(h)
  <2>1. pc[h] \in EnJournal
    BY <1>3 DEF Journal, EnJournal, EnPaginas, JournalSegmento, JournalTomar, JournalPagina,
       JournalObtener, JournalCopiar, JournalCopiarLiberada, JournalColgado, JournalEnviar,
       Vaciar, JournalAvisar, JournalBajar
  <2> QED BY <2>1 DEF InvMuerte, InvCaida
<1> QED BY <1>2, <1>3

LEMMA TiposMuerte ==
  ASSUME InvMuerte
  PROVE  /\ InvCache
         /\ Coherentes(ToSet(segmentos), paginas, memoria)
         /\ pc \in [Hilos -> Lugares]
         /\ j \in [Hilos -> LocalesJournal]
         /\ fs \in [Tablas -> [Claves -> {Nulo} \cup
                      [timestamp : Nat \ {0}, value : Valores]]]
         /\ reloj \in Nat \ {0}
         /\ segmentos \in Seq(Tablas) /\ Len(segmentos) \in Nat
BY LenProperties DEF InvMuerte, InvLRU, InvLista, InvBase, InvCache, TipoHilos, TipoSistema,
   Lugares, EnPedido, EnJournal, EnPaginas

LEMMA CaerMuerte ==
  ASSUME NEW m \in MuertesPorSelect, "SELECT" \in Operaciones, Caer(m)
  PROVE  InvCaida'
BY ConstantesValidas DEF Caer, InvCaida, SoloCaeSelect, NadieBorra, EnJournal, EnPaginas,
   EnPedido, JournalVacio, MuertesPorSelect

\* A request is attended without a journal: only the SELECT of a table with no
\* segment kills the process.
LEMMA AtenderMuerte ==
  ASSUME SinDrop, UnSoloJournal, InvMuerte, InvCache', InvCache', NEW h \in Hilos, Atender(h)
  PROVE  InvCaida'
<1>1. CASE "SELECT" \in Operaciones /\ Caer("selectSinSegmento")
  BY <1>1, CaerMuerte DEF MuertesPorSelect
<1>2. CASE ~("SELECT" \in Operaciones /\ Caer("selectSinSegmento"))
  <2>1. /\ Suelta /\ UNCHANGED caida
        /\ UNCHANGED segmentos \/ \E t \in Tablas : segmentos' = Append(segmentos, t)
        /\ \/ pc[h] \in EnPedido /\ UNCHANGED pedido /\ \E l \in EnPedido : Ir(h, l)
           \/ pc[h] \in EnPedido \cup {"dropFS"} /\ Contestar(h)
    BY <1>2, AtenderSalida DEF InvMuerte
  <2>2. Len(segmentos) <= Len(segmentos') /\ Len(segmentos') \in Nat
    BY <2>1, TiposMuerte, AppendProperties
  <2>3. \A g \in Hilos : /\ j'[g].seg = j[g].seg /\ j'[g].i = j[g].i /\ j'[g].ajeno = j[g].ajeno
                         /\ j[g].i \in Nat
    <3>1. /\ j \in [Hilos -> LocalesJournal]
          /\ \A g \in Hilos : j'[g] \in {j[g], [j[g] EXCEPT !.pagina = 0]}
      BY <2>1, TiposMuerte, SueltaTipo
    <3> QED BY <3>1 DEF LocalesJournal
  <2>4. /\ \A g \in Hilos : g # h => pc'[g] = pc[g] /\ pedido'[g] = pedido[g]
        /\ pc[h] \notin EnJournal
        /\ \/ pc[h] \in EnPedido /\ pc'[h] \in EnPedido /\ pedido'[h] = pedido[h]
           \/ pc'[h] \in {"abierta", "inicio"}
    BY <2>1, TiposMuerte DEF Contestar, Ir, EnPedido, EnJournal, EnPaginas,
       InvMuerte, InvLRU, InvLista, InvBase, TipoHilos
  <2>5. pc'[h] \notin EnJournal /\ pc'[h] # "dropFS"
    BY <2>4 DEF EnJournal, EnPaginas, EnPedido
  <2>6. SoloCaeSelect' /\ NadieBorra'
    BY <2>1, <2>4, <2>5 DEF InvMuerte, InvCaida, SoloCaeSelect, NadieBorra
  <2>7. ASSUME NEW g \in Hilos \ Periodico
        PROVE  pc'[g] \notin EnJournal /\ (pc'[g] \in EnPedido => pedido'[g] \in Pedidos)
    <3>1. pc'[h] \in {"abierta", "inicio"} => pc'[h] \notin EnPedido
      BY DEF EnPedido
    <3> QED BY <2>4, <2>5, <3>1 DEF InvMuerte, InvCaida
  <2>8. ASSUME NEW g \in Hilos
        PROVE  /\ j'[g].seg \in Tablas =>
                    g \in Periodico /\ pc'[g] \in {"jsegmento", "jtomar"} \cup EnPaginas
               /\ pc'[g] \in EnPaginas => j'[g].seg \in Tablas
               /\ pc'[g] = "jtomar" => j'[g].i < Len(segmentos')
               /\ j'[g].ajeno => pc'[g] \in EnJournal
    <3>1. /\ j[g].seg \in Tablas =>
               g \in Periodico /\ pc[g] \in {"jsegmento", "jtomar"} \cup EnPaginas
          /\ pc[g] \in EnPaginas => j[g].seg \in Tablas
          /\ pc[g] = "jtomar" => j[g].i < Len(segmentos)
          /\ j[g].ajeno => pc[g] \in EnJournal
      BY DEF InvMuerte, InvCaida
    <3>2. {"jsegmento", "jtomar"} \cup EnPaginas \subseteq EnJournal
      BY DEF EnJournal
    <3>3. CASE g = h
      BY <2>3, <2>4, <2>5, <3>1, <3>2, <3>3
    <3>4. CASE g # h
      <4>1. Len(segmentos) \in Nat
        BY TiposMuerte
      <4>2. pc[g] = "jtomar" => j[g].i < Len(segmentos')
        BY <2>2, <2>3, <3>1, <4>1
      <4> QED BY <2>3, <2>4, <3>1, <3>4, <4>2
    <3> QED BY <3>3, <3>4
  <2>9. ASSUME "SELECT" \notin Operaciones
        PROVE  TodasSucias' /\ \A g \in Hilos : NadaSuelto(g)'
    <3>1. TodasSucias /\ \A g \in Hilos : NadaSuelto(g)
      BY <2>9 DEF InvMuerte, InvCaida
    <3>2. /\ UNCHANGED <<segmentos, paginas, memoria>> \/ Escribe
          /\ UNCHANGED j
      BY <2>9, <3>1, AtenderEscribe DEF SoloEscribe, SinDrop, InvMuerte, InvCaida
    <3>3. TodasSucias' /\ paginas \subseteq paginas'
      BY <3>1, <3>2 DEF TodasSucias, Escribe
    <3>4. IsFiniteSet(paginas')
      <4>1. Coherentes(ToSet(segmentos)', paginas', memoria')
        BY DEF InvCache
      <4> QED BY <4>1, PaginasFinitas
    <3>5. ASSUME NEW g \in Hilos PROVE NadaSuelto(g)'
      <4>1. pc'[g] \in {"jobtener", "jcopiar"} => pc'[g] = pc[g]
        BY <2>4, <2>5 DEF EnJournal, EnPaginas
      <4>2. /\ Cardinality(PaginasDe(j[g].seg)) <= Cardinality(PaginasDe(j[g].seg)')
            /\ Cardinality(PaginasDe(j[g].seg)) \in Nat /\ Cardinality(PaginasDe(j[g].seg)') \in Nat
        <5>1. PaginasDe(j[g].seg) \subseteq PaginasDe(j[g].seg)'
          BY <3>2, <3>3 DEF PaginasDe
        <5>2. IsFiniteSet(PaginasDe(j[g].seg)')
          <6>1. PaginasDe(j[g].seg)' \subseteq paginas'
            BY DEF PaginasDe
          <6> QED BY <3>4, <6>1, FS_Subset
        <5> QED BY <5>1, <5>2, FS_Subset, FS_CardinalityType
      <4>3. j[g].z \in Nat
        BY TiposMuerte DEF LocalesJournal
      <4> QED BY <3>1, <3>2, <4>1, <4>2, <4>3 DEF NadaSuelto
    <3> QED BY <3>3, <3>5
  <2> QED BY <2>6, <2>7, <2>8, <2>9 DEF InvCaida
<1> QED BY <1>1, <1>2

LEMMA JournalMuerte ==
  ASSUME SinDrop, UnSoloJournal, InvMuerte, NEW h \in Hilos, Journal(h)
  PROVE  InvCaida'
<1> USE DEF EnJournal, EnPaginas
<1>1. h \in Periodico /\ \A g \in Periodico : g = h
  BY SoloPeriodico DEF UnSoloJournal
<1>2. /\ pc \in [Hilos -> Lugares] /\ j \in [Hilos -> LocalesJournal]
      /\ j[h] \in LocalesJournal
      /\ segmentos \in Seq(Tablas) /\ Len(segmentos) \in Nat
  BY TiposMuerte
<1>3. /\ pc[h] \in EnPaginas => j[h].seg \in Tablas
      /\ pc[h] = "jtomar" => j[h].i < Len(segmentos)
      /\ j[h].seg \in Tablas => pc[h] \in {"jsegmento", "jtomar"} \cup EnPaginas
      /\ j[h].ajeno => pc[h] \in EnJournal
      /\ "SELECT" \notin Operaciones => TodasSucias /\ NadaSuelto(h)
  BY DEF InvMuerte, InvCaida
\* What the others do stays, and this thread's clauses are shown.
<1>4. ASSUME \A g \in Hilos : g # h => /\ pc'[g] = pc[g] /\ j'[g] = j[g]
                                       /\ pedido'[g] = pedido[g],
             pc'[h] # "dropFS",
             j'[h].seg \in Tablas => pc'[h] \in {"jsegmento", "jtomar"} \cup EnPaginas,
             pc'[h] \in EnPaginas => j'[h].seg \in Tablas,
             pc'[h] = "jtomar" => j'[h].i < Len(segmentos'),
             j'[h].ajeno => pc'[h] \in EnJournal,
             "SELECT" \notin Operaciones => NadaSuelto(h)',
             UNCHANGED paginas \/ paginas' = {},
             UNCHANGED caida
      PROVE  InvCaida'
  <2>1. ASSUME NEW g \in Hilos, g # h PROVE g \notin Periodico /\ pc[g] \notin EnJournal
    BY <1>1, <2>1 DEF InvMuerte, InvCaida
  <2>2. SoloCaeSelect' /\ NadieBorra'
    BY <1>4 DEF InvMuerte, InvCaida, SoloCaeSelect, NadieBorra
  <2>3. ASSUME NEW g \in Hilos \ Periodico
        PROVE  pc'[g] \notin EnJournal /\ (pc'[g] \in EnPedido => pedido'[g] \in Pedidos)
    <3>1. g # h /\ pc'[g] = pc[g] /\ pedido'[g] = pedido[g]
      BY <1>1, <1>4
    <3> QED BY <3>1 DEF InvMuerte, InvCaida
  <2>4. ASSUME NEW g \in Hilos
        PROVE  /\ j'[g].seg \in Tablas =>
                    g \in Periodico /\ pc'[g] \in {"jsegmento", "jtomar"} \cup EnPaginas
               /\ pc'[g] \in EnPaginas => j'[g].seg \in Tablas
               /\ pc'[g] = "jtomar" => j'[g].i < Len(segmentos')
               /\ j'[g].ajeno => pc'[g] \in EnJournal
    <3>1. CASE g = h
      BY <1>1, <1>4, <3>1
    <3>2. CASE g # h
      <4>1. /\ pc'[g] = pc[g] /\ j'[g] = j[g] /\ pc[g] \notin EnJournal
            /\ j[g].seg \notin Tablas /\ ~j[g].ajeno
        BY <1>4, <2>1, <3>2 DEF InvMuerte, InvCaida
      <4> QED BY <4>1
    <3> QED BY <3>1, <3>2
  <2>5. ASSUME "SELECT" \notin Operaciones
        PROVE  TodasSucias' /\ \A g \in Hilos : NadaSuelto(g)'
    <3>1. TodasSucias'
      BY <1>3, <1>4, <2>5 DEF TodasSucias
    <3>2. ASSUME NEW g \in Hilos, g # h PROVE NadaSuelto(g)'
      <4>1. pc'[g] = pc[g] /\ j'[g] = j[g] /\ pc[g] \notin EnJournal /\ ~j[g].ajeno
        BY <1>4, <2>1, <2>5, <3>2 DEF InvMuerte, InvCaida, NadaSuelto
      <4> QED BY <4>1 DEF NadaSuelto
    <3> QED BY <1>4, <2>5, <3>1, <3>2
  <2> QED BY <2>2, <2>3, <2>4, <2>5 DEF InvCaida
\* A turn that moves this thread and leaves the cache.
<1>5. ASSUME NEW e \in LocalesJournal, NEW l \in EnJournal,
             j' = [j EXCEPT ![h] = e], Ir(h, l),
             UNCHANGED <<cache, pedido, caida>>,
             e.seg \in Tablas => l \in {"jsegmento", "jtomar"} \cup EnPaginas,
             l \in EnPaginas => e.seg \in Tablas,
             l = "jtomar" => e.i < Len(segmentos),
             "SELECT" \notin Operaciones =>
               /\ l = "jobtener" => e.z < Cardinality(PaginasDe(e.seg))
               /\ l = "jcopiar" => e.pagina # 0
               /\ ~e.ajeno
      PROVE  InvCaida'
  <2>1. pc'[h] = l /\ j'[h] = e /\ \A g \in Hilos : g # h => pc'[g] = pc[g] /\ j'[g] = j[g]
    BY <1>2, <1>5 DEF Ir
  <2>2. UNCHANGED <<paginas, segmentos>>
    BY <1>5 DEF cache
  <2>3. "SELECT" \notin Operaciones => NadaSuelto(h)'
    BY <1>5, <2>1, <2>2 DEF NadaSuelto, PaginasDe
  <2> QED BY <1>4, <1>5, <2>1, <2>2, <2>3
<1>6. CASE JournalIniciar(h)
  <2> DEFINE e == [JournalVacio EXCEPT !.repite = j[h].repite, !.inicio = reloj]
  <2>1. reloj \in Nat /\ j[h].repite \in BOOLEAN
    BY <1>2, TiposMuerte DEF LocalesJournal
  <2>2. e \in LocalesJournal /\ e.seg = Nulo /\ e.ajeno = FALSE
    BY <2>1, EmptySeq DEF LocalesJournal, JournalVacio
  <2>3. j' = [j EXCEPT ![h] = e] /\ Ir(h, "jsegmento") /\ UNCHANGED <<cache, pedido, caida>>
    BY <1>6 DEF JournalIniciar
  <2> HIDE DEF e
  <2> QED BY <1>5, <2>2, <2>3
<1>7. CASE JournalSegmento(h)
  <2>1. UNCHANGED <<cache, pedido, caida>> /\ pc[h] = "jsegmento"
    BY <1>7 DEF JournalSegmento
  <2>2. CASE j[h].i < Len(segmentos)
    <3>1. Ir(h, "jtomar") /\ j' = [j EXCEPT ![h] = j[h]]
      BY <1>2, <1>7, <2>2 DEF JournalSegmento
    <3> QED BY <1>2, <1>3, <1>5, <2>1, <2>2, <3>1 DEF NadaSuelto
  <2>3. CASE ~(j[h].i < Len(segmentos))
    <3> DEFINE e == [j[h] EXCEPT !.seg = Nulo, !.z = 0]
    <3>1. e \in LocalesJournal /\ e.seg = Nulo /\ e.ajeno = j[h].ajeno
      BY <1>2 DEF LocalesJournal
    <3>2. Ir(h, "jenviar") /\ j' = [j EXCEPT ![h] = e]
      BY <1>2, <1>7, <2>3 DEF JournalSegmento
    <3>3. Nulo \notin Tablas
      BY ConstantesValidas
    <3> HIDE DEF e
    <3> QED BY <1>3, <1>5, <2>1, <3>1, <3>2, <3>3 DEF NadaSuelto
  <2> QED BY <2>2, <2>3
<1>8. CASE JournalTomar(h)
  <2>1. j[h].i < Len(segmentos) /\ j[h].i \in Nat
    BY <1>2, <1>3, <1>8 DEF JournalTomar, LocalesJournal
  <2> DEFINE t == segmentos[j[h].i + 1]
             e == [j[h] EXCEPT !.seg = t, !.z = 0]
  <2>2. t \in Tablas
    <3>1. j[h].i + 1 \in 1..Len(segmentos)
      BY <1>2, <2>1
    <3> QED BY <1>2, <3>1, ElementOfSeq
  <2>5. /\ j' = [j EXCEPT ![h].seg = t, ![h].z = 0]
        /\ Ir(h, "jpagina") /\ UNCHANGED <<cache, pedido, caida>>
    BY <1>2, <1>8, <2>1 DEF JournalTomar
  <2> HIDE DEF t
  <2>3. j' = [j EXCEPT ![h] = e]
    BY <1>2, <2>5
  <2>4. e \in LocalesJournal /\ e.seg = t /\ e.ajeno = j[h].ajeno
    BY <1>2, <2>2 DEF LocalesJournal
  <2> HIDE DEF e
  <2> QED BY <1>3, <1>5, <2>2, <2>3, <2>4, <2>5 DEF NadaSuelto
<1>9. CASE JournalPagina(h)
  <2>1. /\ UNCHANGED <<cache, pedido, caida>> /\ j[h].seg \in Tablas
    BY <1>3, <1>9 DEF JournalPagina
  <2>2. CASE j[h].z < Cardinality(PaginasDe(j[h].seg))
    <3>1. Ir(h, "jobtener") /\ j' = [j EXCEPT ![h] = j[h]]
      BY <1>2, <1>9, <2>2 DEF JournalPagina
    <3> QED BY <1>2, <1>3, <1>5, <2>1, <2>2, <3>1 DEF NadaSuelto
  <2>3. CASE ~(j[h].z < Cardinality(PaginasDe(j[h].seg)))
    <3> DEFINE n == j[h].i + 1  e == [j[h] EXCEPT !.i = n]
    <3>3. n \in Nat
      BY <1>2 DEF LocalesJournal
    <3>2. Ir(h, "jsegmento") /\ j' = [j EXCEPT ![h] = e]
      BY <1>2, <1>9, <2>3 DEF JournalPagina
    <3> HIDE DEF n
    <3>1. e \in LocalesJournal /\ e.ajeno = j[h].ajeno
      BY <1>2, <3>3 DEF LocalesJournal
    <3> HIDE DEF e
    <3> QED BY <1>3, <1>5, <2>1, <3>1, <3>2 DEF NadaSuelto
  <2> QED BY <2>2, <2>3
<1>10. CASE JournalObtener(h)
  <2>1. pc[h] = "jobtener" /\ j[h].seg \in Tablas /\ j[h].z \in Nat
    BY <1>2, <1>3, <1>10 DEF JournalObtener, LocalesJournal
  <2>4. Cardinality(PaginasDe(j[h].seg)) \in Nat
    <3>1. IsFiniteSet(paginas) /\ PaginasDe(j[h].seg) \subseteq paginas
      BY TiposMuerte, PaginasFinitas DEF PaginasDe
    <3> QED BY <3>1, FS_Subset, FS_CardinalityType
  <2>2. CASE j[h].z < Cardinality(PaginasDe(j[h].seg))
    <3> DEFINE n == PaginaEn(j[h].seg, j[h].z).numeroPagina
               e == [j[h] EXCEPT !.pagina = n]
    <3>1. n \in Nat \ {0}
      <4>1. Coherentes(ToSet(segmentos), paginas, memoria)
        BY TiposMuerte
      <4>2. PaginaEn(j[h].seg, j[h].z) \in paginas
        BY <2>1, <2>2, <4>1, PaginaEnLista DEF PaginasDe, InvCache, InvMuerte, InvLRU, InvLista,
           InvBase
      <4> QED BY <4>1, <4>2 DEF Coherentes, TPagina
    <3>4. /\ j' = [j EXCEPT ![h].pagina = n]
          /\ Ir(h, "jcopiar") /\ UNCHANGED <<cache, pedido, caida>>
      BY <1>10, <2>1, <2>2, <2>4 DEF JournalObtener
    <3> HIDE DEF n
    <3>2. j' = [j EXCEPT ![h] = e]
      BY <1>2, <3>4
    <3>3. e \in LocalesJournal /\ e.seg = j[h].seg /\ e.ajeno = j[h].ajeno /\ e.pagina = n
      BY <1>2, <3>1 DEF LocalesJournal
    <3> HIDE DEF e
    <3> QED BY <1>3, <1>5, <2>1, <3>1, <3>2, <3>3, <3>4 DEF NadaSuelto
  <2>3. CASE ~(j[h].z < Cardinality(PaginasDe(j[h].seg)))
    <3>1. "SELECT" \in Operaciones
      BY <1>3, <2>1, <2>3 DEF NadaSuelto
    <3>2. Caer("journalSinPagina")
      BY <1>10, <2>3 DEF JournalObtener
    <3> QED BY <3>1, <3>2, CaerMuerte DEF MuertesPorSelect
  <2> QED BY <2>2, <2>3
<1>11. ASSUME NEW rs \in Seq([t : Tablas, k : Claves, v : Valores]), Anotar(h, rs),
              pc[h] = "jcopiar"
       PROVE  InvCaida'
  <2> DEFINE l == j[h].lista \o rs  n == j[h].z + 1
             e == [j[h] EXCEPT !.z = n, !.pagina = 0, !.lista = l]
  <2>4. n \in Nat
    BY <1>2 DEF LocalesJournal
  <2>1. l \in Seq([t : Tablas, k : Claves, v : Valores])
    <3> DEFINE R == [t : Tablas, k : Claves, v : Valores]
    <3>1. j[h].lista \in Seq(R)
      BY <1>2 DEF LocalesJournal
    <3> HIDE DEF R
    <3> QED BY <1>11, <3>1, ConcatProperties DEF R
  <2>2. j' = [j EXCEPT ![h] = e] /\ Ir(h, "jpagina") /\ UNCHANGED <<cache, pedido, caida>>
    BY <1>2, <1>11 DEF Anotar
  <2> HIDE DEF l, n
  <2>3. e \in LocalesJournal /\ e.seg = j[h].seg /\ e.ajeno = j[h].ajeno
    BY <1>2, <2>1, <2>4 DEF LocalesJournal
  <2> HIDE DEF e
  <2> QED BY <1>3, <1>5, <1>11, <2>2, <2>3 DEF NadaSuelto
<1>12. CASE JournalCopiar(h)
  <2>1. Coherentes(ToSet(segmentos), paginas, memoria) /\ pc[h] = "jcopiar"
    BY <1>12, TiposMuerte DEF JournalCopiar
  <2> DEFINE R == [t : Tablas, k : Claves, v : Valores]
  <2>2. PICK p \in paginas :
          Anotar(h, IF p.modificado = 1
                      THEN <<[t |-> p.path, k |-> memoria[p.direccion].key,
                              v |-> memoria[p.direccion].value]>>
                      ELSE <<>>)
    BY <1>12 DEF JournalCopiar, PaginasDe
  <2>3. [t |-> p.path, k |-> memoria[p.direccion].key, v |-> memoria[p.direccion].value] \in R
    BY <2>1 DEF Coherentes, TPagina
  <2>4. \A x \in R : <<x>> \in Seq(R)
    OBVIOUS
  <2>5. <<>> \in Seq(R)
    OBVIOUS
  <2> HIDE DEF R
  <2>6. \A rs \in Seq(R) : Anotar(h, rs) => InvCaida'
    BY <1>11, <2>1 DEF R
  <2> QED BY <2>2, <2>3, <2>4, <2>5, <2>6
<1>13. CASE JournalCopiarLiberada(h)
  <2>1. /\ "SELECT" \in Operaciones /\ pc[h] = "jcopiar"
    BY <1>3, <1>13 DEF JournalCopiarLiberada, NadaSuelto
  <2>2. CASE Anotar(h, <<>>)
    <3>1. <<>> \in Seq([t : Tablas, k : Claves, v : Valores])
      OBVIOUS
    <3> QED BY <1>11, <2>1, <2>2, <3>1
  <2>3. CASE Caer("paginaLiberada")
    BY <2>1, <2>3, CaerMuerte DEF MuertesPorSelect
  <2>4. CASE \E r \in [t : {x \in Tablas : j[h].seg \in {x, "liberado"}},
                       k : Claves, v : Valores] :
               /\ j' = [j EXCEPT ![h].z = @ + 1, ![h].lista = Append(@, r), ![h].ajeno = TRUE]
               /\ Ir(h, "jpagina")
               /\ UNCHANGED <<cache, compuerta, pedido, caida, reloj, sistema>>
    <3> DEFINE R == [t : Tablas, k : Claves, v : Valores]
    <3>1. PICK r \in R :
               /\ j' = [j EXCEPT ![h].z = @ + 1, ![h].lista = Append(@, r), ![h].ajeno = TRUE]
               /\ Ir(h, "jpagina")
               /\ UNCHANGED <<cache, compuerta, pedido, caida, reloj, sistema>>
      BY <2>4
    <3> DEFINE l == Append(j[h].lista, r)  n == j[h].z + 1
               e == [j[h] EXCEPT !.z = n, !.lista = l, !.ajeno = TRUE]
    <3>5. n \in Nat
      BY <1>2 DEF LocalesJournal
    <3>2. l \in Seq(R)
      <4>1. j[h].lista \in Seq(R)
        BY <1>2 DEF LocalesJournal
      <4> HIDE DEF R
      <4> QED BY <4>1, AppendProperties
    <3>3. j' = [j EXCEPT ![h] = e] /\ UNCHANGED <<cache, pedido, caida>>
      BY <1>2, <3>1
    <3> HIDE DEF l, n
    <3>4. e \in LocalesJournal /\ e.seg = j[h].seg
      BY <1>2, <3>2, <3>5 DEF LocalesJournal
    <3> HIDE DEF e, R
    <3> QED BY <1>3, <1>5, <2>1, <3>1, <3>3, <3>4
  <2> QED BY <1>13, <2>2, <2>3, <2>4 DEF JournalCopiarLiberada
<1>14. ~JournalColgado(h)
  BY <1>3, ConstantesValidas DEF JournalColgado
<1>15. CASE JournalEnviar(h)
  <2>1. UNCHANGED <<cache, pedido, caida>> /\ pc[h] = "jenviar"
    BY <1>15 DEF JournalEnviar
  <2>2. CASE j[h].lista = <<>>
    <3>1. Ir(h, "jvaciar") /\ j' = [j EXCEPT ![h] = j[h]]
      BY <1>2, <1>15, <2>2 DEF JournalEnviar
    <3> QED BY <1>2, <1>3, <1>5, <2>1, <3>1 DEF NadaSuelto
  <2>3. CASE j[h].lista # <<>>
    <3> DEFINE R == [t : Tablas, k : Claves, v : Valores]
               l == Tail(j[h].lista)
               e == [j[h] EXCEPT !.lista = l]
    <3>1. l \in Seq(R)
      <4>1. j[h].lista \in Seq(R)
        BY <1>2 DEF LocalesJournal
      <4> HIDE DEF R
      <4> QED BY <2>3, <4>1, HeadTailProperties
    <3>2. j' = [j EXCEPT ![h] = e] /\ Ir(h, "jenviar")
      BY <1>2, <1>15, <2>1, <2>3 DEF JournalEnviar, Ir
    <3> HIDE DEF l
    <3>3. e \in LocalesJournal /\ e.seg = j[h].seg /\ e.ajeno = j[h].ajeno
      BY <1>2, <3>1 DEF LocalesJournal
    <3> HIDE DEF e, R
    <3> QED BY <1>3, <1>5, <2>1, <3>2, <3>3 DEF NadaSuelto
  <2> QED BY <2>2, <2>3
<1>16. CASE Vaciar(h)
  <2>1. \A g \in Hilos : j[g].seg \notin Tablas
    BY <1>1, <1>16 DEF Vaciar, InvMuerte, InvCaida
  <2>2. ToSet(segmentos) \subseteq Tablas
    BY TiposMuerte DEF Coherentes
  <2>3. \A g \in Hilos : j'[g] = j[g]
    BY <1>16, <2>1, <2>2 DEF Vaciar, LiberarSegmentos
  <2>4. /\ pc'[h] = "javisar" /\ \A g \in Hilos : g # h => pc'[g] = pc[g]
        /\ pc[h] = "jvaciar" /\ UNCHANGED <<pedido, caida>> /\ paginas' = {}
    BY <1>2, <1>16 DEF Vaciar, Ir
  <2>5. "SELECT" \notin Operaciones => NadaSuelto(h)'
    BY <1>3, <2>3, <2>4 DEF NadaSuelto
  <2> QED BY <1>3, <1>4, <2>3, <2>4, <2>5
<1>17. CASE JournalAvisar(h)
  <2>1. /\ UNCHANGED <<cache, pedido, caida>> /\ pc[h] = "javisar" /\ Ir(h, "jbajar")
        /\ j' = [j EXCEPT ![h] = j[h]]
    BY <1>2, <1>17 DEF JournalAvisar, cache
  <2> QED BY <1>2, <1>3, <1>5, <2>1 DEF NadaSuelto
<1>18. CASE JournalBajar(h)
  <2>1. j' = [j EXCEPT ![h] = JournalVacio] /\ UNCHANGED <<cache, caida>>
    BY <1>18 DEF JournalBajar, TerminarJournal, cache
  <2>2. /\ pc'[h] \in {"compuerta", "abierta", "inicio"}
        /\ \A g \in Hilos : g # h => pc'[g] = pc[g] /\ pedido'[g] = pedido[g]
    BY <1>2, <1>18 DEF JournalBajar, TerminarJournal, Contestar, Ir,
       InvMuerte, InvLRU, InvLista, InvBase, TipoHilos
  <2>3. /\ j'[h] = JournalVacio /\ \A g \in Hilos : g # h => j'[g] = j[g]
        /\ JournalVacio.seg = Nulo /\ JournalVacio.ajeno = FALSE /\ Nulo \notin Tablas
    BY <1>2, <2>1, ConstantesValidas DEF JournalVacio
  <2>4. NadaSuelto(h)'
    BY <2>2, <2>3 DEF NadaSuelto
  <2> QED BY <1>4, <2>1, <2>2, <2>3, <2>4 DEF cache
<1> QED BY <1>6, <1>7, <1>8, <1>9, <1>10, <1>12, <1>13, <1>14, <1>15, <1>16, <1>17, <1>18
        DEF Journal

LEMMA PasoMuerte ==
  ASSUME SinDrop, UnSoloJournal, InvMuerte, [Next]_vars
  PROVE  InvMuerte'
<1>1. InvLRU' /\ InvCache'
  BY PasoLRU DEF InvMuerte, InvLRU, InvLista, InvBase
<1>2. CASE Tic \/ Reiniciar \/ UNCHANGED vars
  <2>1. UNCHANGED <<pc, pedido, j, segmentos, paginas>> /\ caida' \in {caida, "no"}
    BY <1>2 DEF Tic, Reiniciar, vars, cache
  <2> QED BY <1>1, <2>1 DEF InvMuerte, InvCaida, SoloCaeSelect, NadieBorra, TodasSucias,
             NadaSuelto, PaginasDe
<1>3. ASSUME NEW h \in Hilos, Paso(h) PROVE InvCaida'
  <2>1. CASE Recibir(h) \/ RecibirOtro(h) \/ Cerrar(h) \/ Despertar(h)
    <3>1. \A r \in Pedidos : r.op # "JOURNAL"
      BY DEF Pedidos, UnSoloJournal
    <3>2. j \in [Hilos -> LocalesJournal] /\ pc \in [Hilos -> Lugares]
      BY TiposMuerte DEF InvMuerte
    <3>3. \A g \in Hilos : /\ j'[g].seg = j[g].seg /\ j'[g].i = j[g].i /\ j'[g].z = j[g].z
                           /\ j'[g].pagina = j[g].pagina /\ j'[g].ajeno = j[g].ajeno
      <4>1. ASSUME NEW b \in BOOLEAN, j' = [j EXCEPT ![h].repite = b]
            PROVE  \A g \in Hilos : /\ j'[g].seg = j[g].seg /\ j'[g].i = j[g].i
                                    /\ j'[g].z = j[g].z /\ j'[g].pagina = j[g].pagina
                                    /\ j'[g].ajeno = j[g].ajeno
        BY <3>2, <4>1 DEF LocalesJournal
      <4>2. j' = j \/ \E b \in BOOLEAN : j' = [j EXCEPT ![h].repite = b]
        BY <2>1 DEF Recibir, RecibirOtro, Cerrar, Despertar
      <4> QED BY <4>1, <4>2
    <3>4. /\ pc[h] \in {"inicio", "abierta"} /\ UNCHANGED <<caida, paginas, segmentos>>
          /\ pc'[h] \in {"compuerta", "procesar", "inicio"}
          /\ \A g \in Hilos : g # h => pc'[g] = pc[g] /\ pedido'[g] = pedido[g]
          /\ \/ pedido'[h] \in Pedidos
             \/ h \in Periodico
             \/ pc'[h] = "inicio"
      BY <2>1, <3>2 DEF Recibir, RecibirOtro, Cerrar, Despertar, Ir, cache,
         InvMuerte, InvLRU, InvLista, InvBase, TipoHilos
    <3>5. pc[h] \notin EnJournal /\ pc'[h] \notin EnJournal
      BY <3>4 DEF EnJournal, EnPaginas
    <3>6. SoloCaeSelect' /\ NadieBorra'
      BY <3>4 DEF InvMuerte, InvCaida, SoloCaeSelect, NadieBorra
    <3>7. ASSUME NEW g \in Hilos \ Periodico
          PROVE  pc'[g] \notin EnJournal /\ (pc'[g] \in EnPedido => pedido'[g] \in Pedidos)
      <4>1. "inicio" \notin EnPedido
        BY DEF EnPedido
      <4> QED BY <3>4, <3>5, <4>1 DEF InvMuerte, InvCaida
    <3>8. ASSUME NEW g \in Hilos
          PROVE  /\ j'[g].seg \in Tablas =>
                      g \in Periodico /\ pc'[g] \in {"jsegmento", "jtomar"} \cup EnPaginas
                 /\ pc'[g] \in EnPaginas => j'[g].seg \in Tablas
                 /\ pc'[g] = "jtomar" => j'[g].i < Len(segmentos')
                 /\ j'[g].ajeno => pc'[g] \in EnJournal
      <4>1. {"jsegmento", "jtomar"} \cup EnPaginas \subseteq EnJournal
        BY DEF EnJournal
      <4>2. pc'[g] # pc[g] => pc[g] \notin EnJournal /\ pc'[g] \notin EnJournal
        BY <3>4, <3>5
      <4> QED BY <3>3, <3>4, <4>1, <4>2 DEF InvMuerte, InvCaida
    <3>9. ASSUME "SELECT" \notin Operaciones
          PROVE  TodasSucias' /\ \A g \in Hilos : NadaSuelto(g)'
      <4>1. TodasSucias /\ \A g \in Hilos : NadaSuelto(g)
        BY <3>9 DEF InvMuerte, InvCaida
      <4>2. ASSUME NEW g \in Hilos PROVE NadaSuelto(g)'
        <5>1. pc'[g] \in {"jobtener", "jcopiar"} => pc'[g] = pc[g]
          BY <3>4, <3>5 DEF EnJournal, EnPaginas
        <5> QED BY <3>3, <3>4, <4>1, <5>1 DEF NadaSuelto, PaginasDe
      <4> QED BY <3>4, <4>1, <4>2 DEF TodasSucias
    <3> QED BY <3>6, <3>7, <3>8, <3>9 DEF InvCaida
  <2> QED BY <1>1, <1>3, <2>1, AtenderMuerte, JournalMuerte DEF Paso
<1> QED BY <1>1, <1>2, <1>3 DEF Next, InvMuerte

LEMMA InitMuerte == Init => InvMuerte
BY InitLRU, ConstantesValidas DEF Init, InvMuerte, InvCaida, SoloCaeSelect, NadieBorra,
   TodasSucias, NadaSuelto, EnJournal, EnPaginas, EnPedido, JournalVacio

\* With no DROP and procesoJournal alone journaling, no eviction and no search
\* for a frame fails: what kills the process is a SELECT, by bringing the first
\* page of a segment or by evicting a page from under the unlocked journal();
\* with no SELECT nothing does.
THEOREM UnaSolaMuerte == SinDrop /\ UnSoloJournal => (Spec => []SoloCaeSelect)
<1>1. InvMuerte => SoloCaeSelect
  BY DEF InvMuerte, InvCaida
<1>2. SinDrop /\ UnSoloJournal /\ InvMuerte /\ [Next]_vars => InvMuerte'
  BY PasoMuerte
<1>3. CASE SinDrop /\ UnSoloJournal
  <2>1. InvMuerte /\ [Next]_vars => InvMuerte'
    BY <1>2, <1>3
  <2>2. QED
    BY InitMuerte, <1>1, <2>1, PTL DEF Spec
<1>4. QED
  BY <1>3

-----------------------------------------------------------------------------
(* A clean page holds what the file system holds.                           *)

\* A dirty page of that key.
Sucia(t, k) ==
  \E p \in paginas : /\ p.modificado = 1 /\ p.path = t
                     /\ memoria[p.direccion].key = k

\* What a journal has still to send is of pages that are dirty until it wipes
\* them, so that sending it changes no record under a clean page; unless it has
\* read a freed page.
ArmaLista == {"jsegmento", "jtomar", "jenviar"} \cup EnPaginas

PorEnviar ==
  \A h \in Hilos : pc[h] \in ArmaLista /\ ~j[h].ajeno =>
    \A n \in 1..Len(j[h].lista) : Sucia(j[h].lista[n].t, j[h].lista[n].k)

InvCoherencia == InvMuerte /\ Coherencia /\ PorEnviar

\* A dirty page stays dirty, and of its key, until the wipe or the death.
LEMMA SigueSucia ==
  ASSUME SinDrop, InvLRU, NEW h \in Hilos, Paso(h), ~Vaciar(h), caida' = "no",
         NEW t, NEW k, Sucia(t, k)
  PROVE  Sucia(t, k)'
<1>1. PICK p \in paginas : /\ p.modificado = 1 /\ p.path = t
                           /\ memoria[p.direccion].key = k
  BY DEF Sucia
<1>2. Coherentes(ToSet(segmentos), paginas, memoria) /\ InvCache
  BY DEF InvLRU, InvLista, InvBase, InvCache
<1>3. p \in TPagina /\ p.direccion \in Marcos
  BY <1>2 DEF Coherentes, TPagina
<1>4. ASSUME p \in paginas', memoria'[p.direccion] = memoria[p.direccion]
      PROVE  Sucia(t, k)'
  BY <1>1, <1>4 DEF Sucia
<1>5. CASE UNCHANGED <<paginas, memoria>>
  BY <1>1, <1>4, <1>5
<1>6. CASE ~MemoriaLlena /\ HacerLugar
  <2>1. p \in PaginasTras
    BY <1>1, <1>6, LugarLRU, LugarLista DEF InvLRU, PaginasTras
  <2>2. MemoriaTras[p.direccion] = memoria[p.direccion]
    BY <1>2, <2>1, LugarCoherente
  <2> QED BY <1>4, <1>6, <2>1, <2>2 DEF HacerLugar
<1>7. ASSUME ~MemoriaLlena, NEW u, NEW c, NEW ts, NEW v, NEW bit,
             AgregarPagina(u, c, ts, v, bit)
      PROVE  Sucia(t, k)'
  <2>1. p \in PaginasTras
    BY <1>1, <1>7, LugarLRU, LugarLista DEF InvLRU, PaginasTras
  <2>2. MemoriaTras[p.direccion] = memoria[p.direccion]
    BY <1>2, <2>1, LugarCoherente
  <2>3. PICK m : m = Min(MarcosVacios(MemoriaTras))
    OBVIOUS
  <2>4. MemoriaTras[m].timestamp = 0
    BY <1>7, <2>3, LugarLRU, HayMarco, MarcoVacio DEF InvLRU, DesbordeMarcos
  <2>5. memoria[p.direccion].timestamp # 0 /\ m # p.direccion
    BY <1>2, <2>2, <2>4 DEF Coherentes
  <2>6. memoria' = [MemoriaTras EXCEPT ![m] = [timestamp |-> ts, key |-> c, value |-> v]]
    BY <1>7, <2>3 DEF AgregarPagina
  <2>7. MemoriaTras \in [Marcos -> TRegistro]
    BY <1>2, LugarCoherente DEF Coherentes
  <2>8. memoria'[p.direccion] = memoria[p.direccion]
    BY <1>3, <2>2, <2>5, <2>6, <2>7
  <2>9. p \in paginas'
    BY <1>7, <2>1 DEF AgregarPagina
  <2> QED BY <1>4, <2>8, <2>9
<1>8. CASE InsertEnCache(h)
  <2> DEFINE reg == [timestamp |-> reloj, key |-> pedido[h].k, value |-> pedido[h].v]
  <2>1. PICK q \in BuscarPagina(pedido[h].t, pedido[h].k) :
          \/ /\ paginas' = (paginas \ {q}) \cup {MarcarModificada(q)}
             /\ memoria' = [memoria EXCEPT ![q.direccion] = reg]
          \/ UNCHANGED <<paginas, memoria>>
    BY <1>8 DEF InsertEnCache
  <2>2. q \in paginas /\ q \in TPagina /\ memoria[q.direccion].key = pedido[h].k
    BY <1>2 DEF BuscarPagina, PaginasDe, Coherentes
  <2>3. CASE /\ paginas' = (paginas \ {q}) \cup {MarcarModificada(q)}
             /\ memoria' = [memoria EXCEPT ![q.direccion] = reg]
    <3>1. memoria \in [Marcos -> TRegistro]
      BY <1>2 DEF Coherentes
    <3>2. CASE p = q
      <4>1. MarcarModificada(q) = q
        BY <1>1, <2>2, <3>2 DEF MarcarModificada, TPagina
      <4>2. memoria'[p.direccion].key = k
        BY <1>1, <1>3, <2>2, <2>3, <3>1, <3>2
      <4> QED BY <1>1, <2>3, <3>2, <4>1, <4>2 DEF Sucia
    <3>3. CASE p # q
      <4>1. p.direccion # q.direccion
        BY <1>2, <2>2, <3>3 DEF Coherentes
      <4>2. memoria'[p.direccion] = memoria[p.direccion]
        BY <1>3, <2>3, <3>1, <4>1
      <4> QED BY <1>4, <2>3, <3>3, <4>2
    <3> QED BY <3>2, <3>3
  <2> QED BY <1>5, <2>1, <2>3
<1>9. ASSUME NEW m, Caer(m), m # "no" PROVE FALSE
  BY <1>9 DEF Caer
<1>10. CASE SelectFuera(h) \/ InsertFuera(h)
  <2>1. CASE ConFull(h)
    BY <1>5, <2>1 DEF ConFull, cache
  <2>2. CASE SelectFallido(h)
    BY <1>6, <2>2 DEF SelectFallido
  <2>3. CASE SelectDelFS(h)
    BY <1>7, <1>9, <2>3 DEF SelectDelFS
  <2>4. CASE InsertNuevo(h)
    BY <1>7, <2>4 DEF InsertNuevo
  <2> QED BY <1>9, <1>10, <2>1, <2>2, <2>3, <2>4 DEF SelectFuera, InsertFuera
<1>11. ~DropEnMemoria(h)
  <2>1. pedido[h].op \in Operaciones \cup {"JOURNAL"}
    BY DEF InvLRU, InvLista, InvBase, TipoHilos, Pedidos, PedidoJournal
  <2> QED BY <2>1 DEF SinDrop, DropEnMemoria, Atiende
<1>12. CASE \/ Recibir(h) \/ RecibirOtro(h) \/ Cerrar(h) \/ Despertar(h)
            \/ Compuerta(h) \/ Entrar(h) \/ Llena(h) \/ SelectEnCache(h)
            \/ Create(h) \/ Describe(h) \/ DropEnFS(h)
  BY <1>5, <1>12 DEF Recibir, RecibirOtro, Cerrar, Despertar, Compuerta, Entrar,
     Llena, SelectEnCache, Create, Describe, DropEnFS, cache
<1>13. CASE Journal(h)
  BY <1>5, <1>9, <1>13, JournalQuieto DEF MuertesDeJournal, cache
<1> QED BY <1>8, <1>10, <1>11, <1>12, <1>13 DEF Paso, Atender

\* The pages, the frames and the records of the file system stay.
LEMMA QuietaCoherencia ==
  ASSUME Consistentes, UNCHANGED <<paginas, memoria, fs>>
  PROVE  Consistentes'
BY DEF Consistentes

\* A page that is added holds what the file system answered, or is dirty.
LEMMA AgregadaCoherencia ==
  ASSUME InvLRU, Consistentes, ~MemoriaLlena, UNCHANGED fs,
         NEW t \in Tablas, NEW k \in Claves, NEW ts \in Nat \ {0},
         NEW v \in Valores, NEW bit \in {0, 1}, AgregarPagina(t, k, ts, v, bit),
         bit = 0 => fs[t][k] = [timestamp |-> ts, value |-> v]
  PROVE  Consistentes'
<1> DEFINE marco == Min(MarcosVacios(MemoriaTras))
           pag == [path |-> t, numeroPagina |-> ObtenerIndicePagina(t),
                   direccion |-> marco, modificado |-> bit]
           reg == [timestamp |-> ts, key |-> k, value |-> v]
<1>1. /\ Coherentes(ToSet(segmentos), PaginasTras, MemoriaTras)
      /\ \A p \in PaginasTras : MemoriaTras[p.direccion] = memoria[p.direccion]
  BY LugarCoherente DEF InvLRU, InvLista, InvBase
<1>2. marco \in Marcos /\ MemoriaTras[marco].timestamp = 0
  BY LugarLRU, HayMarco, MarcoVacio DEF InvLRU, DesbordeMarcos
<1>3. /\ paginas' = PaginasTras \cup {pag}
      /\ memoria' = [MemoriaTras EXCEPT ![marco] = reg]
  BY DEF AgregarPagina
<1>4. pag.path = t /\ pag.direccion = marco /\ pag.modificado = bit
  OBVIOUS
<1>5. reg.timestamp = ts /\ reg.key = k /\ reg.value = v
  OBVIOUS
<1> HIDE DEF pag, marco, reg
<1>6. memoria'[marco] = reg /\ \A m \in Marcos : m # marco => memoria'[m] = MemoriaTras[m]
  BY <1>1, <1>2, <1>3 DEF Coherentes
<1>7. ASSUME NEW p \in PaginasTras, p.modificado = 0
      PROVE  LET r == memoria'[p.direccion] IN
             fs'[p.path][r.key] = [timestamp |-> r.timestamp, value |-> r.value]
  <2>1. p.direccion # marco /\ p.direccion \in Marcos /\ p \in paginas
    BY <1>1, <1>2 DEF Coherentes, PaginasTras, TPagina
  <2>2. memoria'[p.direccion] = memoria[p.direccion]
    BY <1>1, <1>6, <2>1
  <2> QED BY <1>7, <2>1, <2>2 DEF Consistentes
<1>8. pag.modificado = 0 =>
        LET r == memoria'[pag.direccion] IN
        fs'[pag.path][r.key] = [timestamp |-> r.timestamp, value |-> r.value]
  BY <1>4, <1>5, <1>6
<1> QED BY <1>3, <1>7, <1>8 DEF Consistentes

LEMMA SelectCoherencia ==
  ASSUME InvLRU, Consistentes, NEW h \in Hilos, SelectEnCache(h) \/ SelectFuera(h)
  PROVE  Consistentes'
<1> DEFINE t == pedido[h].t  k == pedido[h].k  r == fs[t][k]
<1>1. CASE SelectEnCache(h)
  BY <1>1, QuietaCoherencia DEF SelectEnCache, sistema
<1>2. CASE SelectFuera(h)
  <2>1. t \in Tablas /\ k \in Claves
    BY <1>2, PedidoTipo DEF SelectFuera, InvLRU, InvLista, InvBase
  <2>2. CASE ConFull(h)
    BY <2>2, QuietaCoherencia DEF ConFull, cache, sistema
  <2>3. CASE SelectFallido(h)
    <3>1. /\ paginas' = PaginasTras /\ memoria' = MemoriaTras /\ fs' = fs
      BY <2>3 DEF SelectFallido, HacerLugar, sistema
    <3>2. \A p \in PaginasTras : p \in paginas /\ MemoriaTras[p.direccion] = memoria[p.direccion]
      BY LugarCoherente DEF InvLRU, InvLista, InvBase, PaginasTras
    <3> QED BY <3>1, <3>2 DEF Consistentes
  <2>4. CASE SelectDelFS(h)
    <3>1. r \in [timestamp : Nat \ {0}, value : Valores]
      BY <2>1, <2>4 DEF SelectDelFS, TieneRegistro, InvLRU, InvLista, InvBase, TipoSistema
    <3>2. CASE AgregarPagina(t, k, r.timestamp, r.value, 0) /\ UNCHANGED sistema
      <4>1. ~MemoriaLlena /\ UNCHANGED fs
        BY <2>4, <3>2 DEF SelectDelFS, sistema
      <4>2. r.timestamp \in Nat \ {0} /\ r.value \in Valores
        BY <3>1
      <4>3. fs[t][k] = [timestamp |-> r.timestamp, value |-> r.value]
        BY <3>1
      <4> HIDE DEF t, k, r
      <4> QED BY <2>1, <3>2, <4>1, <4>2, <4>3, AgregadaCoherencia
    <3>3. CASE Caer("selectSinSegmento")
      BY <3>3 DEF Caer, Consistentes
    <3> QED BY <2>4, <3>2, <3>3 DEF SelectDelFS
  <2>5. CASE Caer("lruColgante") \/ Caer("desbordeMarcos")
    BY <2>5 DEF Caer, Consistentes
  <2> QED BY <1>2, <2>2, <2>3, <2>4, <2>5 DEF SelectFuera
<1> QED BY <1>1, <1>2

LEMMA InsertCoherencia ==
  ASSUME InvLRU, Consistentes, NEW h \in Hilos, InsertEnCache(h) \/ InsertFuera(h)
  PROVE  Consistentes'
<1> DEFINE t == pedido[h].t  k == pedido[h].k  v == pedido[h].v
           reg == [timestamp |-> reloj, key |-> k, value |-> v]
<1>1. t \in Tablas /\ k \in Claves /\ v \in Valores
  BY PedidoTipo DEF InsertEnCache, InsertFuera, InvLRU, InvLista, InvBase
<1>2. reloj \in Nat \ {0} /\ Coherentes(ToSet(segmentos), paginas, memoria)
  BY DEF InvLRU, InvLista, InvBase, TipoSistema, InvCache
<1>3. CASE InsertEnCache(h)
  <2>1. PICK q \in BuscarPagina(t, k) :
          \/ /\ paginas' = (paginas \ {q}) \cup {MarcarModificada(q)}
             /\ memoria' = [memoria EXCEPT ![q.direccion] = reg]
          \/ UNCHANGED <<paginas, memoria>>
    BY <1>3 DEF InsertEnCache
  <2>2. q \in paginas /\ q \in TPagina /\ UNCHANGED fs
    BY <1>2, <1>3 DEF BuscarPagina, PaginasDe, Coherentes, InsertEnCache, sistema
  <2>3. CASE /\ paginas' = (paginas \ {q}) \cup {MarcarModificada(q)}
             /\ memoria' = [memoria EXCEPT ![q.direccion] = reg]
    <3> HIDE DEF reg
    <3>1. ASSUME NEW p \in paginas', p.modificado = 0
          PROVE  p \in paginas /\ memoria'[p.direccion] = memoria[p.direccion]
      <4>1. MarcarModificada(q).modificado = 1
        BY <2>2 DEF MarcarModificada, TPagina
      <4>2. p \in paginas /\ p # q
        BY <2>3, <3>1, <4>1
      <4>3. p.direccion # q.direccion /\ p.direccion \in Marcos
        BY <1>2, <2>2, <4>2 DEF Coherentes, TPagina
      <4> QED BY <1>2, <2>3, <4>2, <4>3 DEF Coherentes
    <3> QED BY <2>2, <3>1 DEF Consistentes
  <2> QED BY <2>1, <2>2, <2>3, QuietaCoherencia
<1>4. CASE InsertFuera(h)
  <2>1. CASE ConFull(h)
    BY <2>1, QuietaCoherencia DEF ConFull, cache, sistema
  <2>2. CASE InsertNuevo(h)
    <3>1. AgregarPagina(t, k, reloj, v, 1) /\ ~MemoriaLlena /\ UNCHANGED fs
      BY <2>2 DEF InsertNuevo, sistema
    <3>2. 1 \in {0, 1} /\ (1 = 0 => fs[t][k] = [timestamp |-> reloj, value |-> v])
      OBVIOUS
    <3> HIDE DEF t, k, v
    <3> QED BY <1>1, <1>2, <3>1, <3>2, AgregadaCoherencia
  <2>3. CASE Caer("lruColgante") \/ Caer("desbordeMarcos")
    BY <2>3 DEF Caer, Consistentes
  <2> QED BY <1>4, <2>1, <2>2, <2>3 DEF InsertFuera
<1> QED BY <1>3, <1>4

\* What JournalEnviar stores is under no clean page.
LEMMA EnviarCoherencia ==
  ASSUME InvMuerte, PorEnviar, Consistentes, NEW h \in Hilos, JournalEnviar(h), ~j[h].ajeno
  PROVE  Consistentes'
<1>1. UNCHANGED <<paginas, memoria>> /\ pc[h] = "jenviar"
  BY DEF JournalEnviar, cache
<1>2. CASE UNCHANGED fs
  BY <1>1, <1>2, QuietaCoherencia
<1>3. CASE j[h].lista # <<>> /\ ~UNCHANGED fs
  <2>1. PICK r : r = Head(j[h].lista)
    OBVIOUS
  <2>2. j[h].lista \in Seq([t : Tablas, k : Claves, v : Valores])
    BY TiposMuerte DEF LocalesJournal
  <2>3. /\ r \in [t : Tablas, k : Claves, v : Valores]
        /\ r = j[h].lista[1] /\ 1 \in 1..Len(j[h].lista)
    <3>1. j[h].lista # <<>>
      BY <1>3
    <3>2. r \in [t : Tablas, k : Claves, v : Valores] /\ r = j[h].lista[1]
      <4> DEFINE S == [t : Tablas, k : Claves, v : Valores]
      <4>1. PICK s : s = j[h].lista
        OBVIOUS
      <4>2. s \in Seq(S) /\ s # <<>> /\ r = Head(s)
        BY <2>1, <2>2, <3>1, <4>1
      <4> HIDE DEF S
      <4>3. Head(s) \in S /\ Head(s) = s[1]
        BY <4>2, HeadTailProperties
      <4> QED BY <4>1, <4>2, <4>3 DEF S
    <3>3. Len(j[h].lista) \in Nat /\ Len(j[h].lista) # 0
      BY <2>2, <3>1, LenProperties, EmptySeq
    <3> QED BY <3>2, <3>3
  <2>4. Sucia(r.t, r.k)
    BY <1>1, <2>3 DEF PorEnviar, ArmaLista
  <2>5. PICK s \in paginas : s.modificado = 1 /\ s.path = r.t /\ memoria[s.direccion].key = r.k
    BY <2>4 DEF Sucia
  <2>6. fs' = [fs EXCEPT ![r.t][r.k] = [timestamp |-> reloj, value |-> r.v]]
    BY <1>3, <2>1 DEF JournalEnviar, GuardarEnFS
  <2>7. ASSUME NEW p \in paginas, p.modificado = 0
        PROVE  fs'[p.path][memoria[p.direccion].key] = fs[p.path][memoria[p.direccion].key]
    <3>1. p.path # s.path \/ memoria[p.direccion].key # memoria[s.direccion].key
      BY <2>5, <2>7, TiposMuerte DEF Coherentes
    <3>2. p.path \in Tablas /\ memoria[p.direccion].key \in Claves
      BY TiposMuerte DEF Coherentes, TPagina
    <3> QED BY <2>3, <2>5, <2>6, <3>1, <3>2, TiposMuerte
  <2> QED BY <1>1, <2>7 DEF Consistentes
<1> QED BY <1>2, <1>3 DEF JournalEnviar

\* A journal that has read a freed page wipes the pages before it is forgotten.
LEMMA AjenoSeVacia ==
  ASSUME SinDrop, UnSoloJournal, InvMuerte, InvMuerte', NEW h \in Hilos, Paso(h), SinAjenos',
         ~Vaciar(h), ~(\E m : Caer(m))
  PROVE  SinAjenos
<1>1. SUFFICES ASSUME NEW g \in Hilos, j[g].ajeno PROVE pc[g] \in {"javisar", "jbajar"}
  BY DEF SinAjenos
<1>2. j \in [Hilos -> LocalesJournal] /\ pc \in [Hilos -> Lugares] /\ pc[g] \in EnJournal
  BY <1>1, TiposMuerte DEF InvMuerte, InvCaida
<1>3. g \in Periodico /\ \A f \in Periodico : f = g
  BY <1>1, <1>2 DEF InvMuerte, InvCaida, UnSoloJournal
<1>4. CASE ~Journal(h)
  <2>1. j'[g].ajeno /\ pc'[g] = pc[g]
    <3>1. CASE Atender(h)
      <4>1. Suelta /\ h # g /\ (Contestar(h) \/ \E l : Ir(h, l))
        BY <1>2, <3>1, AtenderSalida
           DEF InvMuerte, EnPedido, EnJournal, EnPaginas
      <4>2. j'[g] \in {j[g], [j[g] EXCEPT !.pagina = 0]}
        BY <1>2, <4>1, SueltaTipo
      <4>3. j'[g].ajeno
        BY <1>1, <1>2, <4>2 DEF LocalesJournal
      <4>4. pc'[g] = pc[g]
        BY <1>2, <4>1 DEF Contestar, Ir
      <4> QED BY <4>3, <4>4
    <3>2. CASE Recibir(h) \/ RecibirOtro(h) \/ Cerrar(h) \/ Despertar(h)
      <4>1. pc[h] \in {"inicio", "abierta"} /\ \E l : Ir(h, l)
        BY <3>2 DEF Recibir, RecibirOtro, Cerrar, Despertar
      <4>2. h # g
        BY <1>2, <4>1 DEF EnJournal, EnPaginas
      <4>3. j'[g] = j[g]
        BY <1>2, <3>2, <4>2 DEF Recibir, RecibirOtro, Cerrar, Despertar
      <4> QED BY <1>1, <1>2, <4>1, <4>2, <4>3 DEF Ir
    <3> QED BY <1>4, <3>1, <3>2 DEF Paso
  <2> QED BY <2>1 DEF SinAjenos
<1>5. CASE Journal(h)
  <2>1. h = g
    BY <1>3, <1>5, SoloPeriodico
  <2>2. CASE JournalAvisar(h) \/ JournalBajar(h)
    BY <2>1, <2>2 DEF JournalAvisar, JournalBajar
  <2>3. ~JournalIniciar(h)
    BY <1>2, <2>1 DEF JournalIniciar, Atiende, EnJournal, EnPaginas
  <2> SUFFICES ASSUME ~JournalAvisar(h), ~JournalBajar(h) PROVE FALSE
    BY <2>2
  <2>4. pc'[g] \notin {"javisar", "jbajar"}
    <3>1. \A l : Ir(h, l) => pc'[g] = l
      BY <1>2, <2>1 DEF Ir
    <3>2. CASE JournalSegmento(h) \/ JournalTomar(h) \/ JournalPagina(h) \/ JournalObtener(h)
      BY <3>1, <3>2 DEF JournalSegmento, JournalTomar, JournalPagina, JournalObtener
    <3>3. CASE JournalCopiar(h) \/ JournalCopiarLiberada(h)
      BY <3>1, <3>3 DEF JournalCopiar, JournalCopiarLiberada, Anotar
    <3>4. CASE JournalColgado(h)
      BY <3>1, <3>4 DEF JournalColgado
    <3>5. CASE JournalEnviar(h)
      BY <3>1, <3>5, <2>1 DEF JournalEnviar
    <3> QED BY <1>5, <2>3, <3>2, <3>3, <3>4, <3>5 DEF Journal
  <2>5. j'[g].ajeno
    <3>1. j[h].ajeno /\ h \in DOMAIN j /\ DOMAIN j[h] = DOMAIN JournalVacio
      BY <1>1, <1>2, <2>1 DEF LocalesJournal, JournalVacio
    <3>2. "ajeno" \in DOMAIN j[h]
      BY <1>2 DEF LocalesJournal
    <3>3. CASE JournalSegmento(h)
      BY <3>1, <3>2, <3>3, <2>1 DEF JournalSegmento
    <3>4. CASE JournalTomar(h)
      BY <3>1, <3>2, <3>4, <2>1 DEF JournalTomar
    <3>5. CASE JournalPagina(h)
      BY <3>1, <3>2, <3>5, <2>1 DEF JournalPagina
    <3>6. CASE JournalObtener(h)
      BY <3>1, <3>2, <3>6, <2>1 DEF JournalObtener
    <3>7. ASSUME NEW x, Anotar(h, x) PROVE j'[g].ajeno
      BY <3>1, <3>2, <3>7, <2>1 DEF Anotar
    <3>8. CASE JournalCopiar(h)
      BY <3>7, <3>8 DEF JournalCopiar
    <3>9. CASE JournalCopiarLiberada(h)
      <4>1. CASE Anotar(h, <<>>)
        BY <4>1, <3>7
      <4>2. CASE \E r : j' = [j EXCEPT ![h].z = @ + 1, ![h].lista = Append(@, r),
                                       ![h].ajeno = TRUE]
        BY <4>2, <3>1, <3>2, <2>1
      <4> QED BY <3>9, <4>1, <4>2 DEF JournalCopiarLiberada
    <3>10. CASE JournalColgado(h)
      BY <3>1, <3>2, <3>10, <2>1 DEF JournalColgado
    <3>11. CASE JournalEnviar(h)
      BY <3>1, <3>2, <3>11, <2>1 DEF JournalEnviar
    <3> QED BY <1>5, <2>3, <3>3, <3>4, <3>5, <3>6, <3>8, <3>9, <3>10, <3>11 DEF Journal
  <2> QED BY <2>4, <2>5 DEF SinAjenos
<1> QED BY <1>4, <1>5

LEMMA PasoDeCoherencia ==
  ASSUME SinDrop, UnSoloJournal, InvCoherencia, InvMuerte', [Next]_vars
  PROVE  Coherencia'
<1> SUFFICES ASSUME SinAjenos' PROVE Consistentes'
  BY DEF Coherencia
<1>1. InvMuerte /\ InvLRU
  BY DEF InvCoherencia, InvMuerte
<1>2. CASE Tic \/ Reiniciar \/ UNCHANGED vars
  BY <1>2, QuietaCoherencia DEF Tic, Reiniciar, vars, cache, sistema, InvCoherencia,
     Coherencia, SinAjenos
<1>3. ASSUME NEW h \in Hilos, Paso(h) PROVE Consistentes'
  <2>1. CASE Vaciar(h) \/ \E m : Caer(m)
    BY <2>1 DEF Vaciar, Caer, Consistentes
  <2> SUFFICES ASSUME ~Vaciar(h), ~(\E m : Caer(m)) PROVE Consistentes'
    BY <2>1
  <2>2. Consistentes
    BY <1>1, <1>3, AjenoSeVacia DEF InvCoherencia, Coherencia
  <2>3. CASE \/ Recibir(h) \/ RecibirOtro(h) \/ Cerrar(h) \/ Despertar(h)
             \/ Compuerta(h) \/ Entrar(h) \/ Llena(h) \/ Create(h) \/ Describe(h)
    BY <2>2, <2>3, QuietaCoherencia DEF Recibir, RecibirOtro, Cerrar, Despertar,
       Compuerta, Entrar, Llena, Create, Describe, cache, sistema
  <2>4. ~DropEnMemoria(h) /\ ~DropEnFS(h)
    <3>1. pedido[h].op \in Operaciones \cup {"JOURNAL"}
      BY <1>1 DEF InvLRU, InvLista, InvBase, TipoHilos, Pedidos, PedidoJournal
    <3>2. ~DropEnMemoria(h)
      BY <3>1 DEF SinDrop, DropEnMemoria, Atiende
    <3>3. pc[h] # "dropFS"
      BY <1>1 DEF InvMuerte, InvCaida, NadieBorra
    <3> QED BY <3>2, <3>3 DEF DropEnFS
  <2>5. CASE Journal(h) /\ ~JournalEnviar(h)
    <3>1. UNCHANGED cache
      BY <2>5, JournalQuieto
    <3>2. UNCHANGED fs
      <4>1. CASE JournalIniciar(h) \/ JournalSegmento(h) \/ JournalPagina(h)
        BY <4>1 DEF JournalIniciar, JournalSegmento, JournalPagina, sistema
      <4>2. CASE JournalTomar(h) \/ JournalObtener(h) \/ JournalCopiar(h)
        BY <4>2 DEF JournalTomar, JournalObtener, JournalCopiar, Anotar, sistema
      <4>3. CASE JournalCopiarLiberada(h) \/ JournalColgado(h)
        BY <4>3 DEF JournalCopiarLiberada, Anotar, JournalColgado, sistema
      <4>4. CASE JournalAvisar(h) \/ JournalBajar(h)
        BY <4>4 DEF JournalAvisar, JournalBajar, sistema
      <4> QED BY <2>5, <4>1, <4>2, <4>3, <4>4 DEF Journal
    <3> QED BY <2>2, <3>1, <3>2, QuietaCoherencia DEF cache
  <2>6. CASE JournalEnviar(h)
    <3>1. ~j[h].ajeno
      BY <1>1, <1>3, <2>6, AjenoSeVacia DEF JournalEnviar, SinAjenos
    <3> QED BY <1>1, <2>2, <2>6, <3>1, EnviarCoherencia DEF InvCoherencia
  <2> QED BY <1>1, <1>3, <2>2, <2>3, <2>4, <2>5, <2>6, SelectCoherencia, InsertCoherencia
          DEF Paso, Atender
<1> QED BY <1>2, <1>3 DEF Next

\* Only a death changes caida while the process runs.
LEMMA PasoVivo ==
  ASSUME NEW h \in Hilos, Paso(h)
  PROVE  UNCHANGED caida \/ \E m : Caer(m)
<1>1. CASE Recibir(h) \/ RecibirOtro(h) \/ Cerrar(h) \/ Despertar(h)
  BY <1>1 DEF Recibir, RecibirOtro, Cerrar, Despertar
<1>2. CASE Atender(h)
  BY <1>2 DEF Atender, Compuerta, Entrar, Llena, SelectEnCache, SelectFuera, ConFull,
     SelectFallido, SelectDelFS, InsertEnCache, InsertFuera, InsertNuevo, Create, Describe,
     DropEnMemoria, DropEnFS, Sigue
<1>3. CASE JournalIniciar(h) \/ JournalSegmento(h) \/ JournalTomar(h) \/ JournalPagina(h)
  BY <1>3 DEF JournalIniciar, JournalSegmento, JournalTomar, JournalPagina
<1>4. CASE JournalObtener(h) \/ JournalCopiar(h) \/ JournalCopiarLiberada(h)
           \/ JournalColgado(h)
  BY <1>4 DEF JournalObtener, JournalCopiar, JournalCopiarLiberada, Anotar, JournalColgado
<1>5. CASE JournalEnviar(h) \/ Vaciar(h) \/ JournalAvisar(h) \/ JournalBajar(h)
  BY <1>5 DEF JournalEnviar, Vaciar, JournalAvisar, JournalBajar
<1> QED BY <1>1, <1>2, <1>3, <1>4, <1>5 DEF Paso, Journal

\* A step of a request starts no journal and touches no journal's list.
LEMMA AtenderListas ==
  ASSUME SinDrop, InvMuerte, NEW h \in Hilos, ~(\E m : Caer(m)), NEW g \in Hilos,
         \/ Recibir(h) \/ RecibirOtro(h) \/ Cerrar(h) \/ Despertar(h)
         \/ Atender(h)
  PROVE  /\ j'[g].lista = j[g].lista /\ j'[g].ajeno = j[g].ajeno
         /\ pc'[g] \in EnJournal => pc[g] = pc'[g]
<1>1. pc \in [Hilos -> Lugares] /\ j \in [Hilos -> LocalesJournal]
  BY TiposMuerte
<1>2. ASSUME NEW l, l \notin EnJournal, Ir(h, l)
      PROVE  pc'[g] \in EnJournal => pc[g] = pc'[g]
  BY <1>1, <1>2 DEF Ir
<1>3. CASE Recibir(h) \/ RecibirOtro(h) \/ Cerrar(h) \/ Despertar(h)
  <2>1. \E l \in {"procesar", "compuerta", "inicio"} : Ir(h, l)
    BY <1>3 DEF Recibir, RecibirOtro, Cerrar, Despertar
  <2>2. {"procesar", "compuerta", "inicio"} \cap EnJournal = {}
    BY DEF EnJournal, EnPaginas
  <2>3. UNCHANGED j \/ \E b : j' = [j EXCEPT ![h].repite = b]
    BY <1>3 DEF Recibir, RecibirOtro, Cerrar, Despertar
  <2>4. ASSUME NEW b, j' = [j EXCEPT ![h].repite = b]
        PROVE  j'[g].lista = j[g].lista /\ j'[g].ajeno = j[g].ajeno
    <3>1. j'[g] = j[g] \/ j'[g] = [j[g] EXCEPT !.repite = b]
      BY <1>1, <2>4
    <3> QED BY <1>1, <3>1 DEF LocalesJournal
  <2> QED BY <1>2, <2>1, <2>2, <2>3, <2>4
<1>4. CASE Atender(h)
  <2>1. Suelta /\ (Contestar(h) \/ \E l \in EnPedido : Ir(h, l))
    BY <1>4, AtenderSalida DEF InvMuerte
  <2>2. EnPedido \cap EnJournal = {} /\ {"abierta", "inicio"} \cap EnJournal = {}
    BY DEF EnPedido, EnJournal, EnPaginas
  <2>3. \E l : l \notin EnJournal /\ Ir(h, l)
    BY <2>1, <2>2 DEF Contestar
  <2>4. j'[g] \in {j[g], [j[g] EXCEPT !.pagina = 0]}
    BY <1>1, <2>1, SueltaTipo
  <2>5. j'[g].lista = j[g].lista /\ j'[g].ajeno = j[g].ajeno
    BY <1>1, <2>4 DEF LocalesJournal
  <2> QED BY <1>2, <2>3, <2>5
<1> QED BY <1>3, <1>4

\* A journal's step leaves the other threads where they are.
LEMMA JournalOtros ==
  ASSUME pc \in [Hilos -> Lugares], j \in [Hilos -> LocalesJournal],
         NEW h \in Hilos, Journal(h), ~(\E m : Caer(m)), NEW g \in Hilos, g # h
  PROVE  pc'[g] = pc[g] /\ j'[g].lista = j[g].lista /\ j'[g].ajeno = j[g].ajeno
<1>1. ASSUME NEW l, Ir(h, l) PROVE pc'[g] = pc[g]
  BY <1>1 DEF Ir
<1>2. CASE JournalIniciar(h) \/ JournalSegmento(h) \/ JournalTomar(h) \/ JournalPagina(h)
  <2>1. (\E l : Ir(h, l)) /\ j'[g] = j[g]
    BY <1>2 DEF JournalIniciar, JournalSegmento, JournalTomar, JournalPagina
  <2> QED BY <1>1, <2>1
<1>3. CASE JournalObtener(h) \/ JournalCopiar(h) \/ JournalCopiarLiberada(h)
           \/ JournalColgado(h)
  <2>1. (\E l : Ir(h, l)) /\ j'[g] = j[g]
    BY <1>3 DEF JournalObtener, JournalCopiar, JournalCopiarLiberada, Anotar, JournalColgado
  <2> QED BY <1>1, <2>1
<1>4. CASE Vaciar(h)
  <2>1. Ir(h, "javisar") /\ LiberarSegmentos(ToSet(segmentos))
    BY <1>4 DEF Vaciar
  <2>2. j'[g] \in {j[g], [j[g] EXCEPT !.seg = "liberado", !.pagina = 0]}
    BY <2>1 DEF LiberarSegmentos
  <2> QED BY <1>1, <2>1, <2>2 DEF LocalesJournal
<1>5. CASE JournalEnviar(h)
  <2>1. ((\E l : Ir(h, l)) \/ UNCHANGED pc) /\ j'[g] = j[g]
    BY <1>5 DEF JournalEnviar
  <2> QED BY <1>1, <2>1
<1>6. CASE JournalAvisar(h) \/ JournalBajar(h)
  <2>1. (\E l : Ir(h, l)) /\ j'[g] = j[g]
    BY <1>6 DEF JournalAvisar, JournalBajar, TerminarJournal, Contestar
  <2> QED BY <1>1, <2>1
<1> QED BY <1>2, <1>3, <1>4, <1>5, <1>6 DEF Journal

\* What a turn of the inner loop adds, as an append.
LEMMA AnotarLista ==
  ASSUME j \in [Hilos -> LocalesJournal], NEW h \in Hilos, NEW rs, Anotar(h, rs)
  PROVE  /\ j'[h] = [j[h] EXCEPT !.z = j[h].z + 1, !.pagina = 0, !.lista = j[h].lista \o rs]
         /\ rs = <<>> => j'[h].lista = j[h].lista
         /\ \A e \in [t : Tablas, k : Claves, v : Valores] :
              rs = <<e>> => j'[h].lista = Append(j[h].lista, e)
<1> DEFINE R == [t : Tablas, k : Claves, v : Valores]
<1>1. j[h] \in LocalesJournal /\ j[h].lista \in Seq(R)
  BY DEF LocalesJournal
<1>2. j'[h] = [j[h] EXCEPT !.z = j[h].z + 1, !.pagina = 0, !.lista = j[h].lista \o rs]
  BY DEF Anotar
<1>3. j'[h].lista = j[h].lista \o rs
  BY <1>1, <1>2 DEF LocalesJournal
<1> HIDE DEF R
<1>4. j[h].lista \o <<>> = j[h].lista
  BY <1>1, ConcatEmptySeq
<1>5. \A e \in R : Append(j[h].lista, e) = j[h].lista \o <<e>>
  BY <1>1, AppendIsConcat
<1> QED BY <1>2, <1>3, <1>4, <1>5 DEF R

\* A journal with a list to send had it before, or has one record more, of a
\* dirty page, or one less; or has just begun.
LEMMA JournalListas ==
  ASSUME SinDrop, InvMuerte, NEW h \in Hilos, Journal(h), ~(\E m : Caer(m)), NEW g \in Hilos,
         pc'[g] \in ArmaLista, ~j'[g].ajeno
  PROVE  \/ /\ pc[g] \in ArmaLista /\ ~j[g].ajeno
            /\ j'[g].lista = j[g].lista
         \/ j'[g].lista = <<>>
         \/ /\ pc[g] = "jcopiar" /\ ~j[g].ajeno /\ UNCHANGED cache
            /\ \E p \in paginas :
                 LET r == memoria[p.direccion] IN
                 /\ p.modificado = 1
                 /\ j'[g].lista = Append(j[g].lista,
                      [t |-> p.path, k |-> r.key, v |-> r.value])
         \/ /\ pc[g] = "jenviar" /\ ~j[g].ajeno /\ j[g].lista # <<>>
            /\ j'[g].lista = Tail(j[g].lista)
<1>1. /\ pc \in [Hilos -> Lugares] /\ j \in [Hilos -> LocalesJournal]
      /\ Coherentes(ToSet(segmentos), paginas, memoria)
  BY TiposMuerte
<1>2. CASE g # h
  BY <1>1, <1>2, JournalOtros
<1>3. CASE g = h
  <2> DEFINE MismaLista == j'[h].lista = j[h].lista /\ ~j[h].ajeno
  <2>1. CASE JournalIniciar(h)
    BY <1>1, <1>3, <2>1 DEF JournalIniciar, JournalVacio
  <2>2. CASE JournalSegmento(h)
    <3>1. MismaLista /\ pc[h] = "jsegmento"
      BY <1>1, <1>3, <2>2 DEF JournalSegmento, LocalesJournal
    <3> QED BY <1>3, <3>1 DEF ArmaLista
  <2>3. CASE JournalTomar(h)
    <3>1. MismaLista /\ pc[h] = "jtomar"
      BY <1>1, <1>3, <2>3 DEF JournalTomar, LocalesJournal
    <3> QED BY <1>3, <3>1 DEF ArmaLista
  <2>4. CASE JournalPagina(h)
    <3>1. MismaLista /\ pc[h] = "jpagina"
      BY <1>1, <1>3, <2>4 DEF JournalPagina, LocalesJournal
    <3> QED BY <1>3, <3>1 DEF ArmaLista, EnPaginas
  <2>5. CASE JournalObtener(h)
    <3>1. MismaLista /\ pc[h] = "jobtener"
      BY <1>1, <1>3, <2>5 DEF JournalObtener, LocalesJournal
    <3> QED BY <1>3, <3>1 DEF ArmaLista, EnPaginas
  <2>6. ASSUME NEW rs, Anotar(h, rs) PROVE ~j[h].ajeno
    <3>1. j'[h] = [j[h] EXCEPT !.z = j[h].z + 1, !.pagina = 0, !.lista = j[h].lista \o rs]
      BY <1>1, <2>6, AnotarLista
    <3> QED BY <1>1, <1>3, <3>1 DEF LocalesJournal
  <2>7. CASE pc[h] = "jcopiar" /\ Anotar(h, <<>>)
    <3>1. MismaLista
      BY <1>1, <2>6, <2>7, AnotarLista
    <3> QED BY <1>3, <2>7, <3>1 DEF ArmaLista, EnPaginas
  <2>8. CASE JournalCopiar(h)
    <3>1. pc[h] = "jcopiar"
      BY <2>8 DEF JournalCopiar
    <3>2. PICK p \in paginas :
            Anotar(h, IF p.modificado = 1
                        THEN <<[t |-> p.path, k |-> memoria[p.direccion].key,
                                v |-> memoria[p.direccion].value]>>
                        ELSE <<>>)
      BY <2>8 DEF JournalCopiar, PaginasDe
    <3>3. CASE p.modificado = 1
      <4> DEFINE e == [t |-> p.path, k |-> memoria[p.direccion].key,
                       v |-> memoria[p.direccion].value]
      <4>1. e \in [t : Tablas, k : Claves, v : Valores]
        BY <1>1 DEF Coherentes, TPagina
      <4>2. Anotar(h, <<e>>)
        BY <3>2, <3>3
      <4>3. UNCHANGED cache
        BY <4>2 DEF Anotar
      <4> HIDE DEF e
      <4>4. j'[h].lista = Append(j[h].lista, e) /\ ~j[h].ajeno
        BY <1>1, <2>6, <4>1, <4>2, AnotarLista
      <4> QED BY <1>3, <3>1, <3>3, <4>3, <4>4 DEF e
    <3>4. CASE p.modificado # 1
      BY <2>7, <3>1, <3>2, <3>4
    <3> QED BY <3>3, <3>4
  <2>9. CASE JournalCopiarLiberada(h)
    <3>1. pc[h] = "jcopiar"
      BY <2>9 DEF JournalCopiarLiberada
    <3>2. ASSUME NEW r, j' = [j EXCEPT ![h].z = @ + 1, ![h].lista = Append(@, r),
                                       ![h].ajeno = TRUE]
          PROVE  FALSE
      BY <1>1, <1>3, <3>2 DEF LocalesJournal
    <3> QED BY <2>7, <2>9, <3>1, <3>2 DEF JournalCopiarLiberada
  <2>10. ~JournalColgado(h)
    BY ConstantesValidas DEF JournalColgado, InvMuerte, InvCaida, EnPaginas
  <2>11. CASE JournalEnviar(h)
    <3>1. pc[h] = "jenviar" /\ (j[h].lista = <<>> => pc'[h] = "jvaciar")
      BY <1>1, <2>11 DEF JournalEnviar, Ir
    <3>2. j[h].lista # <<>>
      BY <1>3, <3>1 DEF ArmaLista, EnPaginas
    <3>3. j' = [j EXCEPT ![h].lista = Tail(@)]
      BY <2>11, <3>2 DEF JournalEnviar
    <3>4. j'[h].lista = Tail(j[h].lista) /\ j'[h].ajeno = j[h].ajeno
      BY <1>1, <3>3 DEF LocalesJournal
    <3> QED BY <1>3, <3>1, <3>2, <3>4
  <2>12. ~(Vaciar(h) \/ JournalAvisar(h) \/ JournalBajar(h))
    BY <1>1, <1>3 DEF Vaciar, JournalAvisar, JournalBajar, TerminarJournal, Contestar, Ir,
       ArmaLista, EnPaginas
  <2> QED BY <2>1, <2>2, <2>3, <2>4, <2>5, <2>8, <2>9, <2>10, <2>11, <2>12 DEF Journal
<1> QED BY <1>2, <1>3

LEMMA PasoPorEnviar ==
  ASSUME SinDrop, UnSoloJournal, InvCoherencia, [Next]_vars
  PROVE  PorEnviar'
<1>1. InvMuerte /\ InvLRU /\ InvMuerte'
  BY PasoMuerte DEF InvCoherencia, InvMuerte
<1>2. CASE Tic \/ Reiniciar \/ UNCHANGED vars
  BY <1>2 DEF Tic, Reiniciar, vars, cache, InvCoherencia, PorEnviar, Sucia
<1>3. CASE \E m : Caer(m)
  BY <1>3 DEF Caer, PorEnviar, ArmaLista, EnPaginas
<1>4. ASSUME NEW h \in Hilos, Paso(h), ~(\E m : Caer(m))
      PROVE  PorEnviar'
  <2>1. caida' = "no"
    BY <1>4, PasoVivo DEF Paso
  <2>3. ASSUME NEW g \in Hilos, pc'[g] \in ArmaLista, ~j'[g].ajeno,
               NEW n \in 1..Len(j'[g].lista)
        PROVE  \E p \in paginas' : /\ p.modificado = 1 /\ p.path = j'[g].lista[n].t
                                   /\ memoria'[p.direccion].key = j'[g].lista[n].k
    <3>1. ~Vaciar(h)
      <4>1. SUFFICES ASSUME Vaciar(h) PROVE FALSE
        OBVIOUS
      <4>2. g \in Periodico
        BY <1>1, <2>3 DEF InvMuerte, InvCaida, EnJournal, ArmaLista
      <4>3. h \in Periodico
        BY <1>1, <4>1, SoloPeriodico DEF Journal
      <4>4. pc'[h] = "javisar"
        BY <1>1, <4>1, TiposMuerte DEF Vaciar, Ir
      <4> QED BY <2>3, <4>2, <4>3, <4>4 DEF UnSoloJournal, ArmaLista, EnPaginas
    <3>2. ASSUME NEW t, NEW k, Sucia(t, k)
          PROVE  \E p \in paginas' : /\ p.modificado = 1 /\ p.path = t
                                     /\ memoria'[p.direccion].key = k
      <4>1. Sucia(t, k)'
        BY <1>1, <1>4, <2>1, <3>1, <3>2, SigueSucia
      <4> QED BY <4>1 DEF Sucia
    <3>3. j[g].lista \in Seq([t : Tablas, k : Claves, v : Valores])
      BY <1>1, TiposMuerte DEF LocalesJournal
    <3>4. pc[g] \in ArmaLista /\ ~j[g].ajeno =>
            \A m \in 1..Len(j[g].lista) : Sucia(j[g].lista[m].t, j[g].lista[m].k)
      BY DEF InvCoherencia, PorEnviar
    <3>5. CASE pc[g] \in ArmaLista /\ ~j[g].ajeno /\ j'[g].lista = j[g].lista
      BY <2>3, <3>2, <3>4, <3>5
    <3>6. CASE j'[g].lista = <<>>
      BY <2>3, <3>6
    <3>7. CASE /\ pc[g] = "jcopiar" /\ ~j[g].ajeno /\ UNCHANGED cache
               /\ \E p \in paginas :
                    LET r == memoria[p.direccion] IN
                    /\ p.modificado = 1
                    /\ j'[g].lista = Append(j[g].lista,
                         [t |-> p.path, k |-> r.key, v |-> r.value])
      <4>1. PICK p \in paginas :
              /\ p.modificado = 1
              /\ j'[g].lista = Append(j[g].lista,
                   [t |-> p.path, k |-> memoria[p.direccion].key, v |-> memoria[p.direccion].value])
        BY <3>7
      <4>2. PICK e : e = [t |-> p.path, k |-> memoria[p.direccion].key, v |-> memoria[p.direccion].value]
        OBVIOUS
      <4>3. e.t = p.path /\ e.k = memoria[p.direccion].key
        BY <4>2
      <4>5. Sucia(e.t, e.k)
        BY <4>1, <4>3 DEF Sucia
      <4>6. e \in [t : Tablas, k : Claves, v : Valores]
        BY <1>1, <3>7, <4>2, TiposMuerte DEF Coherentes, TPagina
      <4>7. /\ Len(j'[g].lista) = Len(j[g].lista) + 1 /\ Len(j[g].lista) \in Nat
            /\ \A m \in 1..Len(j[g].lista) : j'[g].lista[m] = j[g].lista[m]
            /\ j'[g].lista[Len(j[g].lista)+1] = e
        BY <3>3, <4>1, <4>2, <4>6, AppendProperties, LenProperties
      <4>8. n \in 1..Len(j[g].lista) \/ n = Len(j[g].lista)+1
        BY <2>3, <4>7
      <4>9. pc[g] \in ArmaLista
        BY <3>7 DEF ArmaLista, EnPaginas
      <4> QED BY <3>2, <3>4, <3>7, <4>5, <4>7, <4>8, <4>9
    <3>8. CASE /\ pc[g] = "jenviar" /\ ~j[g].ajeno /\ j[g].lista # <<>>
               /\ j'[g].lista = Tail(j[g].lista)
      <4>1. /\ Len(Tail(j[g].lista)) = Len(j[g].lista) - 1 /\ Len(j[g].lista) \in Nat
            /\ \A m \in 1..Len(j[g].lista)-1 : Tail(j[g].lista)[m] = j[g].lista[m+1]
        BY <3>3, <3>8, HeadTailProperties, LenProperties
      <4>2. n+1 \in 1..Len(j[g].lista) /\ j'[g].lista[n] = j[g].lista[n+1]
        BY <2>3, <3>8, <4>1
      <4>3. PICK e : e = j[g].lista[n+1]
        OBVIOUS
      <4>4. Sucia(e.t, e.k)
        BY <3>4, <3>8, <4>2, <4>3 DEF ArmaLista
      <4>5. j'[g].lista[n].t = e.t /\ j'[g].lista[n].k = e.k
        BY <4>2, <4>3
      <4> QED BY <3>2, <4>4, <4>5
    <3>9. CASE Journal(h)
      BY <1>1, <1>4, <2>3, <3>5, <3>6, <3>7, <3>8, <3>9, JournalListas
    <3>10. CASE ~Journal(h)
      <4>1. j'[g].lista = j[g].lista /\ pc[g] = pc'[g] /\ ~j[g].ajeno
        <5>1. ArmaLista \subseteq EnJournal
          BY DEF ArmaLista, EnJournal
        <5> QED BY <1>1, <1>4, <2>3, <3>10, <5>1, AtenderListas DEF Paso
      <4> QED BY <2>3, <3>5, <4>1
    <3> QED BY <3>9, <3>10
  <2> QED BY <2>3 DEF PorEnviar, Sucia
<1> QED BY <1>2, <1>3, <1>4 DEF Next

LEMMA InitCoherencia == Init => InvCoherencia
BY InitMuerte DEF Init, InvCoherencia, Coherencia, Consistentes, PorEnviar, ArmaLista, EnPaginas

\* "bit en 0 porque el dato es consistente": with no DROP and procesoJournal
\* alone journaling, a page with modificado 0 holds what the file system holds,
\* even while a journal is sending records that have been overwritten since,
\* unless that journal has read a page which an eviction freed under it.
THEOREM BitConsistente == SinDrop /\ UnSoloJournal => (Spec => []Coherencia)
<1>1. InvCoherencia => Coherencia
  BY DEF InvCoherencia
<1>2. ASSUME SinDrop, UnSoloJournal, InvCoherencia, [Next]_vars PROVE InvCoherencia'
  <2>1. InvMuerte'
    BY <1>2, PasoMuerte DEF InvCoherencia
  <2>2. Coherencia'
    BY <1>2, <2>1, PasoDeCoherencia
  <2> QED BY <1>2, <2>1, <2>2, PasoPorEnviar DEF InvCoherencia
<1>3. CASE SinDrop /\ UnSoloJournal
  <2>1. InvCoherencia /\ [Next]_vars => InvCoherencia'
    BY <1>2, <1>3
  <2> QED BY InitCoherencia, <1>1, <2>1, PTL DEF Spec
<1> QED BY <1>3

-----------------------------------------------------------------------------
(* What a journal's wipe may lose, when nothing is read. *)

\* From the first look at the segments to the wipe.
Barriendo == {"jsegmento", "jtomar", "jenviar", "jvaciar"} \cup EnPaginas

\* The pages of its segment before a page.
Anteriores(p) == {q \in PaginasDe(p.path) : q.numeroPagina < p.numeroPagina}

\* The journal has gone past the page.
Vista(h, p) ==
  \/ pc[h] \in {"jenviar", "jvaciar"}
  \/ \E n \in 1..j[h].i : segmentos[n] = p.path
  \/ pc[h] \in EnPaginas /\ p.path = j[h].seg /\ Cardinality(Anteriores(p)) < j[h].z

\* A list says nothing else of a key; and says it.
Fiel(lista, t, k, v) ==
  \A n \in 1..Len(lista) : lista[n].t = t /\ lista[n].k = k => lista[n].v = v
Tiene(lista, t, k, v) ==
  \E n \in 1..Len(lista) : lista[n].t = t /\ lista[n].k = k /\ lista[n].v = v

EnDisco(t, k, v) == fs[t][k] # Nulo /\ fs[t][k].value = v

\* Where a journal is in the list of segments, and in the pages of one.
Recorrido(h) ==
  /\ j[h].inicio <= reloj
  /\ pc[h] = "jsegmento" => j[h].i <= Len(segmentos)
  /\ pc[h] = "jtomar" => j[h].i < Len(segmentos)
  /\ pc[h] \in EnPaginas => j[h].i < Len(segmentos) /\ j[h].seg = segmentos[j[h].i + 1]
  /\ pc[h] = "jcopiar" =>
       \E p \in paginas : /\ p.path = j[h].seg /\ p.numeroPagina = j[h].pagina
                          /\ Cardinality(Anteriores(p)) = j[h].z
  /\ pc[h] = "jvaciar" => j[h].lista = <<>>

\* A record older than the journal is copied once seen, and stored once sent.
Copiada(h, p) ==
  LET r == memoria[p.direccion] IN
  r.timestamp < j[h].inicio =>
    /\ Fiel(j[h].lista, p.path, r.key, r.value)
    /\ Vista(h, p) => \/ Tiene(j[h].lista, p.path, r.key, r.value)
                      \/ EnDisco(p.path, r.key, r.value)

Barrido(h) == pc[h] \in Barriendo => Recorrido(h) /\ \A p \in paginas : Copiada(h, p)

InvPerdida == InvCoherencia /\ \A h \in Hilos : Barrido(h)

LEMMA PerdidaSucias ==
  ASSUME SoloEscribe, InvMuerte
  PROVE  TodasSucias /\ \A h \in Hilos : NadaSuelto(h)
  BY DEF SoloEscribe, InvMuerte, InvCaida

\* What an append and a removal do to a journal's list.
LEMMA ListaCrece ==
  ASSUME NEW S, NEW lista \in Seq(S), NEW e \in S, NEW t, NEW k, NEW v
  PROVE  /\ Fiel(Append(lista, e), t, k, v) <=>
              Fiel(lista, t, k, v) /\ (e.t = t /\ e.k = k => e.v = v)
         /\ Tiene(Append(lista, e), t, k, v) <=>
              Tiene(lista, t, k, v) \/ (e.t = t /\ e.k = k /\ e.v = v)
<1>1. /\ Len(Append(lista, e)) = Len(lista) + 1 /\ Len(lista) \in Nat
      /\ \A n \in 1..Len(lista) : Append(lista, e)[n] = lista[n]
      /\ Append(lista, e)[Len(lista) + 1] = e
  BY AppendProperties, LenProperties
<1>2. \A n \in 1..Len(lista) + 1 : n \in 1..Len(lista) \/ n = Len(lista) + 1
  BY <1>1
<1>3. Len(lista) + 1 \in 1..Len(lista) + 1 /\ 1..Len(lista) \subseteq 1..Len(lista) + 1
  BY <1>1
<1> QED BY <1>1, <1>2, <1>3, ZenonT(60) DEF Fiel, Tiene

LEMMA ListaMengua ==
  ASSUME NEW S, NEW lista \in Seq(S), lista # <<>>, NEW t, NEW k, NEW v
  PROVE  /\ Fiel(lista, t, k, v) <=>
              /\ Fiel(Tail(lista), t, k, v)
              /\ Head(lista).t = t /\ Head(lista).k = k => Head(lista).v = v
         /\ Tiene(lista, t, k, v) <=>
              \/ Tiene(Tail(lista), t, k, v)
              \/ Head(lista).t = t /\ Head(lista).k = k /\ Head(lista).v = v
<1>1. /\ Len(lista) \in Nat \ {0} /\ Len(Tail(lista)) = Len(lista) - 1
      /\ \A n \in 1..Len(lista) - 1 : Tail(lista)[n] = lista[n + 1]
      /\ Head(lista) = lista[1]
  OBVIOUS
<1>2. \A n \in 1..Len(lista) : n = 1 \/ (n - 1 \in 1..Len(lista) - 1 /\ n = (n - 1) + 1)
  BY <1>1
<1>3. 1 \in 1..Len(lista) /\ \A n \in 1..Len(lista) - 1 : n + 1 \in 1..Len(lista)
  BY <1>1
<1>4. \A n \in 1..Len(lista) :
        lista[n] = Head(lista)
        \/ (n - 1 \in 1..Len(Tail(lista)) /\ lista[n] = Tail(lista)[n - 1])
  BY <1>1, <1>2
<1>5. \A n \in 1..Len(Tail(lista)) : n + 1 \in 1..Len(lista) /\ Tail(lista)[n] = lista[n + 1]
  BY <1>1, <1>3
<1> QED BY <1>1, <1>3, <1>4, <1>5, ZenonT(60) DEF Fiel, Tiene

\* A step that is not a journal's leaves every journal where it is.
LEMMA AtenderBarriendo ==
  ASSUME SoloEscribe, InvMuerte, NEW h \in Hilos, ~(\E m : Caer(m)), NEW g \in Hilos,
         \/ Recibir(h) \/ RecibirOtro(h) \/ Cerrar(h) \/ Despertar(h)
         \/ Atender(h),
         pc'[g] \in Barriendo
  PROVE  pc'[g] = pc[g] /\ j'[g] = j[g]
<1>1. pc \in [Hilos -> Lugares] /\ j \in [Hilos -> LocalesJournal] /\ SinDrop
  BY TiposMuerte DEF SoloEscribe, SinDrop
<1>2. pc'[g] = pc[g]
  <2>1. Barriendo \subseteq EnJournal
    BY DEF Barriendo, EnJournal
  <2> QED BY <1>1, <2>1, AtenderListas
<1>3. CASE RecibirOtro(h)
  <2>1. g # h
    BY <1>1, <1>2, <1>3 DEF RecibirOtro, Barriendo, EnPaginas
  <2> QED BY <1>1, <1>2, <1>3, <2>1 DEF RecibirOtro
<1>4. CASE Recibir(h) \/ Cerrar(h) \/ Despertar(h)
  BY <1>2, <1>4 DEF Recibir, Cerrar, Despertar
<1>5. CASE Atender(h)
  <2>1. UNCHANGED j
    BY <1>5, PerdidaSucias, AtenderEscribe DEF InvMuerte, InvCaida
  <2> QED BY <1>2, <2>1
<1> QED BY <1>3, <1>4, <1>5

\* What a request writes is no older than a journal that is under way.
LEMMA EscribeBarrido ==
  ASSUME InvCoherencia, paginas' \subseteq TPagina, NEW g \in Hilos, Barrido(g),
         Escribe, UNCHANGED <<fs, reloj>>, pc'[g] = pc[g], j'[g] = j[g]
  PROVE  Barrido(g)'
<1> SUFFICES ASSUME pc[g] \in Barriendo
             PROVE  Recorrido(g)' /\ \A p \in paginas' : Copiada(g, p)'
  BY DEF Barrido
<1>1. /\ segmentos \in Seq(Tablas) /\ j[g] \in LocalesJournal /\ reloj \in Nat
      /\ paginas \subseteq TPagina
  BY TiposMuerte DEF InvCoherencia, InvCache, Coherentes
<1>2. Len(segmentos') >= Len(segmentos) /\ \A n \in 1..Len(segmentos) : segmentos'[n] = segmentos[n]
  BY <1>1, AppendProperties, LenProperties DEF Escribe
<1>3. Recorrido(g) /\ \A p \in paginas : Copiada(g, p)
  BY DEF Barrido
<1>7. \A p \in paginas : Anteriores(p)' = Anteriores(p)
  <2>1. SUFFICES ASSUME NEW p \in paginas, NEW q \in paginas' \ paginas, q.path = p.path,
                        q.numeroPagina < p.numeroPagina
                 PROVE  FALSE
    BY DEF Anteriores, PaginasDe, Escribe
  <2>2. p.numeroPagina < q.numeroPagina /\ p.numeroPagina \in Nat /\ q.numeroPagina \in Nat
    BY <1>1, <2>1 DEF Escribe, TPagina
  <2> QED BY <2>1, <2>2
<1>4. Recorrido(g)'
  <2>1. /\ j[g].i \in Nat /\ Len(segmentos) \in Nat /\ Len(segmentos') \in Nat
        /\ j[g].i < Len(segmentos) => j[g].i + 1 \in 1..Len(segmentos)
    BY <1>1, AppendProperties, LenProperties DEF LocalesJournal, Escribe
  <2>2. pc'[g] = "jcopiar" =>
          \E p \in paginas' : /\ p.path = j'[g].seg /\ p.numeroPagina = j'[g].pagina
                              /\ Cardinality(Anteriores(p)') = j'[g].z
    <3>1. SUFFICES ASSUME pc[g] = "jcopiar"
                   PROVE  \E p \in paginas' : /\ p.path = j[g].seg /\ p.numeroPagina = j[g].pagina
                                              /\ Cardinality(Anteriores(p)') = j[g].z
      OBVIOUS
    <3>2. PICK p \in paginas : /\ p.path = j[g].seg /\ p.numeroPagina = j[g].pagina
                               /\ Cardinality(Anteriores(p)) = j[g].z
      BY <1>3, <3>1 DEF Recorrido
    <3>3. p \in paginas' /\ Anteriores(p)' = Anteriores(p)
      BY <1>7 DEF Escribe
    <3> QED BY <3>2, <3>3
  <2> QED BY <1>2, <1>3, <2>1, <2>2 DEF Recorrido
<1>5. PICK m \in Marcos :
        /\ memoria'[m].timestamp = reloj
        /\ \A p \in paginas' : p.direccion # m =>
             p \in paginas /\ memoria'[p.direccion] = memoria[p.direccion]
  BY DEF Escribe
<1>6. ASSUME NEW p \in paginas', memoria'[p.direccion].timestamp < j[g].inicio
      PROVE  p \in paginas /\ memoria'[p.direccion] = memoria[p.direccion]
  BY <1>1, <1>3, <1>5, <1>6 DEF Recorrido, LocalesJournal
<1>8. ASSUME NEW p \in paginas', memoria'[p.direccion].timestamp < j[g].inicio, Vista(g, p)'
      PROVE  Vista(g, p)
  <2>1. CASE \E n \in 1..j[g].i : segmentos'[n] = p.path
             /\ pc[g] \in {"jsegmento", "jtomar"} \cup EnPaginas
    <3>1. PICK n \in 1..j[g].i : segmentos'[n] = p.path
      BY <2>1
    <3>2. n \in 1..Len(segmentos)
      BY <1>1, <1>3, <2>1 DEF Recorrido, LocalesJournal
    <3> QED BY <1>2, <3>1, <3>2 DEF Vista
  <2>2. CASE pc[g] \in EnPaginas /\ p.path = j[g].seg /\ Cardinality(Anteriores(p)') < j[g].z
    BY <1>6, <1>7, <1>8, <2>2 DEF Vista
  <2> QED BY <1>8, <2>1, <2>2 DEF Vista, Barriendo
<1>9. ASSUME NEW p \in paginas' PROVE Copiada(g, p)'
  BY <1>3, <1>6, <1>8 DEF Copiada, EnDisco
<1> QED BY <1>4, <1>9

\* Position z of a segment's list is the only page that z pages come before.
LEMMA UnaPorPosicion ==
  ASSUME InvCache, NEW t \in Tablas, NEW p \in PaginasDe(t), NEW q \in PaginasDe(t),
         Cardinality(Anteriores(p)) = Cardinality(Anteriores(q))
  PROVE  p = q
<1>1. /\ IsFiniteSet(PaginasDe(t)) /\ p \in TPagina /\ q \in TPagina /\ p.path = t /\ q.path = t
      /\ p # q => p.numeroPagina # q.numeroPagina
  <2>1. IsFiniteSet(paginas) /\ PaginasDe(t) \subseteq paginas
    BY PaginasFinitas DEF InvCache, PaginasDe
  <2> QED BY <2>1, FS_Subset DEF InvCache, Coherentes, PaginasDe
<1>2. ASSUME NEW x \in PaginasDe(t), NEW y \in PaginasDe(t), x.path = t, y.path = t,
             x \in TPagina, y \in TPagina, x.numeroPagina < y.numeroPagina
      PROVE  Cardinality(Anteriores(x)) # Cardinality(Anteriores(y))
  <2>1. \A w \in PaginasDe(t) : w \in TPagina
    BY DEF PaginasDe, InvCache, Coherentes
  <2>2. Anteriores(x) \subseteq Anteriores(y) /\ x \in Anteriores(y) /\ x \notin Anteriores(x)
    BY <1>2, <2>1 DEF Anteriores, TPagina
  <2>3. IsFiniteSet(Anteriores(y))
    <3>1. Anteriores(y) \subseteq PaginasDe(t)
      BY <1>2 DEF Anteriores
    <3> QED BY <1>1, <3>1, FS_Subset
  <2> QED BY <2>2, <2>3, FS_Subset
<1> QED BY <1>1, <1>2 DEF TPagina

\* In a list of n pages there is a page in each position.
LEMMA EnSuPosicion ==
  ASSUME InvCache, NEW t \in Tablas
  PROVE  /\ Cardinality(PaginasDe(t)) \in Nat
         /\ \A p \in PaginasDe(t) :
              Cardinality(Anteriores(p)) \in Nat
              /\ Cardinality(Anteriores(p)) < Cardinality(PaginasDe(t))
         /\ \A z \in Nat : z < Cardinality(PaginasDe(t)) =>
              /\ PaginaEn(t, z) \in PaginasDe(t)
              /\ Cardinality(Anteriores(PaginaEn(t, z))) = z
              /\ \A p \in PaginasDe(t) : Cardinality(Anteriores(p)) = z => p = PaginaEn(t, z)
<1>1. IsFiniteSet(PaginasDe(t))
  <2>1. IsFiniteSet(paginas) /\ PaginasDe(t) \subseteq paginas
    BY PaginasFinitas DEF InvCache, PaginasDe
  <2> QED BY <2>1, FS_Subset
<1>2. Cardinality(PaginasDe(t)) \in Nat
  BY <1>1, FS_CardinalityType
<1>3. ASSUME NEW p \in PaginasDe(t)
      PROVE  /\ Cardinality(Anteriores(p)) \in Nat
             /\ Cardinality(Anteriores(p)) < Cardinality(PaginasDe(t))
  <2>1. p.path = t /\ p \in TPagina
    BY DEF PaginasDe, InvCache, Coherentes
  <2>2. Anteriores(p) \subseteq PaginasDe(t) /\ p \notin Anteriores(p)
    BY <2>1 DEF Anteriores, TPagina
  <2>3. IsFiniteSet(Anteriores(p))
    BY <1>1, <2>2, FS_Subset
  <2>4. Anteriores(p) # PaginasDe(t)
    BY <2>2
  <2>5. Cardinality(Anteriores(p)) \in Nat
    BY <2>3, FS_CardinalityType
  <2> QED BY <1>1, <1>2, <2>2, <2>4, <2>5, FS_Subset
<1>4. ASSUME NEW z \in Nat, z < Cardinality(PaginasDe(t))
      PROVE  /\ PaginaEn(t, z) \in PaginasDe(t)
             /\ Cardinality(Anteriores(PaginaEn(t, z))) = z
             /\ \A p \in PaginasDe(t) : Cardinality(Anteriores(p)) = z => p = PaginaEn(t, z)
  <2>1. PaginaEn(t, z) \in PaginasDe(t)
    BY <1>4, PaginaEnLista
  <2>2. PICK x \in PaginasDe(t) : x = PaginaEn(t, z)
    BY <2>1
  <2>3. Cardinality(Anteriores(x)) = z
    <3>1. \E p \in PaginasDe(t) :
            Cardinality({q \in PaginasDe(t) : q.numeroPagina < p.numeroPagina}) = z
      BY <1>4, PosicionOcupada
    <3>2. Cardinality({q \in PaginasDe(t) : q.numeroPagina < x.numeroPagina}) = z
      BY <2>2, <3>1 DEF PaginaEn
    <3>3. Anteriores(x) = {q \in PaginasDe(t) : q.numeroPagina < x.numeroPagina}
      BY DEF Anteriores, PaginasDe
    <3> QED BY <3>2, <3>3
  <2>4. \A p \in PaginasDe(t) : Cardinality(Anteriores(p)) = z => p = x
    BY <2>3, UnaPorPosicion
  <2> QED BY <2>1, <2>2, <2>3, <2>4
<1> QED BY <1>2, <1>3, <1>4

\* A step of the one journal there is keeps what it has copied and stored.
LEMMA JournalBarrido ==
  ASSUME ~FSCae, SoloEscribe, UnSoloJournal, InvPerdida, NEW h \in Hilos, Journal(h),
         ~(\E m : Caer(m)), NEW g \in Hilos
  PROVE  Barrido(g)'
<1>1. /\ pc \in [Hilos -> Lugares]
      /\ j \in [Hilos -> LocalesJournal] /\ InvCache /\ reloj \in Nat
      /\ segmentos \in Seq(Tablas) /\ Len(segmentos) \in Nat
      /\ \A p \in paginas : p.path \in ToSet(segmentos) /\ p.path \in Tablas
      /\ fs \in [Tablas -> [Claves -> {Nulo} \cup [timestamp : Nat \ {0}, value : Valores]]]
  BY TiposMuerte, LenProperties DEF InvPerdida, InvCoherencia, Coherentes, TPagina, InvCache
<1>2. j[h] \in LocalesJournal /\ InvMuerte /\ SinDrop /\ TodasSucias /\ NadaSuelto(h)
  BY <1>1, PerdidaSucias DEF InvPerdida, InvCoherencia, SoloEscribe, SinDrop
<1>3. h \in Periodico /\ \A f \in Periodico : f = h
  BY <1>2, SoloPeriodico DEF UnSoloJournal
<1>4. \A p, q \in paginas :
        p.path = q.path /\ memoria[p.direccion].key = memoria[q.direccion].key => p = q
  BY <1>1 DEF InvCache, Coherentes
<1>5. CASE g # h
  <2>1. pc'[g] = pc[g]
    BY <1>1, <1>5, JournalOtros
  <2>2. pc[g] \notin EnJournal
    BY <1>2, <1>3, <1>5 DEF InvMuerte, InvCaida
  <2>3. Barriendo \subseteq EnJournal
    BY DEF Barriendo, EnJournal
  <2> QED BY <2>1, <2>2, <2>3 DEF Barrido
<1>6. CASE g = h
  <2>0. Barrido(h)
    BY DEF InvPerdida
  <2>1. CASE JournalIniciar(h)
    <3>1. /\ pc'[h] = "jsegmento" /\ j'[h].i = 0 /\ j'[h].inicio = reloj /\ j'[h].lista = <<>>
          /\ UNCHANGED <<segmentos, reloj>>
      BY <1>1, <2>1 DEF JournalIniciar, JournalVacio, Ir, cache
    <3>2. Recorrido(h)'
      BY <1>1, <3>1 DEF Recorrido, EnPaginas
    <3>3. ASSUME NEW p \in paginas' PROVE Copiada(h, p)'
      <4>1. \A t, k, v : Fiel(j'[h].lista, t, k, v)
        BY <3>1 DEF Fiel
      <4>2. ~Vista(h, p)'
        BY <3>1 DEF Vista, EnPaginas
      <4> QED BY <4>1, <4>2 DEF Copiada
    <3> QED BY <1>6, <3>2, <3>3 DEF Barrido
  <2>2. CASE \/ JournalSegmento(h) \/ JournalTomar(h) \/ JournalPagina(h) \/ JournalObtener(h)
             \/ JournalCopiar(h) \/ JournalCopiarLiberada(h) \/ JournalColgado(h)
             \/ JournalEnviar(h)
    <3>1. /\ pc[h] \in Barriendo /\ UNCHANGED <<segmentos, paginas, memoria, reloj>>
          /\ Recorrido(h) /\ \A p \in paginas : Copiada(h, p)
          /\ \A p : Anteriores(p)' = Anteriores(p)
      <4>1. UNCHANGED <<segmentos, paginas, memoria, reloj>>
        BY <2>2 DEF JournalSegmento, JournalTomar, JournalPagina, JournalObtener, JournalCopiar,
           JournalCopiarLiberada, Anotar, JournalColgado, JournalEnviar, cache
      <4>2. pc[h] \in Barriendo
        BY <2>2 DEF JournalSegmento, JournalTomar, JournalPagina, JournalObtener, JournalCopiar,
           JournalCopiarLiberada, JournalColgado, JournalEnviar, Barriendo, EnPaginas
      <4>3. \A p : Anteriores(p)' = Anteriores(p)
        BY <4>1 DEF Anteriores, PaginasDe
      <4> QED BY <2>0, <4>1, <4>2, <4>3 DEF Barrido
    <3>7. ASSUME UNCHANGED fs, Recorrido(h)', j'[h].lista = j[h].lista,
                 j'[h].inicio = j[h].inicio,
                 \A p \in paginas : Vista(h, p)' => Vista(h, p)
          PROVE  Barrido(g)'
      <4>1. ASSUME NEW p \in paginas PROVE Copiada(h, p)'
        BY <3>1, <3>7 DEF Copiada, EnDisco
      <4> QED BY <1>6, <3>1, <3>7, <4>1 DEF Barrido
    <3>2. CASE JournalSegmento(h)
      <4>1. /\ UNCHANGED fs /\ j'[h].lista = j[h].lista /\ j'[h].inicio = j[h].inicio
            /\ j'[h].i = j[h].i /\ pc[h] = "jsegmento"
            /\ \/ j[h].i < Len(segmentos) /\ pc'[h] = "jtomar"
               \/ j[h].i = Len(segmentos) /\ pc'[h] = "jenviar"
        BY <1>1, <1>2, <3>1, <3>2 DEF JournalSegmento, Ir, LocalesJournal, Recorrido, sistema
      <4>2. Recorrido(h)'
        BY <3>1, <4>1 DEF Recorrido, EnPaginas
      <4>3. ASSUME NEW p \in paginas, Vista(h, p)' PROVE Vista(h, p)
        <5>1. CASE pc'[h] = "jtomar"
          BY <3>1, <4>1, <4>3, <5>1 DEF Vista, EnPaginas
        <5>2. CASE pc'[h] = "jenviar"
          <6>1. PICK n \in DOMAIN segmentos : segmentos[n] = p.path
            BY <1>1 DEF ToSet
          <6>2. n \in 1..j[h].i
            BY <1>1, <4>1, <5>2, <6>1
          <6> QED BY <6>1, <6>2 DEF Vista
        <5> QED BY <4>1, <5>1, <5>2
      <4> QED BY <3>7, <4>1, <4>2, <4>3
    <3>8. CASE JournalTomar(h)
      <4>1. j[h].i < Len(segmentos) /\ pc[h] = "jtomar" /\ UNCHANGED fs
        BY <1>2, <3>8 DEF JournalTomar, InvMuerte, InvCaida, sistema
      <4>2. PICK t : t = segmentos[j[h].i + 1]
        OBVIOUS
      <4>3. j' = [j EXCEPT ![h].seg = t, ![h].z = 0] /\ pc'[h] = "jpagina"
        BY <1>1, <3>8, <4>1, <4>2 DEF JournalTomar, Ir
      <4>4. /\ j'[h].lista = j[h].lista /\ j'[h].inicio = j[h].inicio /\ j'[h].i = j[h].i
            /\ j'[h].seg = t /\ j'[h].z = 0
        BY <1>1, <1>2, <4>3 DEF LocalesJournal
      <4>5. Recorrido(h)'
        BY <3>1, <4>1, <4>2, <4>3, <4>4 DEF Recorrido
      <4>6. ASSUME NEW p \in paginas, Vista(h, p)' PROVE Vista(h, p)
        <5>1. Cardinality(Anteriores(p)) \in Nat
          BY <1>1, EnSuPosicion DEF PaginasDe
        <5>2. ~(Cardinality(Anteriores(p)') < j'[h].z)
          BY <3>1, <4>4, <5>1
        <5> QED BY <3>1, <4>1, <4>3, <4>4, <4>6, <5>2 DEF Vista
      <4> QED BY <3>7, <4>1, <4>4, <4>5, <4>6
    <3>3. CASE JournalPagina(h)
      <4>1. /\ pc[h] = "jpagina" /\ UNCHANGED fs /\ j[h].i < Len(segmentos)
            /\ j[h].seg = segmentos[j[h].i + 1] /\ j[h].i \in Nat /\ j[h].z \in Nat
            /\ j[h].seg \in Tablas
        BY <1>1, <1>2, <3>1, <3>3 DEF JournalPagina, Recorrido, LocalesJournal, sistema,
           InvMuerte, InvCaida, EnPaginas
      <4>2. PICK seg : seg = j[h].seg
        OBVIOUS
      <4>3. CASE j[h].z < Cardinality(PaginasDe(seg))
        <5>1. UNCHANGED j /\ pc'[h] = "jobtener"
          BY <1>1, <3>3, <4>2, <4>3 DEF JournalPagina, Ir
        <5>2. Recorrido(h)'
          BY <3>1, <4>1, <5>1 DEF Recorrido
        <5>3. ASSUME NEW p \in paginas, Vista(h, p)' PROVE Vista(h, p)
          BY <3>1, <4>1, <5>1, <5>3 DEF Vista, EnPaginas
        <5> QED BY <3>7, <4>1, <5>1, <5>2, <5>3
      <4>4. CASE ~(j[h].z < Cardinality(PaginasDe(seg)))
        <5>1. /\ pc'[h] = "jsegmento" /\ j'[h].i = j[h].i + 1
              /\ j'[h].inicio = j[h].inicio /\ j'[h].lista = j[h].lista
          BY <1>1, <1>2, <3>3, <4>2, <4>4 DEF JournalPagina, Ir, LocalesJournal
        <5>2. Recorrido(h)'
          BY <1>1, <3>1, <4>1, <5>1 DEF Recorrido, EnPaginas
        <5>3. ASSUME NEW p \in paginas, Vista(h, p)' PROVE Vista(h, p)
          <6>1. PICK n \in 1..j[h].i + 1 : segmentos[n] = p.path
            BY <3>1, <5>1, <5>3 DEF Vista, EnPaginas
          <6>2. CASE n \in 1..j[h].i
            BY <6>1, <6>2 DEF Vista
          <6>3. CASE n = j[h].i + 1
            <7>1. p.path = seg /\ p \in PaginasDe(seg)
              BY <4>1, <4>2, <6>1, <6>3 DEF PaginasDe
            <7>2. /\ Cardinality(Anteriores(p)) \in Nat /\ Cardinality(PaginasDe(seg)) \in Nat
                  /\ Cardinality(Anteriores(p)) < Cardinality(PaginasDe(seg))
              BY <1>1, <4>1, <4>2, <7>1, EnSuPosicion
            <7> QED BY <4>1, <4>2, <4>4, <7>1, <7>2 DEF Vista, EnPaginas
          <6> QED BY <4>1, <6>1, <6>2, <6>3
        <5> QED BY <3>7, <4>1, <5>1, <5>2, <5>3
      <4> QED BY <4>3, <4>4
    <3>9. CASE JournalObtener(h)
      <4>1. /\ pc[h] = "jobtener" /\ UNCHANGED fs /\ j[h].i < Len(segmentos)
            /\ j[h].seg = segmentos[j[h].i + 1] /\ j[h].z \in Nat /\ j[h].seg \in Tablas
            /\ j[h].z < Cardinality(PaginasDe(j[h].seg))
        BY <1>1, <1>2, <3>1, <3>9 DEF JournalObtener, Recorrido, LocalesJournal, sistema,
           InvMuerte, InvCaida, EnPaginas, NadaSuelto
      <4>2. PICK x : x = PaginaEn(j[h].seg, j[h].z)
        OBVIOUS
      <4>3. x \in PaginasDe(j[h].seg) /\ Cardinality(Anteriores(x)) = j[h].z
        BY <1>1, <4>1, <4>2, EnSuPosicion
      <4>4. x \in paginas /\ x.path = j[h].seg
        BY <4>3 DEF PaginasDe
      <4>5. PICK n : n = x.numeroPagina
        OBVIOUS
      <4>6. ~(j[h].z >= Cardinality(PaginasDe(j[h].seg)))
        <5>1. Cardinality(PaginasDe(j[h].seg)) \in Nat
          BY <1>1, <4>1, EnSuPosicion
        <5> QED BY <4>1, <5>1
      <4>7. j' = [j EXCEPT ![h].pagina = n] /\ pc'[h] = "jcopiar"
        BY <1>1, <3>9, <4>2, <4>5, <4>6 DEF JournalObtener, Ir
      <4>8. /\ j'[h].lista = j[h].lista /\ j'[h].inicio = j[h].inicio /\ j'[h].i = j[h].i
            /\ j'[h].seg = j[h].seg /\ j'[h].z = j[h].z /\ j'[h].pagina = n
        BY <1>1, <1>2, <4>7 DEF LocalesJournal
      <4>9. Recorrido(h)'
        BY <3>1, <4>1, <4>3, <4>4, <4>5, <4>7, <4>8 DEF Recorrido
      <4>10. ASSUME NEW p \in paginas, Vista(h, p)' PROVE Vista(h, p)
        BY <3>1, <4>1, <4>7, <4>8, <4>10 DEF Vista, EnPaginas
      <4> QED BY <3>7, <4>1, <4>8, <4>9, <4>10
    <3>10. CASE JournalCopiar(h)
      <4>1. /\ pc[h] = "jcopiar" /\ j[h].i < Len(segmentos)
            /\ j[h].seg = segmentos[j[h].i + 1] /\ j[h].i \in Nat /\ j[h].z \in Nat
            /\ j[h].seg \in Tablas /\ j[h].lista \in Seq([t : Tablas, k : Claves, v : Valores])
        BY <1>1, <1>2, <3>1, <3>10 DEF JournalCopiar, Recorrido, LocalesJournal,
           InvMuerte, InvCaida, EnPaginas
      <4>2. PICK seg : seg = j[h].seg
        OBVIOUS
      <4>3. PICK x \in PaginasDe(seg) :
              /\ x.numeroPagina = j[h].pagina
              /\ Anotar(h, IF x.modificado = 1
                             THEN <<[t |-> x.path, k |-> memoria[x.direccion].key,
                                     v |-> memoria[x.direccion].value]>>
                             ELSE <<>>)
        BY <3>10, <4>2 DEF JournalCopiar
      <4>4. x \in paginas /\ x.path = seg /\ x.modificado = 1
        BY <1>2, <4>3 DEF PaginasDe, TodasSucias
      <4>5. Cardinality(Anteriores(x)) = j[h].z
        <5>1. PICK y \in paginas : /\ y.path = seg /\ y.numeroPagina = j[h].pagina
                                   /\ Cardinality(Anteriores(y)) = j[h].z
          BY <3>1, <4>1, <4>2 DEF Recorrido
        <5>2. y = x
          BY <1>1, <4>3, <4>4, <5>1 DEF InvCache, Coherentes
        <5> QED BY <5>1, <5>2
      <4>6. \A p \in PaginasDe(seg) : Cardinality(Anteriores(p)) = j[h].z => p = x
        BY <1>1, <4>1, <4>2, <4>3, <4>5, UnaPorPosicion
      <4>7. PICK e : e = [t |-> x.path, k |-> memoria[x.direccion].key,
                          v |-> memoria[x.direccion].value]
        OBVIOUS
      <4>8. e.t = seg /\ e.k = memoria[x.direccion].key /\ e.v = memoria[x.direccion].value
        BY <4>4, <4>7
      <4>9. e \in [t : Tablas, k : Claves, v : Valores]
        <5>1. memoria[x.direccion].key \in Claves /\ memoria[x.direccion].value \in Valores
          BY <1>1, <4>4 DEF InvCache, Coherentes, TPagina
        <5> QED BY <4>1, <4>2, <4>4, <4>7, <5>1
      <4>10. Anotar(h, <<e>>)
        BY <4>3, <4>4, <4>7
      <4>16. j'[h] = [j[h] EXCEPT !.z = j[h].z + 1, !.pagina = 0,
                                  !.lista = j[h].lista \o <<e>>]
        BY <1>1, <4>10, AnotarLista
      <4>17. j'[h].lista = Append(j[h].lista, e)
        BY <1>1, <4>9, <4>10, AnotarLista
      <4>11. pc'[h] = "jpagina" /\ UNCHANGED fs
        BY <1>1, <4>10 DEF Anotar, Ir, sistema
      <4>12. /\ j'[h].i = j[h].i /\ j'[h].seg = j[h].seg
             /\ j'[h].inicio = j[h].inicio /\ j'[h].z = j[h].z + 1
        BY <1>2, <4>16 DEF LocalesJournal
      <4>13. Recorrido(h)'
        BY <3>1, <4>1, <4>11, <4>12 DEF Recorrido
      <4>14. ASSUME NEW p \in paginas, Vista(h, p)' PROVE Vista(h, p) \/ p = x
        <5>1. CASE p.path = seg /\ Cardinality(Anteriores(p)) < j[h].z + 1
          <6>1. p \in PaginasDe(seg) /\ Cardinality(Anteriores(p)) \in Nat
            BY <1>1, <4>1, <4>2, <5>1, EnSuPosicion DEF PaginasDe
          <6> QED BY <4>1, <4>2, <4>6, <5>1, <6>1 DEF Vista, EnPaginas
        <5> QED BY <3>1, <4>1, <4>2, <4>11, <4>12, <4>14, <5>1 DEF Vista
      <4>15. ASSUME NEW p \in paginas PROVE Copiada(h, p)'
        <5>0. PICK t, k, v : /\ t = p.path
                             /\ k = memoria[p.direccion].key /\ v = memoria[p.direccion].value
          OBVIOUS
        <5>1. e.t = t /\ e.k = k => p = x
          BY <1>4, <4>4, <4>8, <5>0
        <5>2. p = x => e.t = t /\ e.k = k /\ e.v = v
          BY <4>4, <4>8, <5>0
        <5>3. /\ Fiel(j'[h].lista, t, k, v) <=>
                   Fiel(j[h].lista, t, k, v) /\ (e.t = t /\ e.k = k => e.v = v)
              /\ Tiene(j'[h].lista, t, k, v) <=>
                   Tiene(j[h].lista, t, k, v) \/ (e.t = t /\ e.k = k /\ e.v = v)
          <6>1. PICK S : S = [t : Tablas, k : Claves, v : Valores]
            OBVIOUS
          <6>2. j[h].lista \in Seq(S) /\ e \in S
            BY <4>1, <4>9, <6>1
          <6> QED BY <4>17, <6>2, ListaCrece
        <5>4. Copiada(h, p)
          BY <3>1
        <5>5. EnDisco(t, k, v)' <=> EnDisco(t, k, v)
          BY <3>1, <4>11 DEF EnDisco
        <5> QED BY <3>1, <4>12, <4>14, <5>0, <5>1, <5>2, <5>3, <5>4, <5>5 DEF Copiada
      <4> QED BY <1>6, <3>1, <4>13, <4>15 DEF Barrido
    <3>11. ~JournalCopiarLiberada(h)
      BY <1>2 DEF JournalCopiarLiberada, NadaSuelto
    <3>4. ~JournalColgado(h)
      BY <1>2, ConstantesValidas DEF JournalColgado, InvMuerte, InvCaida, EnPaginas
    <3>5. CASE JournalEnviar(h) /\ j[h].lista = <<>>
      <4>1. /\ pc[h] = "jenviar" /\ pc'[h] = "jvaciar" /\ UNCHANGED <<j, fs>>
        BY <1>1, <3>5 DEF JournalEnviar, Ir
      <4>2. Recorrido(h)'
        BY <3>1, <3>5, <4>1 DEF Recorrido, EnPaginas
      <4>3. ASSUME NEW p \in paginas PROVE Copiada(h, p)'
        BY <3>1, <4>1 DEF Copiada, EnDisco, Vista
      <4> QED BY <1>6, <3>1, <4>2, <4>3 DEF Barrido
    <3>6. CASE JournalEnviar(h) /\ j[h].lista # <<>>
      <4>1. PICK r : r = Head(j[h].lista)
        OBVIOUS
      <4>2. /\ pc[h] = "jenviar" /\ UNCHANGED pc
            /\ fs' = [fs EXCEPT ![r.t][r.k] = [timestamp |-> reloj, value |-> r.v]]
            /\ j' = [j EXCEPT ![h].lista = Tail(@)]
        BY <3>6, <4>1 DEF JournalEnviar, GuardarEnFS
      <4>3. /\ j'[h].lista = Tail(j[h].lista) /\ j'[h].inicio = j[h].inicio
        BY <1>1, <1>2, <4>2 DEF LocalesJournal
      <4>4. /\ j[h].lista \in Seq([t : Tablas, k : Claves, v : Valores])
            /\ r \in [t : Tablas, k : Claves, v : Valores]
        <5>1. PICK S : S = [t : Tablas, k : Claves, v : Valores]
          OBVIOUS
        <5>2. j[h].lista \in Seq(S)
          BY <1>2, <5>1 DEF LocalesJournal
        <5>3. r \in S
          BY <3>6, <4>1, <5>2
        <5> QED BY <5>1, <5>2, <5>3
      <4>5. Recorrido(h)'
        BY <3>1, <4>2, <4>3 DEF Recorrido, EnPaginas
      <4>6. ASSUME NEW p \in paginas PROVE Copiada(h, p)'
        <5>0. PICK t, k, v : /\ t = p.path
                             /\ k = memoria[p.direccion].key /\ v = memoria[p.direccion].value
          OBVIOUS
        <5>1. /\ Fiel(j[h].lista, t, k, v) <=>
                   Fiel(j'[h].lista, t, k, v) /\ (r.t = t /\ r.k = k => r.v = v)
              /\ Tiene(j[h].lista, t, k, v) <=>
                   Tiene(j'[h].lista, t, k, v) \/ (r.t = t /\ r.k = k /\ r.v = v)
          BY <3>6, <4>1, <4>3, <4>4, ListaMengua
        <5>2. t \in Tablas /\ k \in Claves
          BY <1>1, <5>0 DEF InvCache, Coherentes, TPagina
        <5>3. r.t = t /\ r.k = k /\ r.v = v => EnDisco(t, k, v)'
          <6>1. ASSUME r.t = t, r.k = k, r.v = v
                PROVE  fs'[t][k] = [timestamp |-> reloj, value |-> v]
            BY <1>1, <4>2, <5>2, <6>1
          <6>2. r.t = t /\ r.k = k /\ r.v = v => [timestamp |-> reloj, value |-> v] # Nulo
            BY <1>1, <4>4, NuloNoEsRegistro
          <6> QED BY <6>1, <6>2 DEF EnDisco
        <5>4. r.t # t \/ r.k # k => fs'[t][k] = fs[t][k]
          BY <1>1, <4>2, <4>4, <5>2
        <5>5. Copiada(h, p)
          BY <3>1
        <5>6. memoria[p.direccion].timestamp < j[h].inicio =>
                /\ Fiel(j[h].lista, t, k, v)
                /\ Tiene(j[h].lista, t, k, v) \/ EnDisco(t, k, v)
          BY <4>2, <5>0, <5>5 DEF Copiada, Vista
        <5>7. memoria[p.direccion].timestamp < j[h].inicio =>
                /\ Fiel(j'[h].lista, t, k, v)
                /\ Tiene(j'[h].lista, t, k, v) \/ EnDisco(t, k, v)'
          BY <5>1, <5>3, <5>4, <5>6 DEF EnDisco
        <5> QED BY <3>1, <4>3, <5>0, <5>7 DEF Copiada
      <4> QED BY <1>6, <3>1, <4>5, <4>6 DEF Barrido
    <3> QED BY <2>2, <3>2, <3>3, <3>4, <3>5, <3>6, <3>8, <3>9, <3>10, <3>11
  <2>3. CASE Vaciar(h) \/ JournalAvisar(h) \/ JournalBajar(h)
    <3>1. pc'[h] \notin Barriendo
      BY <1>1, <2>3 DEF Vaciar, JournalAvisar, JournalBajar, TerminarJournal, Contestar, Ir,
         Barriendo, EnPaginas
    <3> QED BY <1>6, <3>1 DEF Barrido
  <2> QED BY <2>1, <2>2, <2>3 DEF Journal
<1> QED BY <1>5, <1>6

LEMMA PasoPerdida ==
  ASSUME SoloEscribe, ~FSCae, UnSoloJournal, InvPerdida, [Next]_vars
  PROVE  InvPerdida'
<1>1. SinDrop
  BY DEF SoloEscribe, SinDrop
<1>2. InvCoherencia /\ InvCoherencia' /\ InvMuerte /\ InvLRU /\ NadieBorra /\ TodasSucias
  <2>1. InvMuerte' /\ InvMuerte /\ InvCoherencia
    BY <1>1, PasoMuerte DEF InvPerdida, InvCoherencia
  <2>2. Coherencia' /\ PorEnviar'
    BY <1>1, <2>1, PasoDeCoherencia, PasoPorEnviar
  <2> QED BY <2>1, <2>2, PerdidaSucias DEF InvCoherencia, InvMuerte, InvCaida
<1>3. ASSUME UNCHANGED <<cache, pc, j, fs>>, reloj' \in {reloj, reloj + 1}
      PROVE  \A g \in Hilos : Barrido(g)'
  <2>2. ASSUME NEW g \in Hilos PROVE Barrido(g)'
    <3>1. UNCHANGED <<segmentos, paginas, memoria>>
      BY <1>3 DEF cache
    <3>2. reloj \in Nat /\ j[g].inicio \in Nat
      BY <1>2, TiposMuerte DEF InvCoherencia, LocalesJournal
    <3>3. Recorrido(g) => Recorrido(g)'
      <4>1. \A p : Anteriores(p)' = Anteriores(p)
        BY <3>1 DEF Anteriores, PaginasDe
      <4> QED BY <1>3, <3>1, <3>2, <4>1 DEF Recorrido
    <3>4. ASSUME NEW p \in paginas, Copiada(g, p) PROVE Copiada(g, p)'
      <4>1. Vista(g, p)' <=> Vista(g, p)
        BY <1>3, <3>1 DEF Vista, Anteriores, PaginasDe
      <4> QED BY <1>3, <3>1, <3>4, <4>1 DEF Copiada, EnDisco
    <3> QED BY <1>3, <3>1, <3>3, <3>4 DEF InvPerdida, Barrido
  <2> QED BY <2>2
<1>4. CASE Tic \/ Reiniciar \/ UNCHANGED vars
  <2>1. reloj \in Nat
    BY <1>2, TiposMuerte DEF InvCoherencia
  <2> QED BY <1>2, <1>3, <1>4, <2>1 DEF Tic, Reiniciar, vars, sistema, InvPerdida
<1>5. CASE \E m : Caer(m)
  <2>2. \A g \in Hilos : pc'[g] = "inicio"
    BY <1>5 DEF Caer
  <2> QED BY <1>2, <2>2 DEF InvPerdida, Barrido, Barriendo, EnPaginas
<1>6. ASSUME NEW h \in Hilos, Paso(h), ~(\E m : Caer(m))
      PROVE  \A g \in Hilos : Barrido(g)'
  <2>1. CASE Journal(h)
    BY <1>6, <2>1, JournalBarrido
  <2>2. CASE \/ Recibir(h) \/ RecibirOtro(h) \/ Cerrar(h) \/ Despertar(h) \/ Atender(h)
    <3>1. (UNCHANGED <<segmentos, paginas, memoria>> \/ Escribe) /\ UNCHANGED <<fs, reloj>>
      <4>1. CASE Atender(h)
        BY <1>2, <4>1, AtenderEscribe
      <4>2. CASE Recibir(h) \/ RecibirOtro(h) \/ Cerrar(h) \/ Despertar(h)
        BY <4>2 DEF Recibir, RecibirOtro, Cerrar, Despertar, cache, sistema
      <4> QED BY <2>2, <4>1, <4>2
    <3>3. ASSUME NEW g \in Hilos PROVE Barrido(g)'
      <4>1. SUFFICES ASSUME pc'[g] \in Barriendo PROVE Barrido(g)'
        BY DEF Barrido
      <4>2. pc'[g] = pc[g] /\ j'[g] = j[g]
        BY <1>2, <1>6, <2>2, <4>1, AtenderBarriendo
      <4>3. CASE UNCHANGED <<segmentos, paginas, memoria>>
        <5>1. Recorrido(g) => Recorrido(g)'
          <6>1. \A p : Anteriores(p)' = Anteriores(p)
            BY <4>3 DEF Anteriores, PaginasDe
          <6> QED BY <3>1, <4>2, <4>3, <6>1 DEF Recorrido
        <5>2. ASSUME NEW p \in paginas, Copiada(g, p) PROVE Copiada(g, p)'
          <6>1. Vista(g, p)' <=> Vista(g, p)
            BY <4>2, <4>3 DEF Vista, Anteriores, PaginasDe
          <6> QED BY <3>1, <4>2, <4>3, <5>2, <6>1 DEF Copiada, EnDisco
        <5> QED BY <4>2, <4>3, <5>1, <5>2 DEF InvPerdida, Barrido
      <4>4. CASE Escribe
        <5>1. paginas' \subseteq TPagina
          BY <1>2 DEF InvCoherencia, InvMuerte, InvLRU, InvLista, InvBase, InvCache, Coherentes
        <5> QED BY <1>2, <3>1, <4>2, <4>4, <5>1, EscribeBarrido DEF InvPerdida
      <4> QED BY <3>1, <4>3, <4>4
    <3> QED BY <3>3
  <2> QED BY <1>6, <2>1, <2>2 DEF Paso
<1> QED BY <1>2, <1>4, <1>5, <1>6 DEF Next, InvPerdida

LEMMA InitPerdida == Init => InvPerdida
BY InitCoherencia DEF Init, InvPerdida, Barrido, Barriendo, EnPaginas

\* When nothing is read or dropped, the file system answers and procesoJournal
\* alone journals, what vaciarMemoria throws away without having sent it was
\* written after that journal() began, in any number of segments and pages.
THEOREM LaPerdidaSeAcota ==
  SoloEscribe /\ UnSoloJournal /\ ~FSCae => (Spec => PerdidaAcotada)
<1> DEFINE Acota ==
      \A h \in Hilos : pc[h] = "jvaciar" /\ pc'[h] = "javisar" =>
        \A p \in paginas :
          LET r == memoria[p.direccion]  f == fs[p.path][r.key] IN
          \/ p.modificado = 0
          \/ f # Nulo /\ f.value = r.value
          \/ r.timestamp >= j[h].inicio
<1>1. CASE SoloEscribe /\ UnSoloJournal /\ ~FSCae
  <2>1. InvPerdida /\ [Next]_vars => InvPerdida'
    BY <1>1, PasoPerdida
  <2>2. InvPerdida /\ [Next]_vars => [Acota]_vars
    <3>1. SUFFICES ASSUME InvPerdida, NEW h \in Hilos, pc[h] = "jvaciar", NEW p \in paginas,
                          ~(memoria[p.direccion].timestamp >= j[h].inicio)
                   PROVE  EnDisco(p.path, memoria[p.direccion].key, memoria[p.direccion].value)
      BY DEF EnDisco
    <3>2. Recorrido(h) /\ Copiada(h, p) /\ Vista(h, p)
      BY <3>1 DEF InvPerdida, Barrido, Barriendo, Vista
    <3>3. memoria[p.direccion].timestamp \in Nat /\ j[h].inicio \in Nat
      BY <3>1, TiposMuerte DEF InvPerdida, InvCoherencia, Coherentes, TPagina, TRegistro,
         LocalesJournal
    <3>4. \A t, k, v : ~Tiene(<<>>, t, k, v)
      BY DEF Tiene
    <3> QED BY <3>1, <3>2, <3>3, <3>4 DEF Copiada, Recorrido
  <2> QED BY InitPerdida, <2>1, <2>2, PTL DEF Spec, PerdidaAcotada
<1> QED BY <1>1

=============================================================================
