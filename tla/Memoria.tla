------------------------------ MODULE Memoria ------------------------------
(***************************************************************************)
(* One "memoria" process: the paged cache in front of the file system, its *)
(* LRU list, the gate that holds requests back while the memory is full,   *)
(* and the journal that writes dirty pages back.                           *)
(*                                                                         *)
(* Threads: one per connection (atenderRequest), the console (consola) and *)
(* the periodic journal (procesoJournal).  A critical section held under   *)
(* mutexAccesoMemoria is one action, so that mutex is not a variable.      *)
(* mutexMemoriaLlena is a variable: it is locked by main, locked again by  *)
(* whoever passes the gate, and unlocked by the journal, whoever locked it.*)
(*                                                                         *)
(* The file system appears by what it promises: it answers for each key of *)
(* a table it has with the record it stored last.                          *)
(***************************************************************************)
EXTENDS Integers, FiniteSets, SequencesExt

CONSTANTS
  Tablas, Claves, Valores,
  EnFS,          \* the tables the file system has when the process starts
  Conexiones,    \* threads running atenderRequest
  Consola,       \* {} or the console thread
  Periodico,     \* {} or the thread running procesoJournal
  NMarcos,       \* cantTotalPaginas
  Operaciones,   \* the kinds of request the clients send
  FSCae,         \* TRUE: solicitarFS may fail to connect
  MaxReloj,      \* bound: last millisecond of the modelled clock
  MaxPagina,     \* bound: largest numeroPagina handed out
  Nulo

Hilos == Conexiones \cup Consola \cup Periodico
Marcos == 1..NMarcos

ASSUME ConstantesValidas ==
  /\ NMarcos \in Nat \ {0}
  /\ MaxReloj \in Nat \ {0}
  /\ MaxPagina \in Nat \ {0}
  /\ FSCae \in BOOLEAN
  /\ Nulo \notin Tablas \cup Claves \cup Valores
  /\ "liberado" \notin Tablas   \* marks a pointer to a freed segment
  /\ IsFiniteSet(Hilos)
  /\ EnFS \subseteq Tablas
  /\ Operaciones \subseteq
       {"SELECT", "INSERT", "CREATE", "DESCRIBE", "DROP", "JOURNAL"}

\* The marker of a key that has no record is not one.
ASSUME NuloNoEsRegistro == Nulo \notin [timestamp : Nat, value : Valores]

ASSUME HilosDistintos ==
  /\ Conexiones \cap Consola = {}
  /\ Conexiones \cap Periodico = {}
  /\ Consola \cap Periodico = {}

Pedidos ==
  { r \in [op : {"SELECT"}, t : Tablas, k : Claves]
          \cup [op : {"INSERT"}, t : Tablas, k : Claves, v : Valores]
          \cup [op : {"CREATE", "DESCRIBE", "DROP"}, t : Tablas]
          \cup [op : {"JOURNAL"}] : r.op \in Operaciones }

PedidoJournal == [op |-> "JOURNAL"]

VARIABLES
  segmentos,          \* tabla_segmentos: the paths, in list order
  paginas,            \* every t_pagina of every segment, with its path
  memoria,            \* frame -> t_registro; timestamp 0 is an empty frame
  lista_LRU,          \* t_registro_LRU, least recently used first
  cantPaginasLibres,
  flagFullEnviado,
  mutexMemoriaLlena,  \* TRUE while locked
  pc, pedido,         \* where each thread is, and the request it holds
  j,                  \* locals of each thread's journal(); the properties
                      \* only read inicio, when it began, and ajeno, whether
                      \* a freed page is in its list
  caida,              \* "no", or what killed the process
  reloj,              \* getCurrentTime, in milliseconds
  existe, fs          \* the file system: its tables, and their records

cache   == <<segmentos, paginas, memoria, lista_LRU, cantPaginasLibres>>
compuerta == <<flagFullEnviado, mutexMemoriaLlena>>
sistema == <<existe, fs>>
vars == <<cache, compuerta, pc, pedido, j, caida, reloj, sistema>>

Vacio == [timestamp |-> 0, key |-> Nulo, value |-> Nulo]
JournalVacio ==
  [i |-> 0, seg |-> Nulo, z |-> 0, pagina |-> 0, lista |-> <<>>,
   repite |-> FALSE, inicio |-> 0, ajeno |-> FALSE]

-----------------------------------------------------------------------------
(* Segments, pages and frames. *)

BuscarSegmento(t) == t \in ToSet(segmentos)

PaginasDe(t) == {p \in paginas : p.path = t}

\* buscarPagina compares the key stored in the frame the page points to.
BuscarPagina(t, k) == {p \in PaginasDe(t) : memoria[p.direccion].key = k}

\* Position z (from 0) of a segment's page list; pages are only appended,
\* each with the number after the last one's, so the list is in that order.
PaginaEn(t, z) ==
  CHOOSE p \in PaginasDe(t) :
    Cardinality({q \in PaginasDe(t) : q.numeroPagina < p.numeroPagina}) = z

MarcosVacios(mem) == {m \in Marcos : mem[m].timestamp = 0}

\* Faulty variant: the page goes, its frame keeps the record.
LiberarNada(mem, S) == mem

\* eliminarPagina clears the frame of every page in S.
Liberar(mem, S) ==
  [m \in Marcos |-> IF \E p \in S : p.direccion = m THEN Vacio ELSE mem[m]]

-----------------------------------------------------------------------------
(* The LRU list and the eviction. *)

MismaPagina(e, p) == e.path = p.path /\ e.numeroPagina = p.numeroPagina

EntradaLRU(p) ==
  [path |-> p.path, numeroPagina |-> p.numeroPagina,
   modificado |-> p.modificado]

\* Faulty variant: a page used again is not taken out of its old position.
AgregarSinQuitar(lru, p) == Append(lru, EntradaLRU(p))

AgregarEnListaLRU(lru, p) ==
  Append(RemoveFirstMatch(lru, LAMBDA e : MismaPagina(e, p)), EntradaLRU(p))

\* Faulty variant: evict the oldest page, dirty or not.
PrimeraEntrada == IF lista_LRU = <<>> THEN 0 ELSE 1

\* Position of the first LRU entry whose modificado is 0; 0 when none is.
SinModificar == SelectInSeq(lista_LRU, LAMBDA e : e.modificado = 0)

Victima == lista_LRU[SinModificar]
PaginaVictima == {p \in paginas : MismaPagina(Victima, p)}

Desaloja == cantPaginasLibres = 0

\* Faulty variant: a full memory never evicts.
LlenaSinDesalojar == Desaloja

\* liberarMemoriaLRU returns 0.
MemoriaLlena == Desaloja /\ SinModificar = 0

\* liberarMemoriaLRU dereferences NULL: the entry's segment is gone, or its
\* page is and some other page of the segment is compared with it.
DesalojoColgante ==
  /\ Desaloja /\ SinModificar # 0
  /\ \/ ~BuscarSegmento(Victima.path)
     \/ PaginaVictima = {} /\ PaginasDe(Victima.path) # {}

\* The state once there is room for one more page.
Salen == IF Desaloja THEN PaginaVictima ELSE {}
PaginasTras == paginas \ Salen
MemoriaTras == Liberar(memoria, Salen)
LRUTras == IF Desaloja THEN RemoveAt(lista_LRU, SinModificar) ELSE lista_LRU

\* Faulty variant: the frame the eviction frees is not counted.
LibresSinSumar == IF Desaloja THEN 0 ELSE cantPaginasLibres
LibresTras == IF Desaloja THEN 1 ELSE cantPaginasLibres

\* A journal() that holds one of the pages in S is left with a pointer to a
\* freed page, number 0 here.
SoltarPaginas(S) ==
  j' = [g \in Hilos |->
          IF \E p \in S : p.path = j[g].seg /\ p.numeroPagina = j[g].pagina
            THEN [j[g] EXCEPT !.pagina = 0] ELSE j[g]]

HacerLugar == /\ paginas' = PaginasTras
              /\ memoria' = MemoriaTras
              /\ lista_LRU' = LRUTras
              /\ cantPaginasLibres' = LibresTras
              /\ SoltarPaginas(Salen)

\* guardarRegistro looks for an empty frame and knows no end.
DesbordeMarcos == MarcosVacios(MemoriaTras) = {}

\* Faulty variant: number a page by how many there are.
IndicePorCantidad(t) == Cardinality({p \in PaginasTras : p.path = t}) + 1

\* Faulty variant: the pages of a segment count from 0.
IndiceDesdeCero(t) == Cardinality({p \in PaginasTras : p.path = t})

\* obtenerIndicePagina: one more than the last page of the list.
ObtenerIndicePagina(t) ==
  LET nums == {p.numeroPagina : p \in {q \in PaginasTras : q.path = t}}
  IN  IF nums = {} THEN 1 ELSE Max(nums) + 1

\* crearPagina, list_add and agregarEnListaLRU, for a page not yet cached.
AgregarPagina(t, k, ts, v, bit) ==
  LET marco == Min(MarcosVacios(MemoriaTras))
      pagina == [path |-> t, numeroPagina |-> ObtenerIndicePagina(t),
                 direccion |-> marco, modificado |-> bit]
  IN  /\ ObtenerIndicePagina(t) <= MaxPagina
      /\ paginas' = PaginasTras \cup {pagina}
      /\ memoria' = [MemoriaTras EXCEPT
                       ![marco] = [timestamp |-> ts, key |-> k, value |-> v]]
      /\ lista_LRU' = AgregarEnListaLRU(LRUTras, pagina)
      /\ cantPaginasLibres' = LibresTras - 1
      /\ SoltarPaginas(Salen)

\* The loop at the end of dropSegmento: the i-th round removes the first
\* entry whose path is that of the entry now at position i, whichever table
\* that is, and the list shrinks under the index.
QuitarUno(lru, i) ==
  RemoveFirstMatch(lru, LAMBDA e : e.path = lru[i].path)
LRUTrasDrop ==
  LET n == (Len(lista_LRU) + 1) \div 2
      lru[i \in 0..n] ==
        IF i = 0 THEN lista_LRU ELSE QuitarUno(lru[i-1], i)
  IN  lru[n]

-----------------------------------------------------------------------------
(* The file system, as solicitarFS sees it. *)

\* Storing stamps the file system's own clock, whatever the request carried;
\* a record of a table it does not have is kept in the memtable all the same.
GuardarEnFS(t, k, v) ==
  fs' = [fs EXCEPT ![t][k] = [timestamp |-> reloj, value |-> v]]

TieneRegistro(t, k) == t \in existe /\ fs[t][k] # Nulo

-----------------------------------------------------------------------------
(* Threads. *)

Ir(h, lugar) == pc' = [pc EXCEPT ![h] = lugar]

\* A request has been answered, and freed: a connection waits for the next.
Contestar(h) ==
  /\ Ir(h, IF h \in Conexiones THEN "abierta" ELSE "inicio")
  /\ pedido' = [pedido EXCEPT ![h] = PedidoJournal]

\* journal() returned; the JOURNAL read at the tail of the loop is still the
\* current request when the loop starts again.
TerminarJournal(h) ==
  /\ IF j[h].repite THEN Ir(h, "compuerta") /\ UNCHANGED pedido
                    ELSE Contestar(h)
  /\ j' = [j EXCEPT ![h] = JournalVacio]

\* eliminarSegmento frees the segments in S and their pages: a journal() that
\* was walking the pages of one is left with pointers to freed blocks.
LiberarSegmentos(S) ==
  j' = [g \in Hilos |->
          IF j[g].seg \in S THEN [j[g] EXCEPT !.seg = "liberado", !.pagina = 0]
                           ELSE j[g]]

\* SIGSEGV: the process and all it held are gone.
Caer(motivo) ==
  /\ caida' = motivo
  /\ segmentos' = <<>> /\ paginas' = {} /\ lista_LRU' = <<>>
  /\ memoria' = [m \in Marcos |-> Vacio]
  /\ cantPaginasLibres' = NMarcos
  /\ flagFullEnviado' = 0 /\ mutexMemoriaLlena' = TRUE
  /\ pc' = [h \in Hilos |-> "inicio"]
  /\ pedido' = [h \in Hilos |-> PedidoJournal]
  /\ j' = [h \in Hilos |-> JournalVacio]
  /\ UNCHANGED <<reloj, sistema>>

Init ==
  /\ segmentos = <<>> /\ paginas = {} /\ lista_LRU = <<>>
  /\ memoria = [m \in Marcos |-> Vacio]
  /\ cantPaginasLibres = NMarcos
  /\ flagFullEnviado = 0 /\ mutexMemoriaLlena = TRUE
  /\ pc = [h \in Hilos |-> "inicio"]
  /\ pedido = [h \in Hilos |-> PedidoJournal]
  /\ j = [h \in Hilos |-> JournalVacio]
  /\ caida = "no"
  /\ reloj = 1
  /\ existe = EnFS
  /\ fs \in [Tablas -> [Claves -> {Nulo} \cup [timestamp : {1}, value : Valores]]]
  /\ \A t \in Tablas \ EnFS : \A k \in Claves : fs[t][k] = Nulo

-----------------------------------------------------------------------------
(* atenderRequest, consola and procesoJournal. *)

\* The first request of a connection, or one typed at the console.
Recibir(h) ==
  /\ pc[h] = "inicio" /\ h \notin Periodico
  /\ \E r \in Pedidos : pedido' = [pedido EXCEPT ![h] = r]
  /\ Ir(h, IF h \in Consola THEN "procesar" ELSE "compuerta")
  /\ UNCHANGED <<cache, compuerta, j, caida, reloj, sistema>>

\* procesoJournal wakes up.
Despertar(h) ==
  /\ pc[h] = "inicio" /\ h \in Periodico
  /\ Ir(h, "procesar")
  /\ UNCHANGED <<cache, compuerta, pedido, j, caida, reloj, sistema>>

\* recibirRequest at the tail of the loop: a JOURNAL is processed there and
\* then, and again by the next turn of the loop.
RecibirOtro(h) ==
  /\ pc[h] = "abierta"
  /\ \E r \in Pedidos :
       /\ pedido' = [pedido EXCEPT ![h] = r]
       /\ Ir(h, IF r.op = "JOURNAL" THEN "procesar" ELSE "compuerta")
       /\ j' = [j EXCEPT ![h].repite = (r.op = "JOURNAL")]
  /\ UNCHANGED <<cache, compuerta, caida, reloj, sistema>>

Cerrar(h) ==
  /\ pc[h] = "abierta"
  /\ Ir(h, "inicio")
  /\ UNCHANGED <<cache, compuerta, pedido, j, caida, reloj, sistema>>

\* if(flagFullEnviado): the request waits for a journal, or goes ahead.
Compuerta(h) ==
  /\ pc[h] = "compuerta"
  /\ Ir(h, IF flagFullEnviado = 1 THEN "espera" ELSE "procesar")
  /\ UNCHANGED <<cache, compuerta, pedido, j, caida, reloj, sistema>>

Entrar(h) ==
  /\ pc[h] = "espera" /\ ~mutexMemoriaLlena
  /\ mutexMemoriaLlena' = TRUE
  /\ flagFullEnviado' = 0
  /\ Ir(h, "procesar")
  /\ UNCHANGED <<cache, pedido, j, caida, reloj, sistema>>

\* FULL_R: with the flag up the request goes back to the gate; otherwise the
\* client is told, and the flag goes up.  The console drops the answer.
Llena(h) ==
  /\ pc[h] = "llena"
  /\ IF flagFullEnviado = 1
     THEN Ir(h, "compuerta") /\ UNCHANGED <<flagFullEnviado, pedido>>
     ELSE Contestar(h) /\ flagFullEnviado' = 1
  /\ UNCHANGED <<cache, mutexMemoriaLlena, j, caida, reloj, sistema>>

-----------------------------------------------------------------------------
(* procesarRequest. *)

Atiende(h, op) == pc[h] = "procesar" /\ pedido[h].op = op

\* The process goes on: nothing but the cache and this thread moves, and the
\* pages that other threads hold.
Sigue == UNCHANGED <<compuerta, caida, reloj>>

ConFull(h) ==
  /\ MemoriaLlena
  /\ IF h \in Consola THEN Contestar(h)
                      ELSE Ir(h, "llena") /\ UNCHANGED pedido
  /\ Sigue /\ UNCHANGED <<cache, j, sistema>>

SelectEnCache(h) ==
  /\ Atiende(h, "SELECT")
  /\ \E p \in BuscarPagina(pedido[h].t, pedido[h].k) :
       lista_LRU' = AgregarEnListaLRU(lista_LRU, p)
  /\ UNCHANGED <<segmentos, paginas, memoria, cantPaginasLibres, j, sistema>>
  /\ Contestar(h) /\ Sigue

\* The file system has no such record, or does not answer: ERROR_R, and what
\* was evicted stays evicted.
SelectFallido(h) ==
  /\ ~MemoriaLlena /\ ~DesalojoColgante
  /\ FSCae \/ ~TieneRegistro(pedido[h].t, pedido[h].k)
  /\ HacerLugar /\ UNCHANGED <<segmentos, sistema>>
  /\ Contestar(h) /\ Sigue

\* The record arrives.  Without a segment the page is added and then the path
\* of the segment that was not found is read through a NULL pointer.
SelectDelFS(h) ==
  LET t == pedido[h].t  k == pedido[h].k  r == fs[t][k] IN
  /\ ~MemoriaLlena /\ ~DesalojoColgante /\ ~DesbordeMarcos
  /\ TieneRegistro(t, k)
  /\ IF BuscarSegmento(t)
     THEN /\ AgregarPagina(t, k, r.timestamp, r.value, 0)
          /\ UNCHANGED <<segmentos, sistema>>
          /\ Contestar(h) /\ Sigue
     ELSE Caer("selectSinSegmento")

SelectFuera(h) ==
  /\ Atiende(h, "SELECT")
  /\ BuscarPagina(pedido[h].t, pedido[h].k) = {}
  /\ \/ ConFull(h)
     \/ SelectFallido(h)
     \/ SelectDelFS(h)
     \/ DesalojoColgante /\ Caer("lruColgante")
     \/ /\ ~MemoriaLlena /\ ~DesalojoColgante /\ DesbordeMarcos
        /\ TieneRegistro(pedido[h].t, pedido[h].k)
        /\ Caer("desbordeMarcos")

\* Faulty variant: an update that leaves the page clean.
SinMarcar(p) == p

MarcarModificada(p) == [p EXCEPT !.modificado = 1]

\* The page is there: it changes only if its timestamp is older than now.
InsertEnCache(h) ==
  LET r == pedido[h] IN
  /\ Atiende(h, "INSERT")
  /\ \E p \in BuscarPagina(r.t, r.k) :
       IF memoria[p.direccion].timestamp < reloj
       THEN LET q == MarcarModificada(p) IN
            /\ paginas' = (paginas \ {p}) \cup {q}
            /\ memoria' = [memoria EXCEPT ![p.direccion] =
                             [timestamp |-> reloj, key |-> r.k, value |-> r.v]]
            /\ lista_LRU' = AgregarEnListaLRU(lista_LRU, q)
       ELSE UNCHANGED <<paginas, memoria, lista_LRU>>
  /\ UNCHANGED <<segmentos, cantPaginasLibres, j, sistema>>
  /\ Contestar(h) /\ Sigue

InsertNuevo(h) ==
  LET r == pedido[h] IN
  /\ ~MemoriaLlena /\ ~DesalojoColgante /\ ~DesbordeMarcos
  /\ AgregarPagina(r.t, r.k, reloj, r.v, 1)
  /\ segmentos' = IF BuscarSegmento(r.t) THEN segmentos
                  ELSE Append(segmentos, r.t)
  /\ UNCHANGED sistema
  /\ Contestar(h) /\ Sigue

InsertFuera(h) ==
  /\ Atiende(h, "INSERT")
  /\ BuscarPagina(pedido[h].t, pedido[h].k) = {}
  /\ \/ ConFull(h)
     \/ InsertNuevo(h)
     \/ DesalojoColgante /\ Caer("lruColgante")
     \/ /\ ~MemoriaLlena /\ ~DesalojoColgante /\ DesbordeMarcos
        /\ Caer("desbordeMarcos")

\* CREATE and DESCRIBE only go through to the file system.
Create(h) ==
  /\ Atiende(h, "CREATE")
  /\ existe' \in {existe \cup {pedido[h].t}} \cup (IF FSCae THEN {existe} ELSE {})
  /\ UNCHANGED <<cache, j, fs>>
  /\ Contestar(h) /\ Sigue

Describe(h) ==
  /\ Atiende(h, "DESCRIBE")
  /\ UNCHANGED <<cache, j, sistema>>
  /\ Contestar(h) /\ Sigue

\* DROP forgets the segment under the mutex, then asks the file system.
DropEnMemoria(h) ==
  LET t == pedido[h].t IN
  /\ Atiende(h, "DROP")
  /\ IF BuscarSegmento(t)
     THEN /\ segmentos' = RemoveFirst(segmentos, t)
          /\ paginas' = paginas \ PaginasDe(t)
          /\ memoria' = Liberar(memoria, PaginasDe(t))
          /\ cantPaginasLibres' = cantPaginasLibres + Cardinality(PaginasDe(t))
          /\ lista_LRU' = LRUTrasDrop
          /\ LiberarSegmentos({t})
     ELSE UNCHANGED <<cache, j>>
  /\ Ir(h, "dropFS")
  /\ UNCHANGED <<compuerta, pedido, caida, reloj, sistema>>

\* The file system forgets the table and what it had dumped of it: the records
\* still in its memtable stay.
DropEnFS(h) ==
  LET t == pedido[h].t IN
  /\ pc[h] = "dropFS"
  /\ \/ /\ t \in existe
        /\ existe' = existe \ {t}
        /\ \E S \in SUBSET Claves :
             fs' = [fs EXCEPT ![t] =
                      [k \in Claves |-> IF k \in S THEN Nulo ELSE fs[t][k]]]
     \/ (FSCae \/ t \notin existe) /\ UNCHANGED sistema
  /\ UNCHANGED <<cache, j>>
  /\ Contestar(h) /\ Sigue

-----------------------------------------------------------------------------
(* journal: the list is built without the mutex, then sent one record at a *)
(* time, and only the wipe at the end is a critical section.               *)

JournalIniciar(h) ==
  /\ Atiende(h, "JOURNAL")
  /\ j' = [j EXCEPT ![h] = [JournalVacio EXCEPT !.repite = j[h].repite,
                                              !.inicio = reloj]]
  /\ Ir(h, "jsegmento")
  /\ UNCHANGED <<cache, compuerta, pedido, caida, reloj, sistema>>

JournalSegmento(h) ==
  /\ pc[h] = "jsegmento"
  /\ IF j[h].i < Len(segmentos)
     THEN Ir(h, "jtomar") /\ UNCHANGED j
     ELSE /\ j' = [j EXCEPT ![h].seg = Nulo, ![h].z = 0]
          /\ Ir(h, "jenviar")
  /\ UNCHANGED <<cache, compuerta, pedido, caida, reloj, sistema>>

\* Faulty variant: the inner loop starts at the second page.
JournalTomarDesdeUno(h) ==
  /\ pc[h] = "jtomar" /\ j[h].i < Len(segmentos)
  /\ j' = [j EXCEPT ![h].seg = segmentos[j[h].i + 1], ![h].z = 1]
  /\ Ir(h, "jpagina")
  /\ UNCHANGED <<cache, compuerta, pedido, caida, reloj, sistema>>

\* list_get of the segment: NULL if there are no longer so many.
JournalTomar(h) ==
  /\ pc[h] = "jtomar"
  /\ \/ /\ j[h].i < Len(segmentos)
        /\ j' = [j EXCEPT ![h].seg = segmentos[j[h].i + 1], ![h].z = 0]
        /\ Ir(h, "jpagina")
        /\ UNCHANGED <<cache, compuerta, pedido, caida, reloj, sistema>>
     \/ j[h].i >= Len(segmentos) /\ Caer("journalSinSegmento")

\* The test of the inner loop: past the last page the next segment comes.
JournalPagina(h) ==
  /\ pc[h] = "jpagina" /\ j[h].seg # "liberado"
  /\ IF j[h].z < Cardinality(PaginasDe(j[h].seg))
     THEN Ir(h, "jobtener") /\ UNCHANGED j
     ELSE /\ j' = [j EXCEPT ![h].i = @ + 1]
          /\ Ir(h, "jsegmento")
  /\ UNCHANGED <<cache, compuerta, pedido, caida, reloj, sistema>>

\* list_get of the page now at position z: NULL if an eviction since the test
\* has left none there.
JournalObtener(h) ==
  /\ pc[h] = "jobtener" /\ j[h].seg # "liberado"
  /\ \/ /\ j[h].z < Cardinality(PaginasDe(j[h].seg))
        /\ j' = [j EXCEPT ![h].pagina = PaginaEn(j[h].seg, j[h].z).numeroPagina]
        /\ Ir(h, "jcopiar")
        /\ UNCHANGED <<cache, compuerta, pedido, caida, reloj, sistema>>
     \/ /\ j[h].z >= Cardinality(PaginasDe(j[h].seg))
        /\ Caer("journalSinPagina")

\* What a turn of the inner loop adds to the list.
Anotar(h, registros) ==
  /\ j' = [j EXCEPT ![h].z = @ + 1, ![h].pagina = 0,
                    ![h].lista = @ \o registros]
  /\ Ir(h, "jpagina")
  /\ UNCHANGED <<cache, compuerta, pedido, caida, reloj, sistema>>

\* The page, if dirty, is copied.
JournalCopiar(h) ==
  /\ pc[h] = "jcopiar"
  /\ \E p \in PaginasDe(j[h].seg) :
       /\ p.numeroPagina = j[h].pagina
       /\ LET r == memoria[p.direccion] IN
          Anotar(h, IF p.modificado = 1
                      THEN <<[t |-> p.path, k |-> r.key, v |-> r.value]>>
                      ELSE <<>>)

\* The page was freed since list_get: what is read through its pointer is clean,
\* or whatever has taken its place, or kills the process.
JournalCopiarLiberada(h) ==
  /\ pc[h] = "jcopiar" /\ j[h].pagina = 0
  /\ \/ Anotar(h, <<>>)
     \/ \E r \in [t : {x \in Tablas : j[h].seg \in {x, "liberado"}},
                  k : Claves, v : Valores] :
          /\ j' = [j EXCEPT ![h].z = @ + 1, ![h].lista = Append(@, r),
                            ![h].ajeno = TRUE]
          /\ Ir(h, "jpagina")
          /\ UNCHANGED <<cache, compuerta, pedido, caida, reloj, sistema>>
     \/ Caer("paginaLiberada")

\* The segment was freed under the loop's feet: the freed block reads as an
\* exhausted list, or gives a page that is no more, or the process dies.
JournalColgado(h) ==
  /\ pc[h] \in {"jpagina", "jobtener"} /\ j[h].seg = "liberado"
  /\ \/ /\ pc[h] = "jpagina"
        /\ j' = [j EXCEPT ![h].i = @ + 1]
        /\ Ir(h, "jsegmento")
        /\ UNCHANGED <<cache, compuerta, pedido, caida, reloj, sistema>>
     \/ /\ pc[h] = "jobtener"
        /\ Ir(h, "jcopiar")
        /\ UNCHANGED <<cache, compuerta, pedido, j, caida, reloj, sistema>>
     \/ Caer("segmentoLiberado")

\* enviarListaJournal: the answer is not looked at.
JournalEnviar(h) ==
  /\ pc[h] = "jenviar"
  /\ IF j[h].lista = <<>>
     THEN Ir(h, "jvaciar") /\ UNCHANGED <<j, fs>>
     ELSE LET r == Head(j[h].lista) IN
          /\ \/ GuardarEnFS(r.t, r.k, r.v)
             \/ FSCae /\ UNCHANGED fs
          /\ j' = [j EXCEPT ![h].lista = Tail(@)]
          /\ UNCHANGED pc
  /\ UNCHANGED <<cache, compuerta, pedido, caida, reloj, existe>>

\* vaciarMemoria, the LRU list and the counter, under the mutex.
Vaciar(h) ==
  /\ pc[h] = "jvaciar"
  /\ segmentos' = <<>>
  /\ paginas' = {}
  /\ memoria' = Liberar(memoria, paginas)
  /\ lista_LRU' = <<>>
  /\ cantPaginasLibres' = NMarcos
  /\ LiberarSegmentos(ToSet(segmentos))
  /\ Ir(h, "javisar")
  /\ UNCHANGED <<compuerta, pedido, caida, reloj, sistema>>

\* Faulty variant: the journal wakes nobody.
JournalSinAvisar(h) ==
  /\ pc[h] = "javisar"
  /\ Ir(h, "jbajar")
  /\ UNCHANGED <<cache, compuerta, pedido, j, caida, reloj, sistema>>

JournalAvisar(h) ==
  /\ pc[h] = "javisar"
  /\ mutexMemoriaLlena' = FALSE
  /\ Ir(h, "jbajar")
  /\ UNCHANGED <<cache, flagFullEnviado, pedido, j, caida, reloj, sistema>>

JournalBajar(h) ==
  /\ pc[h] = "jbajar"
  /\ flagFullEnviado' = 0
  /\ TerminarJournal(h)
  /\ UNCHANGED <<cache, mutexMemoriaLlena, caida, reloj, sistema>>

-----------------------------------------------------------------------------
(* The environment. *)

Tic ==
  /\ caida = "no" /\ reloj < MaxReloj
  /\ reloj' = reloj + 1
  /\ UNCHANGED <<cache, compuerta, pc, pedido, j, caida, sistema>>

\* The operator starts the process again.
Reiniciar ==
  /\ caida # "no"
  /\ caida' = "no"
  /\ UNCHANGED <<cache, compuerta, pc, pedido, j, reloj, sistema>>

Atender(h) ==
  \/ Compuerta(h) \/ Entrar(h) \/ Llena(h)
  \/ SelectEnCache(h) \/ SelectFuera(h)
  \/ InsertEnCache(h) \/ InsertFuera(h)
  \/ Create(h) \/ Describe(h) \/ DropEnMemoria(h) \/ DropEnFS(h)

Journal(h) ==
  \/ JournalIniciar(h) \/ JournalSegmento(h) \/ JournalTomar(h)
  \/ JournalPagina(h) \/ JournalObtener(h) \/ JournalCopiar(h)
  \/ JournalCopiarLiberada(h) \/ JournalColgado(h) \/ JournalEnviar(h)
  \/ Vaciar(h) \/ JournalAvisar(h) \/ JournalBajar(h)

Paso(h) ==
  /\ caida = "no"
  /\ \/ Recibir(h) \/ RecibirOtro(h) \/ Cerrar(h) \/ Despertar(h)
     \/ Atender(h) \/ Journal(h)

Next == Tic \/ Reiniciar \/ \E h \in Hilos : Paso(h)

Spec == Init /\ [][Next]_vars

\* Every thread that can run does; a request blocked on mutexMemoriaLlena gets
\* it if it is released again and again; and procesoJournal never stops.
Equidad ==
  /\ \A h \in Hilos : WF_vars(caida = "no" /\ (Atender(h) \/ Journal(h)))
  /\ \A h \in Conexiones : SF_vars(caida = "no" /\ Entrar(h))
  /\ \A h \in Periodico : WF_vars(caida = "no" /\ Despertar(h))

SpecJusta == Spec /\ Equidad
=============================================================================
