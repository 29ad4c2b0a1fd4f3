---------------------------- MODULE MemoriaProp ----------------------------
(***************************************************************************)
(* What the cache, the gate and the journal of Memoria must guarantee.     *)
(***************************************************************************)
EXTENDS Memoria

LocalesJournal ==
  [i : Nat, seg : Tablas \cup {Nulo, "liberado"}, z : Nat, pagina : Nat,
   lista : Seq([t : Tablas, k : Claves, v : Valores]),
   repite : BOOLEAN, inicio : Nat, ajeno : BOOLEAN]

TipoLRU ==
  lista_LRU \in Seq([path : Tablas, numeroPagina : Nat \ {0},
                     modificado : {0, 1}])

TipoCache ==
  /\ segmentos \in Seq(Tablas)
  /\ paginas \subseteq [path : Tablas, numeroPagina : Nat \ {0},
                        direccion : Marcos, modificado : {0, 1}]
  /\ memoria \in [Marcos -> [timestamp : Nat, key : Claves \cup {Nulo},
                             value : Valores \cup {Nulo}]]
  /\ cantPaginasLibres \in Int

TipoHilos ==
  /\ flagFullEnviado \in {0, 1}
  /\ mutexMemoriaLlena \in BOOLEAN
  /\ pc \in [Hilos -> {"inicio", "abierta", "compuerta", "espera", "procesar",
                       "llena", "dropFS", "jsegmento", "jtomar", "jpagina",
                       "jobtener", "jcopiar", "jenviar", "jvaciar", "javisar",
                       "jbajar"}]
  /\ pedido \in [Hilos -> Pedidos \cup {PedidoJournal}]
  /\ j \in [Hilos -> LocalesJournal]
  /\ caida \in {"no", "selectSinSegmento", "lruColgante", "desbordeMarcos",
                "segmentoLiberado", "journalSinSegmento", "journalSinPagina",
                "paginaLiberada"}

TipoSistema ==
  /\ reloj \in Nat \ {0}
  /\ existe \subseteq Tablas
  /\ fs \in [Tablas -> [Claves -> {Nulo} \cup [timestamp : Nat \ {0}, value : Valores]]]

\* Every variable has the type its C declaration and its uses give it.
TypeOK == TipoCache /\ TipoLRU /\ TipoHilos /\ TipoSistema

\* No two pages share a frame; within a segment no two pages share a number
\* or a key (buscarPagina and buscarPaginaPorNumero return the only one); the
\* frame of a page is occupied and its segment is in the table.
IntegridadPaginas ==
  /\ \A p, q \in paginas :
       p # q => /\ p.direccion # q.direccion
                /\ p.path = q.path =>
                     /\ p.numeroPagina # q.numeroPagina
                     /\ memoria[p.direccion].key # memoria[q.direccion].key
  /\ \A p \in paginas :
       memoria[p.direccion].timestamp # 0 /\ BuscarSegmento(p.path)

\* cantPaginasLibres counts the empty frames through every eviction, DROP and
\* journal: guardarRegistro, whose scan has no bound, always finds one.
ContadorExacto == cantPaginasLibres = Cardinality(MarcosVacios(memoria))

\* While no table is dropped, the LRU list has one entry for each page, with
\* the page's own modificado, and no other entry.
LRUExacta ==
  /\ \A p \in paginas : Contains(lista_LRU, EntradaLRU(p))
  /\ Len(lista_LRU) = Cardinality(paginas)

\* What a SELECT may kill the process with: it brings the first page of a
\* segment; or it evicts a page that an unlocked journal() has counted, or got.
MuertesPorSelect == {"selectSinSegmento", "journalSinPagina", "paginaLiberada"}

\* While no table is dropped and one thread at a time journals, the process
\* dies of nothing else (no stale LRU entry, no frame missing, no freed segment,
\* no segment missing in the journal's walk), and not at all if none SELECTs.
SoloCaeSelect ==
  caida \in {"no"} \cup (IF "SELECT" \in Operaciones THEN MuertesPorSelect ELSE {})

\* No journal on its way to its wipe has what it read in a freed page.
SinAjenos == \A h \in Hilos : j[h].ajeno => pc[h] \in {"javisar", "jbajar"}

\* A page whose modificado is 0 holds the record the file system holds.
Consistentes ==
  \A p \in paginas :
    LET r == memoria[p.direccion] IN
    p.modificado = 0 =>
      fs[p.path][r.key] = [timestamp |-> r.timestamp, value |-> r.value]

\* "bit en 0 porque el dato es consistente": so are the clean pages, unless a
\* journal that took something from a freed page has still to wipe.
Coherencia == SinAjenos => Consistentes

\* The same comment, of the value alone.
CoherenciaDelValor ==
  \A p \in paginas :
    LET r == memoria[p.direccion]  f == fs[p.path][r.key] IN
    p.modificado = 0 => f # Nulo /\ f.value = r.value

\* A dirty page stays, unless this step is a journal's wipe, the DROP of its
\* table or the death of the process.
SucioQueda(p) ==
  \/ p.modificado = 0
  \/ p \in paginas'
  \/ caida' # "no"
  \/ \E h \in Hilos : pc[h] = "jvaciar" /\ pc'[h] = "javisar"
  \/ \E h \in Hilos : pc'[h] = "dropFS" /\ pedido[h].t = p.path

\* Room is made, even after a DROP has left stale entries in the LRU list,
\* by evicting clean pages only.
DesalojoSoloLimpias == [][\A p \in paginas : SucioQueda(p)]_vars

\* FULL_R is answered only when a journal is the only way on: every frame
\* holds a dirty page (as long as no table has been dropped).
FullSoloSiTodoModificado ==
  [][\A h \in Conexiones :
       pc[h] = "procesar" /\ pc'[h] = "llena" =>
         Marcos = {p.direccion : p \in {q \in paginas : q.modificado = 1}}]_vars

\* What a journal's wipe throws away without having sent it was written after
\* that journal began, when clients only INSERT and the file system answers.
PerdidaAcotada ==
  [][\A h \in Hilos : pc[h] = "jvaciar" /\ pc'[h] = "javisar" =>
       \A p \in paginas :
         LET r == memoria[p.direccion]  f == fs[p.path][r.key] IN
         \/ p.modificado = 0
         \/ f # Nulo /\ f.value = r.value
         \/ r.timestamp >= j[h].inicio]_vars

\* A request held at the gate is let through by a later journal: none stays
\* blocked on mutexMemoriaLlena for ever.
LaEsperaTermina == \A h \in Conexiones : pc[h] = "espera" ~> pc[h] # "espera"

\* A request is answered, whatever the console inserts meanwhile, unless another
\* connection has one of its own.
RespuestaLlega ==
  \A h \in Conexiones :
    pc[h] = "compuerta" ~>
      \/ pc[h] \in {"abierta", "inicio"}
      \/ \E g \in Conexiones \ {h} : pc[g] \notin {"abierta", "inicio"}
=============================================================================
