# Lissandra: a verification development

TLA+ models, model-checking runs and machine-checked proofs for the distributed
key-value store of this repository (`kernel/`, `memoria/`, `filesystem/` and
`biblioteca/`). Paths below are relative to the repository.

    module.tla        one component: constants, state, Init, actions, Spec, fairness
    moduleProp.tla    its properties
    moduleMC.tla      the instances, symmetry sets and constraints of its TLC runs
    run.cfg           one TLC run
    *Proofs.tla       theorems and proofs about the component (TLAPS)
                      (those of the LFS are two modules: LFSProofs, the threads,
                      types and tables; LFSDatosProofs, the records)
    Turnos.tla        the abstract specification that the kernel's planner implements
    Lemas.tla         lemmas on sequences, counts, sums, least numbers and maxima of finite sets
    PROJECT.json      components, runs, mutants, source lines of every definition,
                      findings, hazards, theorems

`tlc -config X.cfg M` runs a configuration with its MC module, `tlapm M.tla`
checks the proofs of a module.

## 1. The system

A script is a list of requests (SELECT, INSERT, CREATE, DESCRIBE, DROP,
JOURNAL). The **kernel** schedules scripts and sends each request to a
**memory**; a memory is a paged write-back cache over one **file system**
(Lissandra, LFS). Everything talks over TCP with the serialisation of
`biblioteca/`. Each process is multi-threaded and locks little.

| Component | Source | State | Operations |
|---|---|---|---|
| Kernel: planner and executors | `kernel/funcionesKernel.c` 10-268, `kernel.c` | `queue_nuevo`, `queue_listo`, semaphores `semaforoNuevo`, `semaforoListo`, `semaforoExecLibre`, mutexes `mutexNuevo`, `mutexListo`; the quantum | RUN, `atenderNuevos`, `atenderListos`, `ejecutar` with its retry after FULL_R |
| Kernel: criteria and metadata | same, 388-577 | lists SC, SHC, EC of memories; `metadata_tablas` | ADD, `obtenerMemoria`, `actualizarMetadata` by DESCRIBE |
| Kernel: gossiping, JOURNAL to all | same, 280-386 | `tabla_gossiping` and its mutex | `procesoGossiping`, `enviarJournal` |
| Memory: cache | `memoria/funciones.c` 179-576, `segmentacionPaginada.c` | segments, their pages, the frames, `lista_LRU`, `cantPaginasLibres` | `procesarRequest`: the six requests, under one lock per access |
| Memory: gate and journal | `funciones.c` 169-177, 589-683, 797-885 | `flagFullEnviado`, `mutexMemoriaLlena` | `atenderRequest`, `journal`, `enviarListaJournal`, `procesoJournal` |
| Memory: gossiping | `funciones.c` 10-17, 84-167, 596-612, `biblioteca/gossiping.c` | `tabla_gossiping`, `mutexTablaGossiping` | client rounds over the seeds, server exchange |
| LFS: memtable, dump, SELECT, INSERT | `filesystem/funcionesLFS.c`, `bibliotecaLFS.c` 289-630 | `diccionario` (table to list of records), `.tmp` files | `insertLFS`, `selectLFS`, `dump` |
| LFS: compaction | `bibliotecaLFS.c` 1069-1295, 1452-1499 | `.tmpc` and `.bin` files, the mutex of each list entry, one thread per entry | `compactacion` |
| LFS: CREATE, DROP, table list | `funcionesLFS.c` 117-185, `bibliotecaLFS.c` 24-170, 635-702 | `listaDeTablas`, directories, Metadata files | `createLFS`, `dropLSF`, the start |
| LFS: blocks and bitmap | `bibliotecaLFS.c` 785-1062, 1232-1246, 1297-1382 | mapped `Bitmap.bin`, `mutexBitmap`, the BLOCKS list of every file | create, extend and remove a file |
| LFS: server, console | `filesystem/servidor.c`, `filesystem.c` | sockets | a thread per connection |
| biblioteca: sockets, parser | `biblioteca/` | none | serialisation, parsing of a line |

How they interact. Within a process by shared memory and mutexes; between
processes by request and response on one socket. An executor keeps its
connection to a memory for a quantum, as long as the next request is for the
same memory, and after FULL_R sends JOURNAL and then the request again on it.
The memory opens a connection to the LFS for every request it forwards, those of
a journal included. The block store of the LFS is reached by the attention threads
(CREATE, DROP), the dump and the compactions at once. The configuration is
reloaded by inotify in the kernel and the memory.

What is hard here, component by component, and what makes it correct:

* **Cache.** Eviction must keep pages, page numbers, keys, frames, the LRU list
  and the free counter in step over long histories with drops and wipes;
  `guardarRegistro` scans for an empty frame with no bound and relies on the
  counter. Correct: those stay one to one, no eviction loses a dirty page, a
  clean page is what the LFS has.
* **Gate and journal.** The journal reads the tables with no lock, sends, wipes,
  unlocks `mutexMemoriaLlena` and clears the flag, each at another moment; two
  journals may overlap. Correct: only what was written during a journal can be
  lost by its wipe; FULL_R means full; whoever waits is let through.
* **LFS.** The dictionary, its lists and the files are shared by three kinds of
  threads with no lock but a table's mutex, which a SELECT releases before it
  reads. A kill at any step is followed by a start from the disk. Correct: what
  was answered with INSERT_R is found again or superseded; a SELECT does not
  answer the past; the process can start again.
* **Blocks.** A bit is set under `mutexBitmap` and cleared without it, eight
  share a byte. Correct: a block is in one file; none is lost.
* **Session.** The memory answers a JOURNAL twice, and the executor sends a
  request again while what it reads is JOURNAL_R. Correct: answers are late by
  exactly the JOURNALs sent, a turn without FULL_R is exact, one FULL_R loses
  nothing, and nobody waits for an answer that does not come.
* **Kernel.** `queue_listo` is changed by three kinds of threads with no common
  lock; an executor has many ways out; criteria may be empty. Correct: executors
  are never lost, scripts take turns, and one is given up only for a reason.
* **Gossip.** A mutex is held while waiting for the peer, tables are replaced
  whole, a death in an exchange kills the partner. Correct: nothing known is
  forgotten by an exchange, exchanges end but for rings of seeds, and a memory
  and its seeds come to know each other.

PROJECT.json lists each of these hazards at its line, with the properties that
cover it or why none does.

## 2. Modules

### Memoria

`Memoria.tla` is one memory process and the file system as it sees it (a record
or none per key; the timestamp is given on arrival, as `insertLFS` does).

* Threads: `Conexiones` run `atenderRequest`, `Consola` runs `solicitudConsola`
  (no gate), `Periodico` runs `procesoJournal`. `pc` is the point of the code a
  thread has reached, `pedido` its request, `j` the locals of `journal`.
* Cache: `segmentos`, `paginas` (path, number, frame, `modificado`), `memoria`
  (the frames; timestamp 0 is an empty one), `lista_LRU`, `cantPaginasLibres`.
  A page is looked up by value; a pointer that outlived its target is the value
  "liberado" and the death that follows is an action of its own.
* `Recibir`, `RecibirOtro`, `Cerrar`, `Despertar` start a request; `Compuerta`
  and `Entrar` are the gate (627-634), `Llena` the answer FULL_R and the flag.
* `SelectEnCache/DelFS/Fallido`, `InsertEnCache/Nuevo`, `Create`, `Describe`,
  `DropEnMemoria`, `DropEnFS` are `procesarRequest`, each step what is done under
  one hold of the lock, with eviction (`HacerLugar`), page numbering
  (`ObtenerIndicePagina`) and the LRU list (`AgregarEnListaLRU`,
  `LRUTrasDrop`) inside it.
* `JournalIniciar/Segmento/Tomar/Pagina/Obtener/Copiar/Enviar`, `Vaciar`,
  `JournalAvisar`, `JournalBajar` are `journal` and `enviarListaJournal`; segments
  and pages are walked by index, as `list_get` does, so that a change meanwhile
  shifts them. The test of the size, `list_get` and the reading of what it gave
  are three steps (807-810): an eviction between the first two makes it NULL
  (`journalSinPagina`); between the last two what is read is freed memory
  (`SoltarPaginas`, `JournalCopiarLiberada`), which is clean, or dirty with any
  key and value (`ajeno`), or the death of the process.
  A JOURNAL that is not the first request of a connection runs twice (the end of
  the loop and its head): `repite`.
* `caida` names what killed the process; `Reiniciar` starts it with an empty
  cache.

`MemoriaProp.tla` holds the properties, `MemoriaMC.tla` the instances.

### Bloques

`Bloques.tla` is the block store: `bitarray`, `mutexBitmap`, `BLOCKS` (path to
block list), and per thread the copy of the `t_config` it has read and the byte
it has read and not yet written. `CrearArchivoPuntoBin`, `Buscar`, `Marcar`,
`AsignarBloque` are creation. A record is written (`EscribirRegistro`, `NoCabe`,
`AsignarBloqueAConfig`, `Releer`, `Salvar`) over a copy of the list that is saved
again with the new SIZE, blocks or no blocks, under the name the file had when it
was read; `Renombrar` is what a compaction does to a `.tmp`, whoever writes it.
`LiberarBloques`, `Limpiar`, `Guardar`, `Borrar` are removal, a bit at a time;
`Desvincular` is the loop of `eliminarTabla`, which removes what it finds and
frees nothing. `LeerSinArchivo` is the death of a thread whose file is not there
any more, or is there with no block. `Basura` is what the uninitialised buffer of
a fresh Bitmap.bin had in it. `incidentes` records the named events the properties
make allowance for.

### LFS

`LFS.tla` is the file system process. A file is the sequence of its records (its
layout over blocks is Bloques' subject); a record carries the number of the
INSERT that made it instead of its value.

* `Insert`, `Poner`, `Agregar`, `Enlazar`, `Sumar` are `insertLFS` with the
  unlocked dictionary and the three parts of `list_add`: it looks for the last
  node, links the new one after it, and writes `elements_count` (`elementos`), one
  more than it had read. `suLista` says what has become meanwhile of the list a
  thread is at: the node it links to was cut off, another list has taken its place
  (`vieja`, if the dump is at it), or the dump's clean has freed it.
* `Select`, `Compuerta`, `LeerBin`, `ListarTmp`, `LeerTmp`, `MirarMemtable`,
  `Filtrar`, `Responder` are `selectLFS`; `SelectMuere` its NULL dereferences.
* `DumpDespertar`, `Contar`, `Crear`, `Guardar`, `Escribir`, `Limpiar` are
  `dump` and `pasarAArchivoTemporal`, which gets each record from the list as it is
  by then (`Volcando`) and dies where there is none; a file being saved by
  `config_save` is empty to others between its truncation and its writing.
  `TopeUint8` is 256 where the code keeps a count in an `uint8_t`: the number of a
  new `.tmp` (330), the records to dump (341) and the `.tmp` files a SELECT reads
  (482).
* `Nacer`, `CompDespertar`, `Tomar`, `Renombrar`, `LevantarClaves`,
  `BorrarTmpc`, `BorrarBin`, `CrearBin`, `EscribirBin`, `GuardarBin`, `Soltar`
  are `compactacion`.
* `Create` .. `Ingresar`, `Anotar`, `Drop` .. `Sacar` are CREATE and DROP with
  their deaths (`TablaMuere`, `AnotarLiberado`). The `list_add` of CREATE has its
  two parts too: `Ingresar` walks to the last entry, `Anotar` links after it, and
  what others have linked there since, of whatever table, is lost; `Sacar` moves
  the places of those in between (`Correr`), or frees the entry they are at.
   `Apagar` kills the process at any step, `Reiniciar` is
  `main` over what is on disk, and is not enabled where the code dies at start
  (a directory without Metadata).
* `confirmados`, `dispensados`, `solapadas`, `cortadas`, `debe`, `sereno` are read
  by the properties only: what was acknowledged, and which races have touched it.

### Sesion

`Sesion.tla` composes the executors of the kernel with the attention threads of
a memory, over the connections between them. `alMemoria` and `alKernel` are what
is on its way on each connection, `conexion` whether it is open, closed by the
kernel or cut by a death.

* `Enviar`, `EnviarJournal`, `Recibir`, `Cerrar` are `ejecutar` (funcionesKernel.c
  125-184); `TrasRecibir` is where it goes after an answer: FULL_R makes it send
  JOURNAL, JOURNAL_R makes it send the request again, whatever request they
  belong to. `RecibirError`, `EnviarTrasCorte` and `MorirKernel` are what a dead
  memory leads to: a header left as it was, and SIGPIPE.
* `Atender`, `Compuerta`, `Entrar`, `Procesar`, `JournalVaciar`,
  `JournalBajarFlag`, `VolverACompuerta`, `Responder`, `AtenderOtro`,
  `AtenderJournal`, `Desconectado` are `atenderRequest`; `luego` is where a
  JOURNAL goes once answered at the end of the loop: its head, and a second
  answer. Of the cache only `llena` is left (module Memoria has the rest);
  `Llenar` and `ProcesoJournal` are the other threads of the memory.

### Planificador and Turnos

`Planificador.tla` is the kernel process. The console (`Ingresar`, `Add`,
`JournalEnviar`), the gossip thread reduced to what it does to the table
(`GossipTomar`, `GossipRecibir`, `GossipQuitar`), `atenderNuevos` (`SacarNuevo`,
`CrearEstructura`, `EncolarNuevo`), `atenderListos` (`EsperarListo`,
`EsperarExec`, `Lanzar`) and the executors.

* `mutexListo` is taken by `atenderNuevos` alone and so excludes nobody: it has
  no variable. A push on `queue_listo` is two steps, `BuscarUltimo` and `Enlazar`
  (`list_add` looks for the last node and links after it); what others linked or
  popped in between decides what is lost (`ColaTrasEnlazar`), and
  `elements_count` may lose an addition. `cruces` records the pairs that met.
* An executor takes a request (`TomarPedido`), walks `metadata_tablas` with no
  lock (`BuscarTabla`; `Encuentra` and `NoEncuentra` may both hold while a
  DESCRIBE empties and fills the list), gets a memory of the criterion
  (`ElegirSC`, `ElegirEC`, `ElegirSHC`, `UsarMemoria`), is answered (`Responder`,
  `DescribeUna`, `DescribeTodas`, `Llenar`, `Llena`) and ends, gives the script
  up or puts it back (`Terminar`, `DestruirEjecucion`, `Devolver`,
  `EncolarDeNuevo`).
* `caida` says what killed the process: a table received as NULL, the pop of an
  empty queue, a criterion with no memories, a freed node.

`Turnos.tla` is what that amounts to for a script: it arrives, waits, runs in one
of `Lugares` places for at most `Quantum` requests, and cedes its place, ends or
is given up. `PlanificadorProp!T` instantiates it with the refinement mapping
(who holds a script gives its phase, the quantum left gives the requests used),
and `TomanTurnos` is its specification.

### Gossip

`Gossip.tla` is every memory's gossip thread (`cliente`), the attention threads
that serve it (`Servir`, `Reemplazar`, `espera`, `envio`), and the kernel's
`procesoGossiping`. A client connects to the seed of its `indice` (`Conectar`,
`NoConectar` with `EliminarMemoria`), gets a table, joins it to its own and sends
the result (`Unir`); the server holds its mutex from before it sends its table
until the client's has come and takes its place. `Apagar` kills a memory at any
step; `MorirSinTabla` is the death of the partner, which dereferences the NULL
it received; `Reiniciar` starts with a table of itself and any first `indice`
(the variable is read before it is set). The order of a table is kept: the
kernel asks the first.

### Why the properties make exceptions

The code has races that do lose data, and the properties are stated for the code
as it is: each names the exact events after which it says nothing, and holds
in every other behaviour. The exceptions are the documentation of the races.
`dispensados` for instance holds an INSERT that landed between the moment the dump
counts the list and its clean, one whose list another `dictionary_put` hid, one
that two `list_add` linked to the same node, the records that a lost addition to
`elements_count`, or a list longer than an `uint8_t` counts, leaves out of the
dump, and what was in memory only when the process died. `solapadas` holds a table
that was dropped; one whose entry in the table list another CREATE's `list_add`
has cut off, so that its threads hold one mutex and those of a later entry another,
and the dump skips it and cleans it; one whose `.tmp` numbers got a gap (a dump
crossed a compaction's listing, or a death came between two renames), where the
number of the next `.tmp`, the count of those there, hits an existing file; and
one that has got as many `.tmp` as make that count 0. `cortadas` holds a table whose partitions were deleted and not
yet rewritten at a death: until the next compaction every SELECT of it kills
the process.

## 3. Runs

Every property of a passing run is paired with a mutant of the code (PROJECT.json,
"mutants"; the faulty variants stand next to the definitions they replace) that
the run refutes.

| Run | Properties | Instance | Distinct states |
|---|---|---|---|
| MemoriaCache | TypeOK, IntegridadPaginas, LRUExacta, SoloCaeSelect, Coherencia, FullSoloSiTodoModificado | 1 connection (SELECT, INSERT), periodic journal, 4 keys, 3 frames, 2 ms, LFS may fail | 3.0 M |
| MemoriaTodo | ContadorExacto, DesalojoSoloLimpias | all six requests, connection and console, 3 keys, 2 frames, two overlapping journals, LFS may fail | 2.4 M |
| MemoriaEspera | LaEsperaTermina, RespuestaLlega, PerdidaAcotada | 2 connections (INSERT), periodic journal, 2 keys, 1 frame, fair | 0.31 M |
| MemoriaCoherencia | CoherenciaDelValor, violated | 1 connection with JOURNAL, periodic journal | counterexample |
| BloquesTodo | Exclusividad, SinFugas | 2 threads, 3 files, 2 bytes of 3 bits, 1 restart | 0.42 M |
| LFSDurable | NadaSePierde, BinesSinRepetidos | 2 threads, 3 INSERTs, 2 keys, 2 partitions, uint8 wraps at 3, 1 kill | 1.9 M |
| LFSSelect | SelectNoMata, SelectAlDia, SeVuelca, LaCompuertaSeAbre | a thread that writes and drops, one that reads, 2 records, 1 kill, fair | 0.14 M |
| LFSTablas | TypeOK, UnaCompactacion, SiempreArranca | 2 threads, CREATE, DROP, INSERT, 2 entries, 1 kill | 0.94 M |
| Planificador | EjecutoresJustos, ColaJusta, NingunGuionSePierde, MetadataEntera, AbandonoJustificado, TomanTurnos, TodoGuionTermina | 2 scripts of 2 and 3 requests, 2 executors, quantum 1, 2 tables, 2 memories, a table twice in the file system's list, fair | 0.18 M |
| Sesion | Desfase, UnaVez, ReintentoCubre, RepeticionAcotada, SoloJournalMata, TurnoTermina | 2 connections of 2 and 1 requests, 2 FULL_R, 1 kill, fair | 0.40 M |
| Gossip | TypeOK, SeConoce, NoOlvida, IntercambioTermina, SeConocen | 3 memories, seeds in a chain, a bridge or a mutual pair, kernel, 1 kill, fair | 0.04 M |
| GossipKernel | QuedaAlguna, violated | the bridge | counterexample |

The type invariants of Bloques, Planificador and Sesion are proved (section 4)
and left out of the runs.

What each shows:

* **MemoriaCache.** Four keys through three frames make evictions leave holes in
  a segment's numbering, which is where numbering by count and numbering after
  the last page differ. The second millisecond is what distinguishes records of
  one key; the constraint `PocasSiHayTiempo` keeps at most two pages once it has
  come, enough for a page, its rewrite and another page. `PocoAjeno` follows a
  journal that has read a freed page with two records in its hands at most.
* **MemoriaTodo.** One millisecond suffices: what a page's stamp does is MemoriaCache's
  and the theorem's subject (`NoSePierdeAlDesalojar`). DROP leaves wrong entries in the LRU list (it removes while it
  advances); they lead to a crash at worst (`lruColgante`), never to a wrong
  count or to the eviction of a dirty page. The reason is that in the code a
  segment always holds a dirty page when a stale entry would be evicted.
* **MemoriaEspera.** With two connections one may starve behind the other (each
  unlock lets one through and leaves the mutex taken), hence the form of
  `RespuestaLlega`. PerdidaAcotada is for clients that only INSERT. With SELECTs
  it is false: an eviction shifts the indices the journal walks by, and an old
  dirty page is skipped and wiped.
* **BloquesTodo.** `SinMasIncidentes` stops a behaviour at its second incident
  once the first is one after which Exclusividad promises nothing, except that a
  writer whose file was renamed or removed under it is followed to its end. Two
  threads are the least for every overlap of two byte updates, three files for one
  to be written while another takes its name, and three bits a byte for two files
  to share one; the proof (below) covers any number.
* **LFSDurable.** Three records and a modelled uint8_t of 3 give lists of one to
  three records, the truncated one, lists with more or fewer records than
  `elements_count` says, and up to two `.tmp` files merged over an existing
  partition. `TresEnFila` starts the third INSERT when its thread is the only one
  at work, with no kill after it, and stops at `solapadas`, after which both
  properties are silent for the one table.
* **LFSSelect.** `UnoEscribeOtroLee`: SELECTs only read, so one thread does
  nothing else and the other writes. A DROP is followed up before the first
  INSERT only, for the same reason as above, and a kill between the first and the
  second; what follows any other death is not looked at.
* **LFSTablas.** `SegundaEntradaSola`: both CREATEs of the race find the table
  missing and make two entries and two threads, or one cuts off the other's; after a second entry of one life
  requests come one at a time and no kill follows.
* **Planificador.** A quantum of one makes every turn but the last of a script
  end with a push; one script's DESCRIBE of all tables and the other's of one
  meet the walks of `buscarTabla`. `ListaDeTablas` has one table twice, as two
  CREATEs made at once leave it: the kernel appends what arrives without looking
  for it, so `MetadataEntera` says that a table is there no more often than the
  file system sends it. Table t1 may be SC or SHC, t2 is EC, with one
  memory each at most (`Altas`), so that lists are empty, then not, and EC with
  one memory keeps its executor for ever, one of the four ways out that
  `TodoGuionTermina` names. `PocoTrasCruce`: what is lost when two operations
  meet on `queue_listo` is followed up where nothing else has changed.
* **Sesion.** Two connections are the least for one to be held back by the
  other's FULL_R; two requests, for an answer to belong to an earlier one; two
  FULL_R, for the second of them to be taken for that of another request, after
  which a request may be lost: ReintentoCubre is stated up to there.
* **Gossip.** The chain makes what is known travel through a memory that is both
  client and server; the bridge makes one learn from two; the mutual pair is the
  ring, in which both wait for ever, and the liveness properties say so
  (`Anillo`). `KernelDeAUno`: the kernel only reads tables, and asks while no
  more than one exchange is under way.

Bounds are constants, named in the modules: `MaxReloj`, `MaxPagina`,
`MaxRegistros`, `MaxTmp`, `MaxEntradas`, `MaxBloques`, `MaxLlenas`, `MaxCriterio`,
`MaxCaidas`, `Apagones`, `Reinicios`. The runs that check liveness have no
symmetry. Deadlock is checked except where the system really stops: in LFSTablas
and LFSSelect a directory without Metadata keeps the process from ever starting
again; in Planificador the process dies, or every script has ended; in Sesion
the turns end; in Gossip rings of seeds wait for ever. Elsewhere keys, tables
and threads are symmetric wherever no CHOOSE or order depends on them.

### Findings

* `memoria/funciones.c:265` says of a page brought in clean that "el dato es
  consistente". Two overlapping journals falsify it (run MemoriaCoherencia): the
  slower one overwrites the LFS record with an older value under a newer
  timestamp after the page was read back, and a clean page is never sent again.
* `kernel/funcionesKernel.c:364` says of the test that the table has more than
  one memory that without it the only memory it can connect to would be removed.
  The test does not prevent that (run GossipKernel): what is removed when the
  first memory cannot be reached is not that one but the memory of the
  configuration, which may be alive and the only one that is.

### Fairness

`Memoria!SpecJusta`: weak fairness of what a thread does once it has a request
(the operating system runs threads, sends and receives end); strong fairness of
`Entrar`, the acquisition of a mutex that is released again and again; weak
fairness of `Despertar`, because `procesoJournal` is an endless loop with a
sleep. Nothing is assumed of clients.

`LFS!SpecEquitativa`: strong fairness of each attention thread and compaction
(they contend for a table's mutex that is taken and released again and again),
weak fairness of the dump, which takes no lock. Nothing is assumed of requests
or kills. Both liveness properties allow for the death of the process.

`Planificador!SpecEquitativa`: strong fairness of each executor (the mutexes it
needs are released again and again), weak fairness of `atenderNuevos`,
`atenderListos`, of the answers to JOURNAL and gossip, and of the deaths after
which a thread has nothing else to do. Nothing is assumed of the console.

`Sesion!SpecEquitativa`: every executor and attention thread, and the periodic
journal, go on; `Entrar` acquires a mutex that is released again and again.

`Gossip!SpecEquitativa`: strong fairness of each client and of being served (the
mutex of a memory is contended), weak of the rest. Nothing is assumed of kills
and restarts.

## 4. Proofs

All for every value of the constants, from the named ASSUMEs of the modules. A
theorem with a hypothesis on the clients (`SinDrop`, no client sends DROP;
`UnSoloJournal`, no JOURNAL requests and at most one periodic journal;
`SoloEscribe`, neither SELECT nor DROP) has it because the property is false
without it.

**Memoria** (`MemoriaProofs`).

* `PaginasIntegras`: `Spec => []IntegridadPaginas`, for any clients, DROP and
  overlapping journals included. The property is not inductive: a step looks at
  the frames, at `segmentos` and at the threads' locals too. `InvBase` adds that
  segments, pages and frames are coherent (every page's frame holds its key with
  a timestamp, every page has a segment, keys and numbers are distinct in a
  segment), the types, and what each `pc` implies. The lemmas `QuitarPaginas`,
  `PonerPagina`, `SegmentosTras`, `IndiceNuevo` say what the cache's operators
  preserve; then there is one lemma per group of actions.
* `Tipos`, `CuentaLosLibres` (ContadorExacto), `NoSePierdeAlDesalojar`
  (DesalojoSoloLimpias): also for any clients. A DROP leaves the LRU list with
  entries of pages that are gone and without some of pages that are there. What
  stands up to that is `InvLista`: no two entries for a page, and that of a page
  that is there has its `modificado` (`LRUFloja`); the counter is exact; and every
  segment holds a dirty page (`SegmentosVivos`), because the INSERT that makes a
  segment makes a dirty page with it and only what takes the segment away takes
  that page. So a stale entry that the eviction follows ends in the NULL it
  dereferences, never in a miscount.
* `ListaExacta`: under `SinDrop`, LRUExacta. `InvLRU` adds that list and pages
  correspond one to one with no repeated path and number. `LRUExacta` alone, a
  count and an inclusion, is too weak to survive `RemoveAt`. `FullConMotivo`
  (FullSoloSiTodoModificado) follows: what is not in the list is modified.
* `UnaSolaMuerte`: under `SinDrop` and `UnSoloJournal`, `[]SoloCaeSelect`: a
  SELECT alone kills the process, by bringing the first page of a segment or by
  evicting a page between the journal's steps; with no SELECT nothing does.
  `InvCaida` relates the journal's remembered segment to the table while nobody
  else wipes it, and says that without SELECTs every page is dirty (`TodasSucias`),
  so that no eviction finds a victim and the page counted or got stays where it
  was (`NadaSuelto`).
* `BitConsistente`: under the same, `[]Coherencia`, a clean page is what the LFS
  has. It needs `PorEnviar`: what a journal has in its list and has yet to send
  is still a modified page of that key, so that what it writes in the LFS is
  never what a clean page mirrors. A second journal would wipe that page and let
  it come back clean, which is how MemoriaCoherencia breaks it. A journal that
  has read a freed page may send anything; the property is silent until it has
  wiped the pages (`AjenoSeVacia`), and holds again after.
* `LaPerdidaSeAcota`: `PerdidaAcotada`, under `UnSoloJournal`, a file system that
  answers and `SoloEscribe` (no SELECT, no DROP): what a wipe throws away unsent is
  newer than its journal. The journal walks the pages by position with no mutex, so
  the proof follows it: a page is `Vista` when its segment is behind, or `z` pages
  of the segment come before it (`UnaPorPosicion`, `EnSuPosicion`: one page in each
  position). With SELECTs an eviction would shift the positions and a dirty page
  could be skipped; while every page is dirty nothing is evicted (`NadaSale`), and
  new pages come after those there are. Then (`Copiada`) a record seen and not
  rewritten since the journal began is in its list or in the file system, and the
  list says nothing else of that key.

**Bloques** (`BloquesProofs`).

* `TiposBloques`: `[]TypeOK`.
* `BloquesExclusivos`: `[]Exclusividad`, for any number of threads, files,
  bytes and restarts. `Inv` is `InvBase /\ (Sano => Orden)`, where `Sano` says
  that no confusing incident has happened: a full bitmap, two pending updates of a
  byte one of which is a clean, two threads at work on a file (a record is saved
  over what a compaction renamed or a DROP removed, and a block comes back in a
  file made anew), a death half way through a free. `Orden` has eight parts: one
  thread at work on a file, copies that match their file, blocks owned once,
  marked, in range, on their way from bitmap to file, read bytes that are up to
  date, and no two pending writes of one byte.
* `BloquesSinFugas`: `[]SinFugas`, until something worse than a full bitmap
  happens: besides the above, a file made or renamed over another, a DROP that
  removes a file that came after it had listed those to free, a death. The
  property goes on after a full bitmap, where `Orden` does not hold any more.
  `InvCuenta` keeps the parts of it that do, and says that every marked block has
  an owner, in the place of its having one owner.

**Sesion** (`SesionProofs`), for any connections, lengths of turns and FULL_R.

* `TiposSesion`: `[]TypeOK`, by `Base`, which says what each `pc` of the two sides
  implies for the connection and for what is on its way.
* `DesfaseDeJournal`: `[]Desfase`. Inductive only with the rest of `Orden`:
  `Balance` (answers given and to be given, against requests waiting and
  JOURNALs), `Primera` (before the first request is taken there is at most that
  one on its way), `Cierre` (what a closed connection still has) and `Sola` (a
  turn without FULL_R has one thing in flight, its own). A request on its way is
  counted by lemmas on `Cuantos`, the number of JOURNALs in a queue.
* `MuertePorJournal`: `[]SoloJournalMata`; `TurnoSinFull`: `[]UnaVez`, both from
  the same invariant.
* `ElReintentoCubre`: `[]ReintentoCubre`. A request left behind is lost only if the
  executor goes past it, and it reads answers late once it has sent a JOURNAL: the
  property alone does not say why one FULL_R is harmless. `Retoma` does: until the
  first FULL_R the connection has one thing in flight; that FULL_R finds the
  connection empty (`Perdida`), so the JOURNAL travels alone and is the one thing
  that can be answered (`Journaleando`); from then on every request the executor
  left behind, and the one it waits for, has run or is on its way (`Retomada`).
* `LaRepeticionSeAcota`: `[]RepeticionAcotada`, for any number of FULL_R. `Repite` is
  a potential: the runs there were, the requests on their way (a JOURNAL counts for
  the two answers it gets), what the attention thread has in its hands, the answers
  other than OK on theirs and the request about to be sent add up to no more than
  the executor's place and the JOURNALs sent. Sending moves a unit from one place
  to another, an OK moves the place on, and a JOURNAL raises both sides. It rests
  on lemmas of `Lemas` on the fold that sums a function (`SumaProps`) and on how
  many elements of a queue are in a set (`CuentaAlFinal`, `CuentaEnCola`).

**Planificador** (`PlanificadorProofs`), for any scripts, tables, memories,
executors and quantum.

* Every action is first reduced to what it does to the scripts (`EfectoEjecutar`,
  `EfectoOtros`): an executor goes on, takes a request, leaves its script or puts
  it back; the others move one on or none. The rest is proved of these nine
  effects, and not of the thirty actions.
* `TiposPlanificador`: `[]TypeOK`, by `Base` (what each executor's `pc` says of
  its script, request and quantum).
* `NingunEjecutorSePierde`: `[]EjecutoresJustos`, on every way out of `ejecutar`.
* `ImplementaTurnos`: `Spec => TomanTurnos`, the refinement. It needs `Unidad`: a
  script is in one place at most, among both queues, `atenderNuevos` and the
  executors, and has not ended while it is in one. What meets on `queue_listo`
  loses scripts and doubles none (`TrasEnlazar`), so `Unidad` holds with no
  exception. `Vista` then reads Turnos' view of a script off whoever holds it,
  every effect is a step of Turnos or none, and the place that `Empezar` needs is
  there because scripts that run inject into the executors other than the free
  one.
* `SemaforoDeListos`: `[]ColaJusta`, that `semaforoListo` counts the ready queue
  while no two operations have met on it. `Cola` adds that one push at most is
  between its search and its link, and that it still has the last node.
* `CadaGuionEnUnLugar`: `[]NingunGuionSePierde`. `Unidad` gives at most one place
  for a script; `Estan` gives at least one, until two operations meet.
* `MetadataCompleta`: `[]MetadataEntera`, and `SoloConMotivo`:
  `AbandonoJustificado`. `Fichas` says that whoever empties the list has its
  mutex and that what has arrived is the beginning of what the file system
  sends, whatever it repeats, and that a walk of the list that no DESCRIBE
  crossed has seen what was known.

**Gossip** (`GossipProofs`), for any memories, seeds, kills and restarts.

* `TiposGossip`: `[]TypeOK`. The types include that no table repeats a memory,
  so `obtenerUnion`, a loop that appends what is missing, must not repeat one.
* `CadaUnaSeConoce`: `[]SeConoce`. The table that takes the place of a memory's
  own was made by another, of what that one was sent some time before, so the
  exchange has to be followed (`Pendientes`, `Devueltas`): from `Servir` until
  `Reemplazar` the mutex of the seed is its client's and the seed's table is
  still the one it sent, all of which comes back. A kill may leave a mutex taken
  for ever, never an exchange half done.
* `NingunIntercambioOlvida`: `NoOlvida`, from the same invariant.

**LFS** (`LFSProofs` and `LFSDatosProofs`), for any tables, threads, files, kills
and restarts; the one assumption is that the tables are finitely many and no more
than the entries.

* `UnaCompactacionPorTabla`: `[]UnaCompactacion`. The mutex is one per entry of
  the list, and two CREATEs at once leave a table with two, so the property says
  more than that a mutex excludes: it holds because each thread looks its table
  up and finds the first entry. `HilosBien` says that every thread of a table
  that is not in `solapadas` has the mutex of that entry, and that the one at work
  holds it; `AlAgregar` and `AlSacar` say that an append and the removal of
  another table leave it the one to be found. `EntradasBien` keeps an entry to
  one table while the process lives, with its mutex destroyed by a DROP of that
  table only. What takes entries out is a DROP, or a `list_add` that links after
  one that is no longer the last: `ClientesBien` says where the threads between
  their walk and their link may be, and `Anotar` puts what they cut off in
  `solapadas`.
* `TiposLFS`: `[]TypeOK`, by `Tipado`: the fields of each thread by its `pc`, and
  what the loops of the code make of records (`LevantarTipo`, `ConcatenarBien`).
* `SiempreSePuedeArrancar`: `[]SiempreArranca`. Between the deletion of the
  `.tmpc` files and the first new partition a compaction leaves nothing on disk,
  so the invariant (`Arranca`) has to count a compaction at work, and that needs
  that an entry never made has no thread.
* `UnRegistroPorClave`: `[]BinesSinRepetidos`. Compactions write the keys one by
  one, so the invariant (`Bines`) adds that the one at work has written into the
  partitions what it has gone past and no other key (`Escritas`), from a list
  with one record per key (`LevantarDistintas`).
* `LoConfirmadoSeConserva`: `[]NadaSePierde`, the durability of the store. The
  property looks for a record in any place, and is far from inductive: a record
  that is only where it is about to be deleted is as good as lost. `Resguardo` is
  built in layers. `Listadas`: the table of an answered INSERT has been in the
  list, with its directory, since. `Numeradas`: the `.tmp` files of a table are
  numbered from 0 with no gap, and fewer than an `uint8_t` counts to, but while a
  compaction renames them, so the dump creates and never overwrites, and a SELECT
  opens them all. `Enlazados`: what an INSERT has linked and not yet counted is in
  the memtable, or at risk already, or its list was freed. `Firme(t, r)`: a record is in a `.tmp`, or in
  partitions that are not about to be deleted, or in the hands of the one
  compaction at work, in what it has still to read or to write. `EnMemoria(c)`:
  it is in the memtable, ahead of the dump or with nothing to be cleaned by it.
  `Cubierto(c)`: one of the two, or a named race. Then a dump turns EnMemoria into
  Firme (`MemoriaDump`), a compaction carries Firme from file to file
  (`FirmeComp`, where `LevantarCubre` says that the merge keeps, for each key, a
  record as new as any), and a kill leaves what is on disk.
* `SelectNoMataSinMotivo`: `[]SelectNoMata`, of the four ways in which a missing
  file or list kills a reader. `Lector` and `Servido` follow the reader: it has the
  mutex of the entry that a search would find now (`EntradaFija`), so once it is let
  through no compaction of its table is at work (`PasaQuieta`); while nothing
  crosses it none starts (`QuietaSigue`), and what it has listed stays
  (`MesaServida`). `ConPartes` says that a table with Metadata has its partitions,
  or a living thread is about to make them; its Metadata is in `Listadas`. The
  property is about the instant of death, so the last part is that only
  `SelectMuere` has those motives and that the dead take no step.
* `ElSelectRespondeAlDia`: `[]SelectAlDia`. The property speaks of the last step of
  a reader and no step of it alone keeps it; `Halla(h, r)` says of each record that
  the reader owes where one as new is: in what it has seen, in the partition or in
  a listed `.tmp` it has yet to open, or in the memtable. The theorem on durability
  gives it at the gate (`HallaAlPasar`: `Cubierto`, with no compaction at work, is
  one of the places the reader will go to, and where the record is the only one of
  its key the scan finds it, `LaUnica`); others' steps keep it (`HallaSigue`), or
  put the record among the named races; each of the reader's own carries it to the
  next place (`HallaLeyendo`). Only files that are written count (`Asentado`): the
  one the dump is at may have any part of its list, which is still in the memtable.

What the proofs taught about the model. Two cases that no run had shown surfaced
as steps that would not close, and are now in the model: of two CREATEs of one
table at once, the slower makes the partitions again, empty, over what a
compaction has written meanwhile (those records are `dispensados`); and when one
`list_add` cuts off the nodes another had just linked (`Separar`), a third thread
that was about to link after one of those adds to a list nobody reads.

Loops over records (`Levantar`, `Concatenar`, `obtenerUnion`) are recursive
functions, and what they preserve is proved by the least index that would break
it (`MinimoNatural` of `Lemas`); `PrimeraPosicion`, `RemoveAtProps` and
`RemoveFirstProps` say what the operators of the community modules that search
and cut a sequence return.

Every safety property that a passing run checks is a theorem. Only model-checked:

* what is out of the prover's reach: liveness under fairness and ENABLED
  (LaEsperaTermina, RespuestaLlega, SeVuelca, LaCompuertaSeAbre,
  TodoGuionTermina, TurnoTermina, IntercambioTermina, SeConocen);
* the two properties that the code violates (CoherenciaDelValor, QuedaAlguna).

## 5. Abstractions and what is not modelled

* Memoria: from the test of `modificado` to the end of the copy a page is read by
  the journal in one step, so a record torn by a concurrent INSERT is not seen; what
  a freed page reads as is a clean page or some record of that table; the lock at 627 and the store at 628 are one
  step; no wrap of the uint32_t clock; table names are case-sensitive; the file
  system answers with its own state at once. That acknowledged INSERTs of the
  same millisecond are dropped is modelled.
* Bloques: contents of the blocks. A list of more than 255 blocks makes the loop
  that counts them (in an uint8_t) go on for ever; in the model that thread may
  take no more steps, as any may. `remove`, `rename` and the saving of a list are
  one step each.
* LFS: the existence check and the search for the mutex are one step; the dump
  counts the `.tmp` files and the list of a table in one step; a list another
  `dictionary_put` has taken the place of is to the dump as it was then; the library
  of the lists is not in the repository: its `list_add` is taken to walk to the last
  node here, and to find it by its index in the kernel; the `elements_count` of `listaDeTablas` is left out (`list_remove` and
  DESCRIBE alone read it); a freed list entry is not read, but for one a CREATE
  links to; partitions are created in one step; at start the directories are
  listed once (the code lists them twice); `dictionary_put` of a key another
  thread has just put has both outcomes, since the library is not in the
  repository; ties of timestamps are settled by any order of readdir.
* Sesion: `recibirRequest` and `recibirResponse` deliver whole messages; a DESCRIBE
  of all tables, which is answered with several responses, is not sent in it; a
  death cuts every connection at once. The first send on a dead connection may
  succeed, the second is a SIGPIPE.
* Planificador: a request is what it needs, a table's criterion or the first
  memory of the table; the exchange with the memory is Sesion's, and what the
  gossip thread receives is any table with a memory in it, or NULL. A pop of
  `queue_listo` is one step. The criterion a table has is fixed by the file
  system. EC by `rand` is any index but the last. A file named by RUN exists.
  Adding to SHC is left out: nothing is ever read from it.
* Gossip: a memory is its address; the seeds never change; `indice` starts at
  one of the seeds (beyond them it is a wild read); the file descriptors are not
  modelled.
* Not modelled: the layout of bytes on a socket; the parser of lines (a stateless
  conversion); how a record is cut over blocks and put together again; the
  reload of configurations (the memory's thread is commented out; the kernel's
  replaces delays, which the models leave open, and the quantum, read once per
  turn); logs and consoles' formatting; DESCRIBE in the LFS and MAX_TAM_VALUE
  (read-only); memory errors with no outcome of their own (a string one byte
  short, a freed list entry, the sorted list that `list_sorted` returns and
  nobody takes).
* Behaviours of the memory that the models contain and no property speaks of,
  because what they do is what the code says: the answer of the file system to a
  forwarded DROP or journal is ignored (`memoria/funciones.c` 865, 529), an INSERT in the millisecond of
  the page's record is dropped and answered with INSERT_R (388).

## 6. What could follow

`Almacen`, an abstract promise of the LFS (a table of
newest records with atomic INSERT and SELECT), implemented by LFS without kills
and named races; the cut of a record over blocks against a plain byte sequence;
two memories over one file system, and what SC and EC promise of a read after a
write.
