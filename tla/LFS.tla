-------------------------------- MODULE LFS --------------------------------
(***************************************************************************)
(* The file system process (Lissandra): the memtable, the dump that writes *)
(* it to .tmp files, the compaction that merges those into the partitions, *)
(* and the requests that read, write, create and drop tables meanwhile.    *)
(*                                                                         *)
(* Threads: one attention thread per request (Clientes; the console is one *)
(* more), the dump, and one compaction thread per entry of the table list. *)
(* The only lock is the mutex of a list entry: a compaction holds it, and  *)
(* a SELECT takes it and releases it before it starts reading.             *)
(*                                                                         *)
(* A file is the sequence of its records; how it is laid over blocks is    *)
(* the subject of Bloques.  A record is its timestamp, its key and n, the  *)
(* number of the INSERT that made it, which stands for the value.          *)
(***************************************************************************)
EXTENDS Integers, SequencesExt

CONSTANTS
  Tablas, Claves,
  Particiones,     \* PARTITIONS of every table
  EnDisco,         \* the tables there are when the process is started
  Clientes,
  Operaciones,     \* the requests that reach the process
  TopeUint8,       \* 256
  Apagones,        \* bound: how often the process is killed from outside
  MaxRegistros,    \* bound: INSERTs
  MaxTmp,          \* bound: .tmp files of a table
  MaxReloj,        \* bound: last millisecond of the modelled clock
  MaxEntradas,     \* bound: list entries made in one life of the process
  Nulo, NoExiste, SinLista

Registros == [timestamp : 1..MaxReloj, key : Claves, n : 1..MaxRegistros]

ASSUME ConstantesValidas ==
  /\ Claves \subseteq Nat
  /\ Particiones \in Nat \ {0}
  /\ IsFiniteSet(Tablas) /\ Cardinality(Tablas) <= MaxEntradas
  /\ EnDisco \subseteq Tablas
  /\ Operaciones \subseteq {"SELECT", "INSERT", "CREATE", "DROP"}
  /\ {TopeUint8, MaxTmp, MaxReloj, MaxEntradas} \subseteq Nat \ {0}
  /\ {Apagones, MaxRegistros} \subseteq Nat
  /\ Nulo \notin Registros /\ {NoExiste, SinLista} \cap Seq(Registros) = {}

Entradas == 1..MaxEntradas
Numeros == 0..(MaxTmp - 1)
NumerosBin == 0..(Particiones - 1)

VARIABLES
  diccionario,     \* the memtable: table -> its records, or SinLista
  elementos,       \* elements_count of its lists
  vieja,           \* the list the dump is at, if another has taken its place
  listaDeTablas,   \* entries <<table, e>>, in list order
  mutex,           \* e -> "libre", "tomado", "destruido" or "nunca"
  directorios,     \* the tables with a directory
  metadatas,       \* the tables with a Metadata file
  tmp, tmpc, bin,  \* table -> file number -> records, or NoExiste
  cl,              \* the attention threads
  dump,            \* the dump
  comp,            \* the compaction threads
  reloj, cuantos,  \* getCurrentTime; INSERTs so far
  caida, apagones, \* "no" or what killed the process; kills from outside
  \* Read by the properties only:
  confirmados,     \* what was answered with INSERT_R: table and record
  dispensados,     \* the n of records that a named race has put at risk
  solapadas,       \* tables dropped, or with an entry of the list lost, a gap
                   \* in the .tmp numbers, or TopeUint8 .tmp files
  cortadas,        \* tables left without partitions when the process died
  debe, sereno     \* per SELECT: what it must find; nothing has crossed it

cuenta == <<elementos, vieja>>
disco == <<directorios, metadatas, tmp, tmpc, bin>>
listas == <<listaDeTablas, mutex>>
tiempo == <<reloj, cuantos>>
fallas == <<caida, apagones>>
lectura == <<debe, sereno>>
historia == <<confirmados, dispensados, solapadas, cortadas, lectura>>
vars == <<diccionario, cuenta, disco, listas, cl, dump, comp, tiempo, fallas, historia>>

Libre ==
  [pc |-> "libre", t |-> Nulo, k |-> 0, reg |-> Nulo, error |-> FALSE,
   ultimo |-> 0, suLista |-> "vigente", entrada |-> 0, visto |-> Nulo,
   vistos |-> {}]

DumpDormido ==
  [pc |-> "dormido", tablas |-> {}, hechas |-> {}, t |-> Nulo, numero |-> 0,
   posicion |-> 0, escritos |-> <<>>]

Hilo(paso, t) ==
  [pc |-> paso, t |-> t, mutex |-> 0, porRenombrar |-> {}, claves |-> <<>>,
   j |-> 1]

-----------------------------------------------------------------------------
(* Records and files. *)

Particion(k) == k % Particiones

\* registroMasNuevoYLiberarElViejo; the first one stays on a tie.
RegistroMasNuevo(r1, r2) ==
  CASE r1 = Nulo -> r2
    [] r2 = Nulo -> r1
    [] OTHER -> IF r1.timestamp >= r2.timestamp THEN r1 ELSE r2

\* escanearArchivo of a partition stops at the first record of the key ...
PrimeroDe(s, k) ==
  LET i == SelectInSeq(s, LAMBDA r : r.key = k) IN IF i = 0 THEN Nulo ELSE s[i]

\* ... and of a .tmp goes on: registroAuxiliar is the record it has found and
\* the one it reads into, so the last one of the key is what is left.
UltimoDe(s, k) ==
  LET i == SelectLastInSeq(s, LAMBDA r : r.key = k) IN IF i = 0 THEN Nulo ELSE s[i]

\* Faulty variant: the record read last always stays.
InsertarElUltimo(lista, r) ==
  Append(RemoveFirstMatch(lista, LAMBDA q : q.key = r.key), r)

\* Faulty variant: the one it replaces stays in the list.
InsertarSinQuitar(lista, r) == Append(lista, r)

\* insertarRegistroEnLaLista: the record of the key that is in the list is taken
\* out (list_remove_by_condition), and goes back only if its timestamp is greater.
InsertarRegistro(lista, r) ==
  LET i == SelectInSeq(lista, LAMBDA q : q.key = r.key) IN
  IF i = 0 THEN Append(lista, r)
  ELSE Append(RemoveAt(lista, i), IF lista[i].timestamp > r.timestamp THEN lista[i] ELSE r)

\* levantarClavesDe: the records of a file, one after the other.
Levantar(claves, s) ==
  LET hasta[i \in 0..Len(s)] ==
        IF i = 0 THEN claves ELSE InsertarRegistro(hasta[i - 1], s[i])
  IN hasta[Len(s)]

Existentes(archivos) == {n \in DOMAIN archivos : archivos[n] # NoExiste}

\* The records of the files, in one of the orders readdir may give.
Contenidos(archivos) ==
  LET hay == Existentes(archivos)
  IN {FlattenSeq([i \in DOMAIN s |-> archivos[s[i]]]) : s \in SetToSeqs(hay)}

-----------------------------------------------------------------------------
(* The table list. *)

ExisteLaTabla(t) == \E i \in DOMAIN listaDeTablas : listaDeTablas[i][1] = t

\* Faulty variant: the last entry of the table.
IndiceUltima(t) == SelectLastInSeq(listaDeTablas, LAMBDA x : x[1] = t)

\* list_find: the first entry of the table.
Indice(t) == SelectInSeq(listaDeTablas, LAMBDA x : x[1] = t)
Entrada(t) == listaDeTablas[Indice(t)][2]

\* The compactions of t at work.
Compactando(t) ==
  {e \in Entradas :
     comp[e].t = t /\ comp[e].pc \notin {"nace", "dormida", "espera", "fin"}}

-----------------------------------------------------------------------------
(* What the properties look back on. *)

EnMemtable(t) == IF diccionario[t] = SinLista THEN {} ELSE ToSet(diccionario[t])
EnArchivos(archivos) == UNION {ToSet(archivos[n]) : n \in Existentes(archivos)}
LosN(R) == {r.n : r \in R}

\* What is lost of a table if the process dies now: the memtable; what a
\* compaction has deleted and not written back; and the .tmpc files, which
\* nobody reads and the renames of a later compaction may replace.
Mueren(t) ==
  UNION ({EnMemtable(t), EnArchivos(tmpc[t])}
           \cup {ToSet(comp[e].claves) : e \in Compactando(t)})

\* Those, and the older ones that had given way to them.
Arrastran(t, R) ==
  {c.reg.n : c \in {d \in confirmados : d.t = t /\ \E r \in R :
                       r.key = d.reg.key /\ r.timestamp >= d.reg.timestamp}}
EnRiesgo(t) == Arrastran(t, Mueren(t))

\* The dump is at work and will not see what is added to the list of t, or
\* may not, but will clean it away.
SinVolcar(t) == dump.pc # "dormido" /\ t \notin dump.tablas \ dump.hechas

Perturbar(T) == sereno' = [h \in Clientes |-> sereno[h] /\ cl[h].t \notin T]

-----------------------------------------------------------------------------
\* The process dies: nothing of it goes on.
Caer(motivo) ==
  /\ caida' = motivo
  /\ dispensados' = dispensados \cup UNION {EnRiesgo(t) : t \in Tablas}
  /\ cortadas' = cortadas \cup
       {t \in Tablas : \/ \E e \in Compactando(t) : comp[e].pc = "crearBin"
                      \/ \E h \in Clientes : cl[h].t = t /\ cl[h].pc = "particiones"}
  /\ solapadas' = solapadas \cup
       {t \in Tablas : \E e \in Compactando(t) : comp[e].pc = "renombrar"}
  /\ UNCHANGED <<diccionario, cuenta, disco, listas, cl, dump, comp, tiempo,
                 confirmados, lectura>>

Morir(motivo) == Caer(motivo) /\ UNCHANGED apagones

\* The list and the threads made at start for the tables of a sequence.
ListaDe(s) == [i \in DOMAIN s |-> <<s[i], i>>]
MutexDe(s) == [e \in Entradas |-> IF e \in DOMAIN s THEN "libre" ELSE "nunca"]
HilosDe(s) ==
  [e \in Entradas |-> IF e \in DOMAIN s THEN Hilo("nace", s[e]) ELSE Hilo("fin", Nulo)]

Init ==
  LET s == SetToSeq(EnDisco) IN
  /\ diccionario = [t \in Tablas |-> SinLista]
  /\ elementos = [t \in Tablas |-> 0] /\ vieja = SinLista
  /\ directorios = EnDisco /\ metadatas = EnDisco
  /\ tmp = [t \in Tablas |-> [n \in Numeros |-> NoExiste]]
  /\ tmpc = [t \in Tablas |-> [n \in Numeros |-> NoExiste]]
  /\ bin = [t \in Tablas |-> [p \in NumerosBin |-> IF t \in EnDisco THEN <<>> ELSE NoExiste]]
  /\ listaDeTablas = ListaDe(s) /\ mutex = MutexDe(s) /\ comp = HilosDe(s)
  /\ cl = [h \in Clientes |-> Libre]
  /\ dump = DumpDormido
  /\ reloj = 1 /\ cuantos = 0
  /\ caida = "no" /\ apagones = 0
  /\ confirmados = {} /\ dispensados = {}
  /\ solapadas = {} /\ cortadas = {}
  /\ debe = [h \in Clientes |-> {}]
  /\ sereno = [h \in Clientes |-> FALSE]

\* A request op reaches a free attention thread.
Recibe(h, op) == caida = "no" /\ cl[h].pc = "libre" /\ op \in Operaciones

\* A thread of the living process is at a step.
En(h, paso) == caida = "no" /\ cl[h].pc = paso
EnDump(paso) == caida = "no" /\ dump.pc = paso
EnComp(e, paso) == caida = "no" /\ comp[e].pc = paso

Sigue(h, paso) == cl' = [cl EXCEPT ![h].pc = paso]
Termina(h) == cl' = [cl EXCEPT ![h] = Libre]

-----------------------------------------------------------------------------
(* INSERT *)

\* insertLFS: the timestamp is taken, the table looked up, and the dictionary
\* asked whether it has a list for it.
Insert(h, t, k) ==
  /\ Recibe(h, "INSERT")
  /\ cuantos < MaxRegistros
  /\ cuantos' = cuantos + 1
  /\ \E ahora \in reloj..MaxReloj :
       /\ reloj' = ahora
       /\ cl' = [cl EXCEPT ![h] =
            [Libre EXCEPT !.pc = IF diccionario[t] = SinLista THEN "poner" ELSE "agregar",
                          !.t = t, !.error = ~ExisteLaTabla(t),
                          !.reg = [timestamp |-> ahora, key |-> k, n |-> cuantos + 1]]]
  /\ UNCHANGED <<diccionario, cuenta, disco, listas, dump, comp, fallas, historia>>

\* The threads that are about to link a node to the list of t, after one that is
\* beyond the first u; those that are at the list of a table in T ...
PorEnlazar(t, u) ==
  {g \in Clientes : /\ cl[g].pc = "enlazar" /\ cl[g].t = t
                    /\ cl[g].suLista = "vigente" /\ cl[g].ultimo > u}
EnSuLista(T) ==
  {g \in Clientes : /\ cl[g].pc \in {"enlazar", "contar"} /\ cl[g].t \in T
                    /\ cl[g].suLista \in {"vigente", "cortada"}}

\* ... and what they are left with: a node that was cut off, a list nobody looks
\* at, or a freed one.
Separar(hilos, como, otros) ==
  [g \in Clientes |-> IF g \in hilos THEN [otros[g] EXCEPT !.suLista = como]
                                     ELSE otros[g]]

\* dictionary_put of a new list; if another thread has put one meanwhile, the
\* new one takes its place or stays behind it, as the dictionary has it.
Poner(h) ==
  LET t == cl[h].t
      sigue == [cl EXCEPT ![h].pc = "agregar"] IN
  /\ En(h, "poner")
  /\ \/ /\ diccionario' = [diccionario EXCEPT ![t] = <<>>]
        /\ elementos' = [elementos EXCEPT ![t] = 0]
        /\ vieja' = IF dump.t = t /\ vieja = SinLista THEN diccionario[t] ELSE vieja
        /\ dispensados' = dispensados \cup LosN(EnMemtable(t))
        /\ cl' = Separar(EnSuLista({t}), "reemplazada", sigue)
     \/ /\ diccionario[t] # SinLista
        /\ cl' = sigue
        /\ UNCHANGED <<diccionario, cuenta, dispensados>>
  /\ UNCHANGED <<disco, listas, dump, comp, tiempo, fallas, confirmados,
                 solapadas, cortadas, lectura>>

\* dictionary_get, and list_add looks for the last node ...
Agregar(h) ==
  /\ En(h, "agregar") /\ diccionario[cl[h].t] # SinLista
  /\ cl' = [cl EXCEPT ![h].pc = "enlazar", ![h].ultimo = Len(diccionario[cl[h].t])]
  /\ UNCHANGED <<diccionario, cuenta, disco, listas, dump, comp, tiempo, fallas,
                 historia>>

\* The dump has cleaned the dictionary since: dictionary_get returns NULL.
AgregarSinLista(h) ==
  /\ En(h, "agregar") /\ diccionario[cl[h].t] = SinLista
  /\ Morir("insertSinLista")

\* ... and links the new one after it, which drops what other threads have linked
\* there since, and leaves them linking to it.  elements_count is read ...
Enlazar(h) ==
  LET t == cl[h].t
      u == cl[h].ultimo
      vigente == cl[h].suLista = "vigente"
      alLado == IF vigente THEN ToSet(SubSeq(diccionario[t], u + 1, Len(diccionario[t])))
                ELSE {}
      sigue == [cl EXCEPT ![h].pc = "contar", ![h].ultimo = elementos[t]]
  IN
  /\ En(h, "enlazar")
  /\ diccionario' = IF vigente
       THEN [diccionario EXCEPT ![t] = Append(SubSeq(@, 1, u), cl[h].reg)]
       ELSE diccionario
  /\ dispensados' = dispensados \cup LosN(alLado) \cup (IF vigente THEN {} ELSE {cl[h].reg.n})
  /\ cl' = Separar(IF vigente THEN PorEnlazar(t, u) ELSE {}, "cortada", sigue)
  /\ UNCHANGED <<cuenta, disco, listas, dump, comp, tiempo, fallas, confirmados,
                 solapadas, cortadas, lectura>>

\* ... and written, one more: what other threads have added to it since is lost.
\* INSERT_R, unless the table was not there.
Sumar(h) ==
  LET t == cl[h].t IN
  /\ En(h, "contar")
  /\ elementos' = IF h \in EnSuLista({t}) THEN [elementos EXCEPT ![t] = cl[h].ultimo + 1]
                                         ELSE elementos
  /\ confirmados' = IF cl[h].error THEN confirmados
                    ELSE confirmados \cup {[t |-> t, reg |-> cl[h].reg]}
  /\ dispensados' = dispensados \cup
       (IF cl[h].suLista = "liberada" \/ SinVolcar(t) THEN {cl[h].reg.n} ELSE {})
  /\ Termina(h)
  /\ UNCHANGED <<diccionario, vieja, disco, listas, dump, comp, tiempo, fallas,
                 solapadas, cortadas, lectura>>

\* The list it adds to has been freed.
EnlazarLiberado(h) ==
  /\ En(h, "enlazar") \/ En(h, "contar")
  /\ cl[h].suLista = "liberada"
  /\ Morir("insertListaLiberada")

-----------------------------------------------------------------------------
(* SELECT *)

\* selectLFS finds the table and its mutex; with no table there is no answer.
Select(h, t, k) ==
  /\ Recibe(h, "SELECT")
  /\ ExisteLaTabla(t)
  /\ cl' = [cl EXCEPT ![h] = [Libre EXCEPT !.pc = "compuerta", !.t = t, !.k = k,
                                           !.entrada = Entrada(t)]]
  /\ debe' = [debe EXCEPT ![h] = {c.reg : c \in {d \in confirmados : d.t = t /\ d.reg.key = k}}]
  /\ sereno' = [sereno EXCEPT ![h] = FALSE]
  /\ UNCHANGED <<diccionario, cuenta, disco, listas, dump, comp, tiempo, fallas,
                 confirmados, dispensados, solapadas, cortadas>>

\* Faulty variant: the mutex of the table is not asked for.
PasaSiempre(e) == TRUE

\* A destroyed mutex makes nobody wait.
Pasa(e) == mutex[e] # "tomado"

\* Some .tmp has two records of the key.
Repetida(t, k) ==
  \E n \in Existentes(tmp[t]) :
    Cardinality({i \in DOMAIN tmp[t][n] : tmp[t][n][i].key = k}) > 1

\* pthread_mutex_lock, pthread_mutex_unlock: from here on it only reads.
Compuerta(h) ==
  /\ En(h, "compuerta")
  /\ Pasa(cl[h].entrada)
  /\ Sigue(h, "bin")
  /\ sereno' = [sereno EXCEPT ![h] = TRUE]
  /\ debe' = [debe EXCEPT ![h] = IF Repetida(cl[h].t, cl[h].k) THEN {} ELSE @]
  /\ UNCHANGED <<diccionario, cuenta, disco, listas, dump, comp, tiempo, fallas,
                 confirmados, dispensados, solapadas, cortadas>>

\* config_save empties the file before it writes it: the t_config another
\* thread makes of it meanwhile has nothing, and is used.
GuardandoTmp(t, n) == dump.pc = "guardar" /\ dump.t = t /\ dump.numero = n
GuardandoBin(t, p) ==
  \E e \in Compactando(t) :
    comp[e].pc = "guardar" /\ p = Particion(comp[e].claves[comp[e].j].key)

SelectMuere(h) ==
  LET t == cl[h].t
      p == Particion(cl[h].k) IN
  \/ En(h, "bin") /\ t \notin metadatas /\ Morir("selectSinMetadata")
  \/ /\ En(h, "bin") /\ t \in metadatas
     /\ \/ bin[t][p] = NoExiste /\ Morir("selectSinBin")
        \/ GuardandoBin(t, p) /\ Morir("selectGuardando")
  \/ /\ En(h, "tmp")
     /\ \E n \in cl[h].vistos :
          \/ tmp[t][n] = NoExiste /\ Morir("selectSinTmp")
          \/ GuardandoTmp(t, n) /\ Morir("selectGuardando")
  \/ En(h, "filtrar") /\ diccionario[t] = SinLista /\ Morir("selectSinLista")

\* The key's partition ...
LeerBin(h) ==
  LET t == cl[h].t
      p == Particion(cl[h].k) IN
  /\ En(h, "bin") /\ t \in metadatas
  /\ bin[t][p] # NoExiste /\ ~GuardandoBin(t, p)
  /\ cl' = [cl EXCEPT ![h].pc = "listar", ![h].visto = PrimeroDe(bin[t][p], cl[h].k)]
  /\ UNCHANGED <<diccionario, cuenta, disco, listas, dump, comp, tiempo, fallas,
                 historia>>

\* ... the .tmp files there are, each of them: cantidadDeTemporales is an uint8_t,
\* and so many of the list, which is in no order, are read ...
ListarTmp(h) ==
  LET hay == Existentes(tmp[cl[h].t]) IN
  /\ En(h, "listar")
  /\ \E leidos \in SUBSET hay :
       /\ Cardinality(leidos) = Cardinality(hay) % TopeUint8
       /\ cl' = [cl EXCEPT ![h].pc = "tmp", ![h].vistos = leidos]
  /\ UNCHANGED <<diccionario, cuenta, disco, listas, dump, comp, tiempo, fallas,
                 historia>>

LeerTmp(h) ==
  LET t == cl[h].t IN
  /\ En(h, "tmp")
  /\ \E n \in cl[h].vistos :
       /\ tmp[t][n] # NoExiste /\ ~GuardandoTmp(t, n)
       /\ cl' = [cl EXCEPT
            ![h].visto = RegistroMasNuevo(@, UltimoDe(tmp[t][n], cl[h].k)),
            ![h].vistos = @ \ {n}]
  /\ UNCHANGED <<diccionario, cuenta, disco, listas, dump, comp, tiempo, fallas,
                 historia>>

\* ... and the memtable: dictionary_has_key, then dictionary_get.
MirarMemtable(h) ==
  /\ En(h, "tmp") /\ cl[h].vistos = {}
  /\ Sigue(h, IF diccionario[cl[h].t] = SinLista THEN "responder" ELSE "filtrar")
  /\ UNCHANGED <<diccionario, cuenta, disco, listas, dump, comp, tiempo, fallas,
                 historia>>

\* list_sort leaves one of the newest first.
Filtrar(h) ==
  LET suyos == {r \in EnMemtable(cl[h].t) : r.key = cl[h].k}
      nuevos == {r \in suyos : \A q \in suyos : r.timestamp >= q.timestamp} IN
  /\ En(h, "filtrar") /\ diccionario[cl[h].t] # SinLista
  /\ \E r \in IF suyos = {} THEN {Nulo} ELSE nuevos :
       cl' = [cl EXCEPT ![h].pc = "responder", ![h].visto = RegistroMasNuevo(r, @)]
  /\ UNCHANGED <<diccionario, cuenta, disco, listas, dump, comp, tiempo, fallas,
                 historia>>

Responder(h) ==
  /\ En(h, "responder")
  /\ Termina(h)
  /\ debe' = [debe EXCEPT ![h] = {}] /\ sereno' = [sereno EXCEPT ![h] = FALSE]
  /\ UNCHANGED <<diccionario, cuenta, disco, listas, dump, comp, tiempo, fallas,
                 confirmados, dispensados, solapadas, cortadas>>

-----------------------------------------------------------------------------
(* The dump. *)

DumpSinNada ==
  /\ EnDump("dormido") /\ \A t \in Tablas : diccionario[t] = SinLista
  /\ UNCHANGED vars

\* Faulty variant: the table that is alone is not dumped.
DumpDespertarConDos ==
  LET hay == {t \in Tablas : diccionario[t] # SinLista} IN
  /\ EnDump("dormido") /\ Cardinality(hay) > 1
  /\ dump' = [DumpDormido EXCEPT !.pc = "iterar", !.tablas = hay]
  /\ UNCHANGED <<diccionario, cuenta, disco, listas, cl, comp, tiempo, fallas, historia>>

DumpDespertar ==
  LET hay == {t \in Tablas : diccionario[t] # SinLista} IN
  /\ EnDump("dormido") /\ hay # {}
  /\ dump' = [DumpDormido EXCEPT !.pc = "iterar", !.tablas = hay]
  /\ UNCHANGED <<diccionario, cuenta, disco, listas, cl, comp, tiempo, fallas, historia>>

\* Faulty variants: one more than there are; always the first.
NumeroMasUno(t) == (Cardinality(Existentes(tmp[t])) + 1) % TopeUint8
NumeroCero(t) == 0

\* The count of the .tmp files, in an uint8_t.
NumeroDeTemporal(t) == Cardinality(Existentes(tmp[t])) % TopeUint8

\* pasarAArchivoTemporal counts the .tmp files: that is the number of the new
\* one.  posicion is elements_count in an uint8_t: the records past it stay out.
Contar(t) ==
  LET lista == diccionario[t]
      posicion == elementos[t] % TopeUint8 IN
  /\ EnDump("iterar")
  /\ lista # SinLista /\ t \notin dump.hechas
  /\ ExisteLaTabla(t) /\ Cardinality(Existentes(tmp[t])) < MaxTmp
  /\ dump' = [dump EXCEPT !.pc = "crear", !.t = t, !.hechas = dump.hechas \cup {t},
                          !.numero = NumeroDeTemporal(t), !.posicion = posicion,
                          !.escritos = <<>>]
  /\ vieja' = SinLista
  /\ dispensados' = dispensados \cup LosN(ToSet(SubSeq(lista, posicion + 1, Len(lista))))
  /\ solapadas' = solapadas \cup
       {u \in {t} : \/ Cardinality(Existentes(tmp[t])) + 1 >= TopeUint8
                    \/ \E e \in Compactando(t) : comp[e].pc = "renombrar"}
  /\ UNCHANGED <<diccionario, elementos, disco, listas, cl, comp, tiempo, fallas,
                 confirmados, cortadas, lectura>>

\* "Se intento hacer un DUMP pero no existe la tabla".
ContarSinTabla(t) ==
  /\ EnDump("iterar")
  /\ diccionario[t] # SinLista /\ t \notin dump.hechas
  /\ ~ExisteLaTabla(t)
  /\ dump' = [dump EXCEPT !.hechas = dump.hechas \cup {t}]
  /\ UNCHANGED <<diccionario, cuenta, disco, listas, cl, comp, tiempo, fallas, historia>>

\* crearArchivoPuntoBin: fopen(.., "w"), whatever the file had.
Crear ==
  /\ EnDump("crear") /\ dump.t \in directorios
  /\ tmp' = [tmp EXCEPT ![dump.t][dump.numero] = <<>>]
  /\ dump' = [dump EXCEPT !.pc = "guardar"]
  /\ UNCHANGED <<diccionario, cuenta, directorios, metadatas, tmpc, bin, listas, cl,
                 comp, tiempo, fallas, historia>>

\* The block list, or the size, is saved.  Where the file has been renamed
\* meanwhile, asignarBloque has no t_config to save, and the save of a size
\* makes the file again, unless it had opened it before.
Guardar ==
  LET t == dump.t
      n == dump.numero IN
  /\ EnDump("guardar")
  /\ \/ tmp[t][n] # NoExiste /\ UNCHANGED tmp
     \/ /\ tmp[t][n] = NoExiste /\ dump.escritos # <<>>
        /\ \/ t \in directorios /\ tmp' = [tmp EXCEPT ![t][n] = dump.escritos]
           \/ UNCHANGED tmp
  /\ dump' = [dump EXCEPT !.pc = IF dump.posicion > 0 THEN "escribir" ELSE "iterar"]
  /\ UNCHANGED <<diccionario, cuenta, directorios, metadatas, tmpc, bin, listas, cl,
                 comp, tiempo, fallas, historia>>

\* The list of the dictionary, as it is by now, or the one it has put away.
Volcando == IF vieja = SinLista THEN diccionario[dump.t] ELSE vieja

\* list_get and escribirRegistroEnArchivo, from the last record to the first.
Escribir ==
  LET t == dump.t
      n == dump.numero
      r == Volcando[dump.posicion] IN
  /\ EnDump("escribir") /\ tmp[t][n] # NoExiste
  /\ dump.posicion \in DOMAIN Volcando
  /\ tmp' = [tmp EXCEPT ![t][n] = Append(@, r)]
  /\ dump' = [dump EXCEPT !.pc = "guardar", !.posicion = @ - 1,
                          !.escritos = Append(@, r)]
  /\ UNCHANGED <<diccionario, cuenta, directorios, metadatas, tmpc, bin, listas, cl,
                 comp, tiempo, fallas, historia>>

\* The directory, or the file, is gone; or the record is: more were counted than
\* the list has, or an INSERT has cut the end of it off, and list_get gives NULL.
DumpMuere ==
  \/ EnDump("crear") /\ dump.t \notin directorios /\ Morir("dumpSinDirectorio")
  \/ /\ EnDump("escribir") \/ (EnDump("guardar") /\ dump.escritos = <<>>)
     /\ tmp[dump.t][dump.numero] = NoExiste
     /\ Morir("dumpSinArchivo")
  \/ /\ EnDump("escribir") /\ dump.posicion \notin DOMAIN Volcando
     /\ Morir("dumpSinRegistro")

\* dictionary_clean_and_destroy_elements, with all that came since.
Limpiar ==
  /\ EnDump("iterar") /\ dump.tablas \subseteq dump.hechas
  /\ diccionario' = [t \in Tablas |-> SinLista]
  /\ elementos' = [t \in Tablas |-> 0] /\ vieja' = SinLista
  /\ cl' = Separar(EnSuLista(Tablas), "liberada", cl)
  /\ dump' = DumpDormido
  /\ Perturbar(Tablas)
  /\ UNCHANGED <<disco, listas, comp, tiempo, fallas, confirmados, dispensados,
                 solapadas, cortadas, debe>>

-----------------------------------------------------------------------------
(* The compaction thread e. *)

Avanza(e, paso) == comp' = [comp EXCEPT ![e].pc = paso]

\* It looks for its table, which may have gone already, or be another one.
Nacer(e) ==
  LET t == comp[e].t IN
  /\ EnComp(e, "nace")
  /\ \/ /\ ExisteLaTabla(t)
        /\ comp' = [comp EXCEPT ![e].pc = "dormida", ![e].mutex = Entrada(t)]
        /\ UNCHANGED <<diccionario, cuenta, disco, listas, cl, dump, tiempo, fallas,
                       historia>>
     \/ ~ExisteLaTabla(t) /\ Morir("compactacionSinTabla")

\* sleep(tiempoDeCompactacion); with no table the thread ends, with no .tmp it
\* sleeps again.
CompDespertar(e) ==
  LET t == comp[e].t IN
  /\ EnComp(e, "dormida")
  /\ \/ ~ExisteLaTabla(t) /\ Avanza(e, "fin")
     \/ ExisteLaTabla(t) /\ Existentes(tmp[t]) # {} /\ Avanza(e, "espera")
  /\ UNCHANGED <<diccionario, cuenta, disco, listas, cl, dump, tiempo, fallas, historia>>

\* pthread_mutex_lock, and the .tmp files are listed.
Tomar(e) ==
  LET t == comp[e].t
      m == comp[e].mutex
      hay == Existentes(tmp[t]) IN
  /\ EnComp(e, "espera")
  /\ mutex[m] # "tomado"
  /\ mutex' = [mutex EXCEPT ![m] = IF @ = "libre" THEN "tomado" ELSE @]
  /\ comp' = [comp EXCEPT ![e].pc = IF hay = {} THEN "leer" ELSE "renombrar",
                          ![e].porRenombrar = hay]
  /\ Perturbar({t})
  /\ solapadas' = solapadas \cup
       {u \in {t} : dump.t = t /\ dump.pc \in {"crear", "guardar", "escribir"}}
  /\ UNCHANGED <<diccionario, cuenta, disco, listaDeTablas, cl, dump, tiempo, fallas,
                 confirmados, dispensados, cortadas, debe>>

\* rename() of one of them, over what a .tmpc of that number had.
Renombrar(e) ==
  LET t == comp[e].t IN
  /\ EnComp(e, "renombrar")
  /\ \E n \in comp[e].porRenombrar :
       /\ \/ tmp[t][n] = NoExiste /\ UNCHANGED <<tmp, tmpc>>
          \/ /\ tmp[t][n] # NoExiste
             /\ tmpc' = [tmpc EXCEPT ![t][n] = tmp[t][n]]
             /\ tmp' = [tmp EXCEPT ![t][n] = NoExiste]
       /\ comp' = [comp EXCEPT ![e].porRenombrar = @ \ {n},
            ![e].pc = IF comp[e].porRenombrar = {n} THEN "leer" ELSE @]
  /\ UNCHANGED <<diccionario, cuenta, directorios, metadatas, bin, listas, cl, dump,
                 tiempo, fallas, historia>>

\* levantarClavesDe(.tmpc), levantarClavesDe(.bin).
LevantarClaves(e) ==
  LET t == comp[e].t IN
  /\ EnComp(e, "leer")
  /\ \E s \in Contenidos(tmpc[t]), b \in Contenidos(bin[t]) :
       comp' = [comp EXCEPT ![e].pc = "borrarTmpc",
                            ![e].claves = Levantar(@, s \o b)]
  /\ UNCHANGED <<diccionario, cuenta, disco, listas, cl, dump, tiempo, fallas, historia>>

\* borrarLosArchivosDelTipo(.tmpc), (.bin).
BorrarTmpc(e) ==
  /\ EnComp(e, "borrarTmpc")
  /\ tmpc' = [tmpc EXCEPT ![comp[e].t] = [n \in Numeros |-> NoExiste]]
  /\ Avanza(e, "borrarBin")
  /\ UNCHANGED <<diccionario, cuenta, directorios, metadatas, tmp, bin, listas, cl, dump,
                 tiempo, fallas, historia>>

BorrarBin(e) ==
  /\ EnComp(e, "borrarBin")
  /\ bin' = [bin EXCEPT ![comp[e].t] = [p \in NumerosBin |-> NoExiste]]
  /\ Avanza(e, "crearBin")
  /\ UNCHANGED <<diccionario, cuenta, directorios, metadatas, tmp, tmpc, listas, cl, dump,
                 tiempo, fallas, historia>>

\* compactar: the partitions anew, and the records into them.
CrearBin(e) ==
  LET t == comp[e].t IN
  /\ EnComp(e, "crearBin") /\ t \in metadatas
  /\ bin' = [bin EXCEPT ![t] = [p \in NumerosBin |-> <<>>]]
  /\ comp' = [comp EXCEPT ![e].pc = "escribir", ![e].j = 1]
  /\ cortadas' = cortadas \ {t}
  /\ UNCHANGED <<diccionario, cuenta, directorios, metadatas, tmp, tmpc, listas, cl, dump,
                 tiempo, fallas, confirmados, dispensados, solapadas, lectura>>

EscribirBin(e) ==
  LET t == comp[e].t
      r == comp[e].claves[comp[e].j]
      p == Particion(r.key) IN
  /\ EnComp(e, "escribir") /\ comp[e].j <= Len(comp[e].claves)
  /\ bin[t][p] # NoExiste
  /\ bin' = [bin EXCEPT ![t][p] = Append(@, r)]
  /\ Avanza(e, "guardar")
  /\ UNCHANGED <<diccionario, cuenta, directorios, metadatas, tmp, tmpc, listas, cl, dump,
                 tiempo, fallas, historia>>

GuardarBin(e) ==
  /\ EnComp(e, "guardar")
  /\ comp' = [comp EXCEPT ![e].pc = "escribir", ![e].j = @ + 1]
  /\ UNCHANGED <<diccionario, cuenta, disco, listas, cl, dump, tiempo, fallas, historia>>

\* The Metadata, or the partition, is gone; or the dump is saving the file.
CompMuere(e) ==
  LET t == comp[e].t IN
  \/ EnComp(e, "crearBin") /\ t \notin metadatas /\ Morir("compactacionSinMetadata")
  \/ /\ EnComp(e, "escribir") /\ comp[e].j <= Len(comp[e].claves)
     /\ bin[t][Particion(comp[e].claves[comp[e].j].key)] = NoExiste
     /\ Morir("compactacionSinBin")
  \/ /\ EnComp(e, "leer")
     /\ \E n \in Existentes(tmpc[t]) : GuardandoTmp(t, n) /\ tmp[t][n] = NoExiste
     /\ Morir("compactacionGuardando")

\* Faulty variant: it stays locked.
SinSoltar(m) == mutex

Suelto(m) == [mutex EXCEPT ![m] = IF @ = "tomado" THEN "libre" ELSE @]

\* pthread_mutex_unlock, list_clean.
Soltar(e) ==
  /\ EnComp(e, "escribir") /\ comp[e].j > Len(comp[e].claves)
  /\ mutex' = Suelto(comp[e].mutex)
  /\ comp' = [comp EXCEPT ![e].pc = "dormida", ![e].claves = <<>>, ![e].j = 1]
  /\ UNCHANGED <<diccionario, cuenta, disco, listaDeTablas, cl, dump, tiempo, fallas,
                 historia>>

-----------------------------------------------------------------------------
(* CREATE and DROP *)

\* createLFS: the table is not in the list.
Create(h, t) ==
  /\ Recibe(h, "CREATE")
  /\ ~ExisteLaTabla(t)
  /\ cl' = [cl EXCEPT ![h] = [Libre EXCEPT !.pc = "mkdir", !.t = t]]
  /\ UNCHANGED <<diccionario, cuenta, disco, listas, dump, comp, tiempo, fallas,
                 historia>>

\* Faulty variant: the table is left without Metadata.
TrasMkdirNada(t) == "ingresar"

TrasMkdir(t) == IF t \in directorios THEN "ingresar" ELSE "metadata"

\* crearTabla does nothing when the directory is there ...
Mkdir(h) ==
  LET t == cl[h].t IN
  /\ En(h, "mkdir")
  /\ Sigue(h, TrasMkdir(t))
  /\ directorios' = directorios \cup {t}
  /\ UNCHANGED <<diccionario, cuenta, metadatas, tmp, tmpc, bin, listas, dump, comp,
                 tiempo, fallas, historia>>

\* ... and otherwise writes the Metadata and the partitions.
CrearMetadata(h) ==
  LET t == cl[h].t IN
  /\ En(h, "metadata") /\ t \in directorios
  /\ metadatas' = metadatas \cup {t}
  /\ Sigue(h, "particiones")
  /\ UNCHANGED <<diccionario, cuenta, directorios, tmp, tmpc, bin, listas, dump, comp,
                 tiempo, fallas, historia>>

\* Another CREATE may have put the table in the list meanwhile, and what is
\* in its partitions by now goes.
CrearParticiones(h) ==
  LET t == cl[h].t IN
  /\ En(h, "particiones") /\ t \in directorios
  /\ bin' = [bin EXCEPT ![t] = [p \in NumerosBin |-> <<>>]]
  /\ Sigue(h, "ingresar")
  /\ dispensados' = dispensados \cup Arrastran(t, EnArchivos(bin[t]))
  /\ cortadas' = cortadas \ {t}
  /\ UNCHANGED <<diccionario, cuenta, directorios, metadatas, tmp, tmpc, listas, dump,
                 comp, tiempo, fallas, confirmados, solapadas, lectura>>

\* ingresarTablaEnListaDeTablas reads the Metadata, and list_add looks for the
\* last entry ...
Ingresar(h) ==
  /\ En(h, "ingresar") /\ cl[h].t \in metadatas
  /\ cl' = [cl EXCEPT ![h].pc = "anotar", ![h].ultimo = Len(listaDeTablas)]
  /\ UNCHANGED <<diccionario, cuenta, disco, listas, dump, comp, tiempo, fallas,
                 historia>>

PorAnotar == {g \in Clientes : cl[g].pc = "anotar" /\ cl[g].suLista = "vigente"}

\* ... and links the new one after it, which drops those that other threads have
\* linked there since, of whatever table.  iniciarSuHiloDeCompactacion.
Anotar(h) ==
  LET t == cl[h].t
      u == cl[h].ultimo
      vigente == cl[h].suLista = "vigente"
      libres == {e \in Entradas : mutex[e] = "nunca"}
      e == Min(libres) IN
  /\ En(h, "anotar")
  /\ libres # {}
  /\ listaDeTablas' = IF vigente THEN Append(SubSeq(listaDeTablas, 1, u), <<t, e>>)
                       ELSE listaDeTablas
  /\ mutex' = [mutex EXCEPT ![e] = "libre"]
  /\ comp' = [comp EXCEPT ![e] = Hilo("nace", t)]
  /\ cl' = Separar(IF vigente THEN {g \in PorAnotar : cl[g].ultimo > u} ELSE {},
                   "cortada", [cl EXCEPT ![h] = Libre])
  /\ solapadas' = solapadas \cup
       (IF vigente THEN {listaDeTablas[i][1] : i \in (u + 1)..Len(listaDeTablas)} ELSE {t})
  /\ UNCHANGED <<diccionario, cuenta, disco, dump, tiempo, fallas, confirmados,
                 dispensados, cortadas, lectura>>

\* The entry it links to has been freed.
AnotarLiberado(h) ==
  /\ En(h, "anotar") /\ cl[h].suLista = "liberada"
  /\ Morir("createListaLiberada")

\* dropLSF: the table is in the list.
Drop(h, t) ==
  /\ Recibe(h, "DROP")
  /\ ExisteLaTabla(t)
  /\ cl' = [cl EXCEPT ![h] = [Libre EXCEPT !.pc = "borrar", !.t = t]]
  /\ solapadas' = solapadas \cup {t}
  /\ UNCHANGED <<diccionario, cuenta, disco, listas, dump, comp, tiempo, fallas,
                 confirmados, dispensados, cortadas, lectura>>

\* eliminarTabla: liberarSusBloques and unlink of what is in the directory.
BorrarArchivos(h) ==
  LET t == cl[h].t IN
  /\ En(h, "borrar") /\ t \in directorios
  /\ tmp' = [tmp EXCEPT ![t] = [n \in Numeros |-> NoExiste]]
  /\ tmpc' = [tmpc EXCEPT ![t] = [n \in Numeros |-> NoExiste]]
  /\ bin' = [bin EXCEPT ![t] = [p \in NumerosBin |-> NoExiste]]
  /\ metadatas' = metadatas \ {t}
  /\ Sigue(h, "rmdir")
  /\ UNCHANGED <<diccionario, cuenta, directorios, listas, dump, comp, tiempo, fallas,
                 historia>>

\* rmdir: not if there is a file again.
QuitarDirectorio(h) ==
  LET t == cl[h].t
      vacio == /\ Existentes(tmp[t]) \cup Existentes(tmpc[t]) \cup Existentes(bin[t]) = {}
               /\ t \notin metadatas IN
  /\ En(h, "rmdir")
  /\ directorios' = IF vacio THEN directorios \ {t} ELSE directorios
  /\ Sigue(h, "sacar")
  /\ UNCHANGED <<diccionario, cuenta, metadatas, tmp, tmpc, bin, listas, dump, comp,
                 tiempo, fallas, historia>>

\* The i-th entry is taken out: those after it are one place nearer.
Correr(i, otros) ==
  [g \in Clientes |-> IF g \in PorAnotar /\ cl[g].ultimo > i
                       THEN [otros[g] EXCEPT !.ultimo = @ - 1] ELSE otros[g]]

\* sacarDeLaListaDeTablas: the first entry of the table, and its mutex, which
\* cannot be destroyed while it is held.
Sacar(h) ==
  LET t == cl[h].t
      i == Indice(t)
      libre == [cl EXCEPT ![h] = Libre] IN
  /\ En(h, "sacar")
  /\ IF ExisteLaTabla(t)
     THEN /\ listaDeTablas' = RemoveAt(listaDeTablas, i)
          /\ mutex' = [mutex EXCEPT ![Entrada(t)] = IF @ = "tomado" THEN @ ELSE "destruido"]
          /\ cl' = Separar({g \in PorAnotar : cl[g].ultimo = i}, "liberada", Correr(i, libre))
     ELSE cl' = libre /\ UNCHANGED listas
  /\ UNCHANGED <<diccionario, cuenta, disco, dump, comp, tiempo, fallas, historia>>

\* fopen in a directory that is gone; the Metadata is not there; exit(-1).
TablaMuere(h) ==
  LET t == cl[h].t IN
  \/ /\ En(h, "metadata") \/ En(h, "particiones")
     /\ t \notin directorios
     /\ Morir("createSinDirectorio")
  \/ En(h, "ingresar") /\ t \notin metadatas /\ Morir("createSinMetadata")
  \/ En(h, "borrar") /\ t \notin directorios /\ Morir("dropSinDirectorio")

-----------------------------------------------------------------------------
Apagar ==
  /\ caida = "no" /\ apagones < Apagones
  /\ apagones' = apagones + 1
  /\ Caer("apagado")

\* The process is started: the list is made from the directories, each with
\* its Metadata.  Where one has none, config_create gives NULL and the process
\* dies before it listens, now and every time.
Reiniciar ==
  LET s == SetToSeq(directorios) IN
  /\ caida # "no" /\ directorios \subseteq metadatas
  /\ caida' = "no"
  /\ listaDeTablas' = ListaDe(s) /\ mutex' = MutexDe(s) /\ comp' = HilosDe(s)
  /\ diccionario' = [t \in Tablas |-> SinLista]
  /\ elementos' = [t \in Tablas |-> 0] /\ vieja' = SinLista
  /\ cl' = [h \in Clientes |-> Libre]
  /\ dump' = DumpDormido
  /\ debe' = [h \in Clientes |-> {}]
  /\ sereno' = [h \in Clientes |-> FALSE]
  /\ UNCHANGED <<disco, tiempo, apagones, confirmados, dispensados, solapadas, cortadas>>

Pedido(h) ==
  \E t \in Tablas :
    \/ \E k \in Claves : Insert(h, t, k) \/ Select(h, t, k)
    \/ Create(h, t) \/ Drop(h, t)

Atender(h) ==
  \/ Poner(h) \/ Agregar(h) \/ AgregarSinLista(h) \/ Enlazar(h) \/ Sumar(h)
  \/ EnlazarLiberado(h)
  \/ Compuerta(h) \/ SelectMuere(h) \/ LeerBin(h) \/ ListarTmp(h) \/ LeerTmp(h)
  \/ MirarMemtable(h) \/ Filtrar(h) \/ Responder(h)
  \/ Mkdir(h) \/ CrearMetadata(h) \/ CrearParticiones(h) \/ Ingresar(h) \/ Anotar(h)
  \/ AnotarLiberado(h)
  \/ BorrarArchivos(h) \/ QuitarDirectorio(h) \/ Sacar(h) \/ TablaMuere(h)

Dump ==
  \/ DumpSinNada \/ DumpDespertar
  \/ \E t \in Tablas : Contar(t) \/ ContarSinTabla(t)
  \/ Crear \/ Guardar \/ Escribir \/ DumpMuere \/ Limpiar

Compactacion(e) ==
  \/ Nacer(e) \/ CompDespertar(e) \/ Tomar(e) \/ Renombrar(e) \/ LevantarClaves(e)
  \/ BorrarTmpc(e) \/ BorrarBin(e) \/ CrearBin(e) \/ EscribirBin(e) \/ GuardarBin(e)
  \/ CompMuere(e) \/ Soltar(e)

Next ==
  \/ \E h \in Clientes : Pedido(h) \/ Atender(h)
  \/ Dump
  \/ \E e \in Entradas : Compactacion(e)
  \/ Apagar \/ Reiniciar

Spec == Init /\ [][Next]_vars

\* The threads run; a mutex of a table that is free again and again is got.
Equidad ==
  /\ \A h \in Clientes : SF_vars(Atender(h))
  /\ WF_vars(Dump)
  /\ \A e \in Entradas : SF_vars(Compactacion(e))

SpecEquitativa == Spec /\ Equidad
=============================================================================
