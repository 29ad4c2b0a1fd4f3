------------------------------ MODULE LFSProp ------------------------------
(* What the file system must keep; each property is stated for the code as *)
(* it is, naming the races after which it no longer holds.                 *)
EXTENDS LFS

Archivo == Seq(Registros) \cup {NoExiste}
PasosCliente ==
  {"libre", "poner", "agregar", "enlazar", "contar", "compuerta", "bin", "listar",
   "tmp", "filtrar", "responder", "mkdir", "metadata", "particiones", "ingresar",
   "anotar", "borrar", "rmdir", "sacar"}
PasosDump == {"dormido", "iterar", "crear", "guardar", "escribir"}
PasosComp ==
  {"nace", "dormida", "espera", "renombrar", "leer", "borrarTmpc", "borrarBin",
   "crearBin", "escribir", "guardar", "fin"}

\* The variables have the types of the source.
TypeOK ==
  /\ diccionario \in [Tablas -> Seq(Registros) \cup {SinLista}]
  /\ elementos \in [Tablas -> Nat] /\ vieja \in Seq(Registros) \cup {SinLista}
  /\ listaDeTablas \in Seq(Tablas \X Entradas)
  /\ mutex \in [Entradas -> {"libre", "tomado", "destruido", "nunca"}]
  /\ directorios \subseteq Tablas /\ metadatas \subseteq directorios
  /\ tmp \in [Tablas -> [Numeros -> Archivo]]
  /\ tmpc \in [Tablas -> [Numeros -> Archivo]]
  /\ bin \in [Tablas -> [NumerosBin -> Archivo]]
  /\ cl \in [Clientes ->
       [pc : PasosCliente, t : Tablas \cup {Nulo}, k : Claves \cup {0},
        reg : Registros \cup {Nulo}, error : BOOLEAN, ultimo : Nat,
        suLista : {"vigente", "cortada", "reemplazada", "liberada"},
        entrada : Entradas \cup {0}, visto : Registros \cup {Nulo},
        vistos : SUBSET Numeros]]
  /\ dump \in [pc : PasosDump, tablas : SUBSET Tablas, hechas : SUBSET Tablas,
               t : Tablas \cup {Nulo}, numero : Numeros, posicion : 0..(TopeUint8 - 1),
               escritos : Seq(Registros)]
  /\ comp \in [Entradas ->
       [pc : PasosComp, t : Tablas \cup {Nulo}, mutex : Entradas \cup {0},
        porRenombrar : SUBSET Numeros, claves : Seq(Registros), j : Nat \ {0}]]
  /\ reloj \in 1..MaxReloj /\ cuantos \in 0..MaxRegistros
  /\ apagones \in 0..Apagones

\* Every record of t there is somewhere in the process or on disk.
Guardados(t) ==
  EnMemtable(t) \cup EnArchivos(tmp[t]) \cup EnArchivos(tmpc[t]) \cup EnArchivos(bin[t])
    \cup UNION {ToSet(comp[e].claves) : e \in {x \in Entradas : comp[x].t = t}}

\* What was answered with INSERT_R is there, or a newer record of the key is,
\* through dumps, compactions and restarts, but for: what raced with a dump's
\* clean, was hidden or cut off its list by another INSERT of the table
\* (insertLFS), was past the elements_count of the list, of which an INSERT made
\* at once may lose one, or past what an uint8_t has of it (pasarAArchivoTemporal);
\* was in memory, or in a compaction's hands, when the process died; or was in the
\* partitions when a slower CREATE of the same table made them (crearTabla).  And
\* but for tables dropped, or whose entry another CREATE has cut off the list
\* (ingresarTablaEnListaDeTablas), so that it is not dumped; where a dump crossed
\* the listing or the renames of a compaction, or the process died in those; or
\* with as many .tmp files as make the uint8_t of their number 0.
NadaSePierde ==
  \A c \in confirmados :
    \/ c.reg.n \in dispensados \/ c.t \in solapadas
    \/ \E r \in Guardados(c.t) :
         r.key = c.reg.key /\ r.timestamp >= c.reg.timestamp

\* selectLFS answers with a record at least as new as any that was answered
\* with INSERT_R before it was asked, provided that no compaction took the
\* table, and no dump cleaned the memtable, while it read, and that no .tmp
\* had two records of the key; but for the records, and the tables, that
\* NadaSePierde names.
SelectAlDia ==
  \A h \in Clientes :
    cl[h].pc = "responder" /\ sereno[h] /\ cl[h].t \notin solapadas =>
      \A r \in debe[h] :
        r.n \in dispensados \/ (cl[h].visto # Nulo /\ cl[h].visto.timestamp >= r.timestamp)

\* A SELECT kills the process only if a compaction or a clean has come between
\* its parts, or was saving the file it opened, or the table has no partitions:
\* a CREATE has still to make them, or a compaction, which may have died before;
\* or the entry of the table was lost, so that the mutex is not that of its
\* compaction.
SelectNoMata ==
  caida \in {"selectSinMetadata", "selectSinBin", "selectSinTmp", "selectSinLista"} =>
    \E h \in Clientes : cl[h].pc \in {"bin", "tmp", "filtrar"} /\
      (~sereno[h] \/ cl[h].t \in solapadas \cup cortadas)

\* What escanearArchivo relies on to stop at the first record of a key:
\* compactar leaves one record per key in a partition, that of the key, if one
\* compaction of the table is at work at a time: not so after a DROP, or the loss
\* of its entry.
BinesSinRepetidos ==
  \A t \in Tablas \ solapadas : \A p \in Existentes(bin[t]) :
    LET s == bin[t][p] IN
    \A i, j \in DOMAIN s :
      Particion(s[i].key) = p /\ (s[i].key = s[j].key => i = j)

\* Two threads never compact a table at once, although two CREATEs at once
\* start two threads for it: both take the mutex of its first entry, unless that
\* was dropped, or one list_add of the two has cut off what the other linked.
UnaCompactacion ==
  \A t \in Tablas \ solapadas : Cardinality(Compactando(t)) <= 1

\* The process can be started again.  inicializarListaDeTablas dies of a
\* directory without Metadata; there is one only while a CREATE or a DROP is
\* half way through it (or was, when the process died), or after the dump or a
\* CREATE made a file in a DROP's way, which a compaction may have taken.
SiempreArranca ==
  \A t \in directorios \ metadatas :
    \/ Existentes(tmp[t]) \cup Existentes(tmpc[t]) \cup Existentes(bin[t]) # {}
    \/ Compactando(t) # {}
    \/ \E h \in Clientes : cl[h].t = t /\ cl[h].pc \in {"metadata", "rmdir"}

\* What is in the memtable is dumped, or the process dies first.
SeVuelca ==
  \A t \in Tablas : diccionario[t] # SinLista ~> diccionario[t] = SinLista \/ caida # "no"

\* A SELECT that waits for a compaction is let through.
LaCompuertaSeAbre ==
  \A h \in Clientes : cl[h].pc = "compuerta" ~> cl[h].pc # "compuerta" \/ caida # "no"
=============================================================================
