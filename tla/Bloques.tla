------------------------------ MODULE Bloques ------------------------------
(***************************************************************************)
(* The block store of the file system: the bitmap that says which blocks   *)
(* are taken, and the BLOCKS list of every .bin, .tmp and .tmpc file.      *)
(*                                                                         *)
(* The threads are those of the process that reach it: the attention       *)
(* threads (CREATE, DROP), the dump and the compactions.  The bitmap is    *)
(* changed one byte at a time, and setting or clearing a bit reads the     *)
(* byte and writes it back.  primerBloqueLibre does that under             *)
(* mutexBitmap; liberarBloques does it under no lock.                      *)
(*                                                                         *)
(* Nothing says who may touch a file.  A record is written from a copy of  *)
(* BLOCKS that is saved again at the end, while a compaction may rename    *)
(* the file and a DROP free or remove it: the save makes it anew, with the *)
(* blocks it had.  Two threads at work on one file are a "cruce".          *)
(*                                                                         *)
(* Bitmap.bin is created from an uninitialised buffer and its length is    *)
(* measured with strlen: it has as many bytes as there are before the      *)
(* first zero byte, and bits of nobody's blocks (Basura) in each of them.  *)
(***************************************************************************)
EXTENDS Integers, SequencesExt

CONSTANTS
  Hilos,         \* the threads
  Archivos,      \* the paths of block files
  BitsPorByte,   \* 8
  Bytes,         \* bytes of Bitmap.bin, as strlen measures it
  Basura,        \* the bits already set when Bitmap.bin was created
  MaxBloques,    \* bound: blocks of a file
  Reinicios,     \* bound: how many times the process dies and is restarted
  NoExiste, Nadie

\* bitarray_get_max_bit; one bit more can be read and written.
TamanioBitarray == Bytes * BitsPorByte
Bloques == 0..TamanioBitarray

ASSUME BytesValidos == Bytes \in Nat \ {0} /\ BitsPorByte \in Nat \ {0}

ASSUME BasuraValida ==
  /\ Basura \subseteq 0..(TamanioBitarray - 1)
  /\ \A y \in 0..(Bytes - 1) : \E b \in Basura : b \div BitsPorByte = y

ASSUME MarcasValidas ==
  /\ Nadie \notin Hilos
  /\ NoExiste \notin Archivos /\ NoExiste \notin Seq(Bloques)
  /\ Reinicios \in Nat /\ MaxBloques \in Nat

VARIABLES
  bitarray,      \* the blocks whose bit is set
  mutexBitmap,   \* its holder, or Nadie
  BLOCKS,        \* path -> the block list in the file, or NoExiste
  pc,
  archivo,       \* the file a thread works on
  copia,         \* its t_config: the block list as the thread read it
  pos,           \* index in liberarBloques
  bloque,        \* the block primerBloqueLibre chose
  leido,         \* the byte a thread has read and not yet written back
  reinicios,
  incidentes     \* what has happened that the properties make allowance for

locales == <<pc, archivo, copia, pos, bloque, leido>>
vars == <<bitarray, mutexBitmap, BLOCKS, locales, reinicios, incidentes>>

-----------------------------------------------------------------------------
ByteDe(b) == {c \in Bloques : c \div BitsPorByte = b \div BitsPorByte}

Libres == {b \in Bloques : b < TamanioBitarray /\ b \notin bitarray}

\* The first clear bit; when there is none, the index past the last one.
PrimerBloqueLibre ==
  IF Libres = {} THEN TamanioBitarray ELSE Min(Libres)

\* Writing back a byte read earlier undoes what others did to it since.
Escribir(b, byte) == (bitarray \ ByteDe(b)) \cup byte

Existe(f) == BLOCKS[f] # NoExiste
Trabajan(f) == {h \in Hilos : pc[h] # "libre" /\ archivo[h] = f}
Asignando == {"buscar", "marcar", "asignar"}
Escribiendo == Asignando \cup {"escribir", "releer"}
Liberando == {"limpiar", "guardar"}

\* The threads other than h that have read, and not written, the byte of b,
\* when h or they are freeing.
SeSolapan(h, b, liberando) ==
  \E g \in Hilos \ {h} :
    /\ pc[g] \in {"marcar", "guardar"}
    /\ liberando \/ pc[g] = "guardar"
    /\ bloque[g] \in ByteDe(b)

Anotar(condicion, cual) ==
  incidentes' = IF condicion THEN incidentes \cup {cual} ELSE incidentes

-----------------------------------------------------------------------------
Init ==
  /\ bitarray = Basura
  /\ mutexBitmap = Nadie
  /\ BLOCKS = [f \in Archivos |-> NoExiste]
  /\ pc = [h \in Hilos |-> "libre"]
  /\ archivo = [h \in Hilos |-> NoExiste]
  /\ copia = [h \in Hilos |-> <<>>]
  /\ pos = [h \in Hilos |-> 1]
  /\ bloque = [h \in Hilos |-> 0]
  /\ leido = [h \in Hilos |-> {}]
  /\ reinicios = 0
  /\ incidentes = {}

Ir(h, etiqueta) == pc' = [pc EXCEPT ![h] = etiqueta]

\* A thread that is done keeps nothing.
Terminar(h) ==
  /\ Ir(h, "libre")
  /\ archivo' = [archivo EXCEPT ![h] = NoExiste]
  /\ copia' = [copia EXCEPT ![h] = <<>>]
  /\ pos' = [pos EXCEPT ![h] = 1]
  /\ bloque' = [bloque EXCEPT ![h] = 0]

\* The process dies and is started again.  Bitmap.bin is mapped shared, so
\* what was written is kept, up to its length; so are the files.
Caer ==
  /\ bitarray' = bitarray \ {TamanioBitarray}
  /\ mutexBitmap' = Nadie
  /\ pc' = [h \in Hilos |-> "libre"]
  /\ archivo' = [h \in Hilos |-> NoExiste]
  /\ copia' = [h \in Hilos |-> <<>>]
  /\ pos' = [h \in Hilos |-> 1]
  /\ bloque' = [h \in Hilos |-> 0]
  /\ leido' = [h \in Hilos |-> {}]
  /\ incidentes' = incidentes \cup {"caida"}
       \cup (IF \E h \in Hilos : pc[h] \in Liberando THEN {"corte"} ELSE {})
  /\ UNCHANGED BLOCKS

Reiniciar ==
  /\ reinicios < Reinicios
  /\ reinicios' = reinicios + 1
  /\ Caer

\* Something is done to the file f while another thread is at work on it.
SeCruzan(f) == IF Trabajan(f) # {} THEN {"cruce"} ELSE {}

\* crearArchivoPuntoBin: fopen(.., "w") makes the file with no block, or
\* empties the list of the one there was.
CrearArchivoPuntoBin(h, f) ==
  /\ pc[h] = "libre"
  /\ BLOCKS' = [BLOCKS EXCEPT ![f] = <<>>]
  /\ archivo' = [archivo EXCEPT ![h] = f]
  /\ incidentes' = incidentes \cup SeCruzan(f) \cup (IF Existe(f) THEN {"pisado"} ELSE {})
  /\ Ir(h, "buscar")
  /\ UNCHANGED <<bitarray, mutexBitmap, copia, pos, bloque, leido, reinicios>>

\* escribirRegistroEnArchivo: config_create reads the list of the file.
EscribirRegistro(h, f) ==
  /\ pc[h] = "libre"
  /\ Existe(f) /\ BLOCKS[f] # <<>>
  /\ archivo' = [archivo EXCEPT ![h] = f]
  /\ copia' = [copia EXCEPT ![h] = BLOCKS[f]]
  /\ incidentes' = incidentes \cup SeCruzan(f)
  /\ Ir(h, "escribir")
  /\ UNCHANGED <<bitarray, mutexBitmap, BLOCKS, pos, bloque, leido, reinicios>>

\* The record, or what is left of it, does not fit in the last block.
NoCabe(h) ==
  /\ pc[h] = "escribir" /\ Len(copia[h]) < MaxBloques
  /\ Ir(h, "buscar")
  /\ UNCHANGED <<bitarray, mutexBitmap, BLOCKS, archivo, copia, pos, bloque, leido,
                 reinicios, incidentes>>

\* It fits: SIZE is saved, and with it the BLOCKS of the copy, in the file of
\* that name, which is made if it is no longer there.
Salvar(h) ==
  /\ pc[h] = "escribir"
  /\ BLOCKS' = [BLOCKS EXCEPT ![archivo[h]] = copia[h]]
  /\ Terminar(h)
  /\ UNCHANGED <<bitarray, mutexBitmap, leido, reinicios, incidentes>>

\* Faulty variant: the bitmap is scanned and written under no lock.
PasarSinMutex(h) == mutexBitmap' = h

TomarMutex(h) == mutexBitmap = Nadie /\ mutexBitmap' = h

\* primerBloqueLibre takes the lock, scans, and reads the byte it will set.
Buscar(h) ==
  /\ pc[h] = "buscar"
  /\ TomarMutex(h)
  /\ LET b == PrimerBloqueLibre IN
     /\ bloque' = [bloque EXCEPT ![h] = b]
     /\ leido' = [leido EXCEPT ![h] = bitarray \cap ByteDe(b)]
     /\ incidentes' = incidentes
          \cup (IF b = TamanioBitarray THEN {"lleno"} ELSE {})
          \cup (IF SeSolapan(h, b, FALSE) THEN {"solape"} ELSE {})
  /\ Ir(h, "marcar")
  /\ UNCHANGED <<bitarray, BLOCKS, archivo, copia, pos, reinicios>>

\* bitarray_set_bit writes the byte back; the lock is released.
Marcar(h) ==
  /\ pc[h] = "marcar"
  /\ bitarray' = Escribir(bloque[h], leido[h] \cup {bloque[h]})
  /\ leido' = [leido EXCEPT ![h] = {}]
  /\ mutexBitmap' = Nadie
  /\ Ir(h, "asignar")
  /\ UNCHANGED <<BLOCKS, archivo, copia, pos, bloque, reinicios, incidentes>>

\* asignarBloque reads the list of a new file only now.
AsignarBloque(h) ==
  /\ pc[h] = "asignar" /\ copia[h] = <<>> /\ Existe(archivo[h])
  /\ BLOCKS' = [BLOCKS EXCEPT ![archivo[h]] = Append(@, bloque[h])]
  /\ Terminar(h)
  /\ UNCHANGED <<bitarray, mutexBitmap, leido, reinicios, incidentes>>

\* asignarBloqueAConfig adds it to the list it read before it looked for a block,
\* and saves that, ..
AsignarBloqueAConfig(h) ==
  /\ pc[h] = "asignar" /\ copia[h] # <<>>
  /\ copia' = [copia EXCEPT ![h] = Append(@, bloque[h])]
  /\ BLOCKS' = [BLOCKS EXCEPT ![archivo[h]] = copia'[h]]
  /\ Ir(h, "releer")
  /\ UNCHANGED <<bitarray, mutexBitmap, archivo, pos, bloque, leido, reinicios, incidentes>>

\* .. and the file is read again for the rest of the record.
Releer(h) ==
  /\ pc[h] = "releer"
  /\ Existe(archivo[h]) /\ BLOCKS[archivo[h]] # <<>>
  /\ copia' = [copia EXCEPT ![h] = BLOCKS[archivo[h]]]
  /\ Ir(h, "escribir")
  /\ UNCHANGED <<bitarray, mutexBitmap, BLOCKS, archivo, pos, bloque, leido, reinicios,
                 incidentes>>

\* The file is gone: config_create returns NULL, and it is used; or it has no
\* block, and the last of them is taken.
LeerSinArchivo(h) ==
  /\ \/ pc[h] = "asignar" /\ copia[h] = <<>> /\ ~Existe(archivo[h])
     \/ pc[h] = "releer" /\ (~Existe(archivo[h]) \/ BLOCKS[archivo[h]] = <<>>)
  /\ Caer
  /\ UNCHANGED reinicios

\* pasarLosTmpATmpc: the file gets the name g, and replaces what had it.
Renombrar(h, f, g) ==
  /\ pc[h] = "libre" /\ f # g /\ Existe(f)
  /\ BLOCKS' = [BLOCKS EXCEPT ![g] = BLOCKS[f], ![f] = NoExiste]
  /\ incidentes' = incidentes \cup SeCruzan(f) \cup SeCruzan(g)
                      \cup (IF Existe(g) THEN {"pisado"} ELSE {})
  /\ UNCHANGED <<bitarray, mutexBitmap, locales, reinicios>>

\* eliminarTabla: its loop removes the files that are in the directory, those
\* made since liberarSusBloques listed it included, and frees no block.
Desvincular(h, f) ==
  /\ pc[h] = "libre" /\ Existe(f)
  /\ BLOCKS' = [BLOCKS EXCEPT ![f] = NoExiste]
  /\ incidentes' = incidentes \cup SeCruzan(f) \cup {"resto"}
  /\ UNCHANGED <<bitarray, mutexBitmap, locales, reinicios>>

\* liberarBloques reads the list of a file it is about to remove.  Nothing
\* keeps a DROP from freeing a file another thread writes or frees.
LiberarBloques(h, f) ==
  /\ pc[h] = "libre" /\ Existe(f)
  /\ archivo' = [archivo EXCEPT ![h] = f]
  /\ copia' = [copia EXCEPT ![h] = BLOCKS[f]]
  /\ incidentes' = incidentes \cup SeCruzan(f)
  /\ Ir(h, "limpiar")
  /\ UNCHANGED <<bitarray, mutexBitmap, BLOCKS, pos, bloque, leido, reinicios>>

\* Faulty variant: the last block of the list is not freed.
QuedanMenosUno(h) == pos[h] < Len(copia[h])

Quedan(h) == pos[h] <= Len(copia[h])

\* bitarray_clean_bit reads the byte of the next block of the list ...
Limpiar(h) ==
  /\ pc[h] = "limpiar" /\ Quedan(h)
  /\ LET b == copia[h][pos[h]] IN
     /\ bloque' = [bloque EXCEPT ![h] = b]
     /\ leido' = [leido EXCEPT ![h] = bitarray \cap ByteDe(b)]
     /\ Anotar(SeSolapan(h, b, TRUE), "solape")
  /\ Ir(h, "guardar")
  /\ UNCHANGED <<bitarray, mutexBitmap, BLOCKS, archivo, copia, pos, reinicios>>

\* ... and writes it back.
Guardar(h) ==
  /\ pc[h] = "guardar"
  /\ bitarray' = Escribir(bloque[h], leido[h] \ {bloque[h]})
  /\ leido' = [leido EXCEPT ![h] = {}]
  /\ pos' = [pos EXCEPT ![h] = @ + 1]
  /\ Ir(h, "limpiar")
  /\ UNCHANGED <<mutexBitmap, BLOCKS, archivo, copia, bloque, reinicios,
                 incidentes>>

\* remove(): the file goes, if nobody has removed it before.
Borrar(h) ==
  /\ pc[h] = "limpiar" /\ ~Quedan(h)
  /\ BLOCKS' = [BLOCKS EXCEPT ![archivo[h]] = NoExiste]
  /\ Terminar(h)
  /\ UNCHANGED <<bitarray, mutexBitmap, leido, reinicios, incidentes>>

Paso(h) ==
  \/ \E f \in Archivos :
       \/ CrearArchivoPuntoBin(h, f) \/ EscribirRegistro(h, f)
       \/ LiberarBloques(h, f) \/ Desvincular(h, f)
       \/ \E g \in Archivos : Renombrar(h, f, g)
  \/ NoCabe(h) \/ Salvar(h) \/ Buscar(h) \/ Marcar(h)
  \/ AsignarBloque(h) \/ AsignarBloqueAConfig(h) \/ Releer(h) \/ LeerSinArchivo(h)
  \/ Limpiar(h) \/ Guardar(h) \/ Borrar(h)

Next == Reiniciar \/ \E h \in Hilos : Paso(h)

Spec == Init /\ [][Next]_vars
=============================================================================
