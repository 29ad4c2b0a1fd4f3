--------------------------- MODULE BloquesProofs ---------------------------
(***************************************************************************)
(* Exclusividad and SinFugas, for any number of threads, files, blocks and *)
(* restarts.                                                               *)
(*                                                                         *)
(* Exclusividad is not inductive: it says nothing of the blocks that are   *)
(* on their way into a file or out of one.  Orden does: the blocks of a    *)
(* file, up to the point a free has reached, are marked and in no other    *)
(* place; a block handed out and not yet saved is marked and in no file;   *)
(* and the byte a thread is about to write back is still the byte in the   *)
(* bitmap.  Orden holds until one of the incidents of Confunden.           *)
(*                                                                         *)
(* SinFugas outlives a full bitmap, and Orden does not: Cuenta is what is  *)
(* left then, with the owner of every marked block in the place of the     *)
(* only owner.                                                             *)
(***************************************************************************)
EXTENDS BloquesProp, Lemas

Sano == incidentes \cap Confunden = {}

\* primerBloqueLibre holds the lock from the scan to the write.
Candado == \A h \in Hilos : pc[h] = "marcar" => mutexBitmap = h

\* What a thread's locals hold outside of its critical steps.
Reposo ==
  \A h \in Hilos :
    /\ pc[h] = "libre" => copia[h] = <<>>
    /\ pc[h] \notin Liberando => pos[h] = 1
    /\ pc[h] # "libre" => archivo[h] \in Archivos

InvBase == TypeOK /\ Candado /\ Reposo

\* The block at position i of f is still the file's own.
Tomada(f, i) ==
  /\ Existe(f)
  /\ i \in DOMAIN BLOCKS[f]
  /\ \A h \in Hilos :
       pc[h] \in Liberando /\ archivo[h] = f => pos[h] <= i

UnoPorArchivo ==
  \A g, h \in Hilos :
    pc[g] # "libre" /\ pc[h] # "libre" /\ archivo[g] = archivo[h] => g = h

CopiaFiel == \A h \in Hilos : pc[h] # "libre" => copia[h] = BLOCKS[archivo[h]]

Propios ==
  \A f, g \in Archivos : \A i, k \in Nat :
    Tomada(f, i) /\ Tomada(g, k) /\ BLOCKS[f][i] = BLOCKS[g][k]
      => f = g /\ i = k

Marcados ==
  \A f \in Archivos : \A i \in Nat : Tomada(f, i) => BLOCKS[f][i] \in bitarray

EnRango ==
  /\ \A f \in Archivos : \A i \in Nat :
       Tomada(f, i) => BLOCKS[f][i] < TamanioBitarray
  /\ \A h \in Hilos :
       pc[h] \in {"marcar", "asignar"} => bloque[h] < TamanioBitarray

EnCamino ==
  \A h \in Hilos : pc[h] = "asignar" =>
    /\ bloque[h] \in bitarray
    /\ \A f \in Archivos : \A i \in Nat : Tomada(f, i) => BLOCKS[f][i] # bloque[h]
    /\ \A g \in Hilos : pc[g] = "asignar" /\ bloque[g] = bloque[h] => g = h

BytesAlDia ==
  \A h \in Hilos :
    /\ pc[h] \in {"marcar", "guardar"} => leido[h] = bitarray \cap ByteDe(bloque[h])
    /\ pc[h] = "marcar" => bloque[h] \notin bitarray
    /\ pc[h] = "guardar" => /\ pos[h] \in DOMAIN copia[h]
                            /\ bloque[h] = copia[h][pos[h]]

SinSolape ==
  \A g, h \in Hilos :
    g # h /\ pc[g] = "guardar" /\ pc[h] \in {"marcar", "guardar"}
      => bloque[h] \notin ByteDe(bloque[g]) /\ bloque[g] \notin ByteDe(bloque[h])

Orden ==
  /\ UnoPorArchivo
  /\ CopiaFiel
  /\ Propios
  /\ Marcados
  /\ EnRango
  /\ EnCamino
  /\ BytesAlDia
  /\ SinSolape

Inv == InvBase /\ (Sano => Orden)

-----------------------------------------------------------------------------
LEMMA Tamanio == TamanioBitarray \in Nat \ {0} /\ Bloques \subseteq Nat
<1>1. TamanioBitarray \in Nat \ {0}
  BY BytesValidos DEF TamanioBitarray
<1> QED BY <1>1 DEF Bloques

LEMMA LosBytes ==
  ASSUME NEW b \in Bloques, NEW c \in Bloques
  PROVE  /\ ByteDe(b) \subseteq Bloques
         /\ b \in ByteDe(b)
         /\ c \in ByteDe(b) => b \in ByteDe(c) /\ ByteDe(c) = ByteDe(b)
  BY DEF ByteDe

LEMMA ElPrimero ==
  PrimerBloqueLibre \in Bloques
  /\ (PrimerBloqueLibre # TamanioBitarray =>
        PrimerBloqueLibre \notin bitarray /\ PrimerBloqueLibre < TamanioBitarray)
<1>1. CASE Libres = {}
  BY <1>1, Tamanio DEF PrimerBloqueLibre, Bloques
<1>2. CASE Libres # {}
  <2>1. Libres \in SUBSET Int /\ IsFiniteSet(Libres)
    <3>1. Libres \subseteq 0..TamanioBitarray
      BY DEF Libres, Bloques
    <3>2. IsFiniteSet(0..TamanioBitarray)
      <4>1. TamanioBitarray \in Int /\ 0 \in Int
        BY Tamanio
      <4> QED BY <4>1, FS_Interval, Zenon
    <3>3. IsFiniteSet(Libres)
      BY <3>1, <3>2, FS_Subset
    <3>4. \A b \in 0..TamanioBitarray : b \in Int
      OBVIOUS
    <3> QED BY <3>1, <3>3, <3>4
  <2>2. Min(Libres) \in Libres
    BY <1>2, <2>1, MinimoExiste
  <2>3. Libres # {} => PrimerBloqueLibre = Min(Libres)
    BY DEF PrimerBloqueLibre
  <2> QED BY <1>2, <2>2, <2>3 DEF Libres
<1> QED BY <1>1, <1>2

-----------------------------------------------------------------------------
(* The types, the lock and the locals. *)

LEMMA BaseInicial == Init => InvBase
  BY Tamanio, BasuraValida, MarcasValidas
     DEF Init, InvBase, TypeOK, Candado, Reposo, Bloques, Asignando, Escribiendo, Liberando

\* What every step needs of the working thread's sequence.
LEMMA Secuencias ==
  ASSUME NEW s \in Seq(Bloques), NEW b \in Bloques
  PROVE  /\ Append(s, b) \in Seq(Bloques)
         /\ Len(Append(s, b)) = Len(s) + 1
         /\ Append(s, b)[Len(s) + 1] = b
         /\ \A i \in 1..Len(s) : Append(s, b)[i] = s[i]
         /\ DOMAIN s = 1..Len(s) /\ Len(s) \in Nat
         /\ \A i \in 1..Len(s) : s[i] \in Bloques
         /\ <<>> \in Seq(Bloques)
  OBVIOUS

LEMMA CaerBase == InvBase /\ Caer /\ reinicios' \in 0..Reinicios => InvBase'
  BY MarcasValidas, Tamanio, Secuencias
     DEF InvBase, TypeOK, Candado, Reposo, Caer, Asignando, Escribiendo, Liberando, Bloques

LEMMA PasoBase == ASSUME InvBase, NEW h \in Hilos, Paso(h) PROVE InvBase'
<1> USE DEF InvBase, TypeOK, Candado, Reposo, Ir, Anotar, Asignando, Escribiendo, Liberando, SeCruzan
<1>0. <<>> \in Seq(Bloques)
  OBVIOUS
<1>1. ASSUME NEW f \in Archivos, CrearArchivoPuntoBin(h, f) PROVE InvBase'
  BY <1>0, <1>1 DEF CrearArchivoPuntoBin
<1>2. ASSUME NEW f \in Archivos, EscribirRegistro(h, f) PROVE InvBase'
  BY <1>2 DEF EscribirRegistro, Existe
<1>3. ASSUME NEW f \in Archivos, LiberarBloques(h, f) PROVE InvBase'
  BY <1>3 DEF LiberarBloques, Existe
<1>4. CASE Buscar(h)
  <2>1. PrimerBloqueLibre \in Bloques
    BY ElPrimero
  <2> HIDE DEF InvBase
  <2> DEFINE b == PrimerBloqueLibre
             byte == bitarray \cap ByteDe(b)
  <2>2. byte \subseteq Bloques
    BY DEF InvBase
  <2>3. /\ bloque' = [bloque EXCEPT ![h] = b]
        /\ leido' = [leido EXCEPT ![h] = byte]
        /\ mutexBitmap = Nadie /\ mutexBitmap' = h
        /\ pc[h] = "buscar" /\ pc' = [pc EXCEPT ![h] = "marcar"]
        /\ incidentes' \subseteq incidentes \cup {"lleno", "solape"}
        /\ UNCHANGED <<bitarray, BLOCKS, archivo, copia, pos, reinicios>>
    BY <1>4 DEF Buscar, TomarMutex
  <2> HIDE DEF b, byte
  <2> QED BY <2>1, <2>2, <2>3, MarcasValidas DEF InvBase, b
<1>5. CASE Marcar(h)
  BY <1>5, LosBytes DEF Marcar, Escribir
<1>6. CASE AsignarBloque(h)
  <2>1. \A s \in Seq(Bloques) : Append(s, bloque[h]) \in Seq(Bloques)
    BY Secuencias
  <2> QED BY <1>0, <1>6, <2>1, MarcasValidas, Tamanio DEF AsignarBloque, Terminar, Existe, Bloques
<1>7. CASE LeerSinArchivo(h)
  BY <1>7, CaerBase DEF LeerSinArchivo
<1>8. CASE Limpiar(h)
  <2> DEFINE b == copia[h][pos[h]]
             byte == bitarray \cap ByteDe(b)
  <2>1. b \in Bloques
    BY <1>8, Secuencias DEF Limpiar, Quedan
  <2>2. /\ bloque' = [bloque EXCEPT ![h] = b]
        /\ leido' = [leido EXCEPT ![h] = byte]
        /\ pc[h] = "limpiar" /\ pc' = [pc EXCEPT ![h] = "guardar"]
        /\ incidentes' \subseteq incidentes \cup {"solape"}
        /\ UNCHANGED <<bitarray, mutexBitmap, BLOCKS, archivo, copia, pos, reinicios>>
    BY <1>8 DEF Limpiar, Quedan
  <2>3. byte \subseteq Bloques
    OBVIOUS
  <2> HIDE DEF b, byte
  <2> QED BY <2>1, <2>2, <2>3
<1>9. CASE Guardar(h)
  BY <1>9, LosBytes DEF Guardar, Escribir
<1>10. CASE Borrar(h)
  BY <1>0, <1>10, Tamanio DEF Borrar, Terminar, Bloques
<1>11. CASE NoCabe(h)
  BY <1>11 DEF NoCabe
<1>12. CASE Salvar(h)
  BY <1>0, <1>12, Tamanio DEF Salvar, Terminar, Bloques
<1>13. CASE AsignarBloqueAConfig(h)
  <2>1. Append(copia[h], bloque[h]) \in Seq(Bloques)
    BY Secuencias
  <2> QED BY <1>13, <2>1 DEF AsignarBloqueAConfig
<1>14. CASE Releer(h)
  BY <1>14 DEF Releer, Existe
<1>15. ASSUME NEW f \in Archivos, NEW g \in Archivos, Renombrar(h, f, g) PROVE InvBase'
  BY <1>15 DEF Renombrar, locales
<1>16. ASSUME NEW f \in Archivos, Desvincular(h, f) PROVE InvBase'
  BY <1>16 DEF Desvincular, locales
<1> QED BY <1>1, <1>2, <1>3, <1>4, <1>5, <1>6, <1>7, <1>8, <1>9, <1>10, <1>11, <1>12, <1>13,
           <1>14, <1>15, <1>16, Zenon DEF Paso

LEMMA NextBase == InvBase /\ [Next]_vars => InvBase'
<1> SUFFICES ASSUME InvBase, [Next]_vars PROVE InvBase'
  OBVIOUS
<1>1. CASE Reiniciar
  BY <1>1, CaerBase, MarcasValidas DEF Reiniciar, InvBase, TypeOK
<1>2. ASSUME NEW h \in Hilos, Paso(h) PROVE InvBase'
  BY <1>2, PasoBase
<1>3. CASE UNCHANGED vars
  BY <1>3 DEF vars, locales, InvBase, TypeOK, Candado, Reposo
<1> QED BY <1>1, <1>2, <1>3 DEF Next

\* The variables of the block store have their types, for any constants.
THEOREM TiposBloques == Spec => []TypeOK
<1>1. Spec => []InvBase
  BY BaseInicial, NextBase, PTL DEF Spec
<1>2. InvBase => TypeOK
  BY DEF InvBase
<1> QED BY <1>1, <1>2, PTL

-----------------------------------------------------------------------------
(* Orden, action by action.  Each lemma assumes that no incident of        *)
(* Confunden has happened, the step's own included.                        *)

LEMMA TipoDeBLOCKS ==
  ASSUME TypeOK, NEW f \in Archivos, Existe(f)
  PROVE  /\ BLOCKS[f] \in Seq(Bloques)
         /\ DOMAIN BLOCKS[f] = 1..Len(BLOCKS[f]) /\ Len(BLOCKS[f]) \in Nat
         /\ \A i \in DOMAIN BLOCKS[f] : BLOCKS[f][i] \in Bloques
<1>1. BLOCKS[f] \in Seq(Bloques)
  BY DEF TypeOK, Existe
<1> QED BY <1>1

\* While nothing is wrong, a thread that works on a file has it to itself.
LEMMA ArchivoDeUno ==
  ASSUME Inv, Sano, NEW h \in Hilos, pc[h] # "libre"
  PROVE  /\ archivo[h] \in Archivos
         /\ copia[h] = BLOCKS[archivo[h]] /\ Existe(archivo[h])
         /\ \A g \in Hilos \ {h} : pc[g] # "libre" => archivo[g] # archivo[h]
  BY MarcasValidas DEF Inv, InvBase, Reposo, Orden, CopiaFiel, UnoPorArchivo, TypeOK, Existe

\* A thread starts on a file nobody works on: Tomada changes for no position
\* of another file.
LEMMA CrearOrden ==
  ASSUME Inv, NEW h \in Hilos, NEW f \in Archivos, CrearArchivoPuntoBin(h, f), Sano'
  PROVE  Orden'
<1>1. Sano /\ Trabajan(f) = {}
  BY DEF CrearArchivoPuntoBin, SeCruzan, Sano, Confunden
<1> USE <1>1 DEF Inv, InvBase, TypeOK, Reposo, CrearArchivoPuntoBin, Ir, Liberando
<1>2. BLOCKS'[f] = <<>> /\ \A g \in Archivos \ {f} : BLOCKS'[g] = BLOCKS[g]
  OBVIOUS
<1>3. \A g \in Archivos, i \in Nat : Tomada(g, i)' => Tomada(g, i) /\ g # f
  <2> SUFFICES ASSUME NEW g \in Archivos, NEW i \in Nat, Tomada(g, i)'
               PROVE  Tomada(g, i) /\ g # f
    OBVIOUS
  <2>1. DOMAIN <<>> = {}
    OBVIOUS
  <2>2. g # f
    BY <1>2, <2>1 DEF Tomada
  <2>3. BLOCKS'[g] = BLOCKS[g]
    BY <1>2, <2>2
  <2>4. \A k \in Hilos : pc[k] \in Liberando => pc'[k] = pc[k] /\ archivo'[k] = archivo[k]
    OBVIOUS
  <2> QED BY <2>2, <2>3, <2>4 DEF Tomada, Existe
<1>4. UnoPorArchivo' /\ CopiaFiel'
  <2>1. /\ h \in Hilos /\ pc[h] = "libre" /\ pc'[h] # "libre"
        /\ archivo'[h] = f /\ copia'[h] = <<>>
        /\ \A k \in Hilos \ {h} : pc'[k] = pc[k] /\ archivo'[k] = archivo[k]
                                  /\ copia'[k] = copia[k]
    OBVIOUS
  <2>2. \A k \in Hilos \ {h} : pc[k] # "libre" => archivo[k] # f /\ archivo[k] \in Archivos
    BY DEF Trabajan
  <2>3. UnoPorArchivo /\ CopiaFiel
    BY DEF Orden
  <2>4. UnoPorArchivo'
    BY <2>1, <2>2, <2>3 DEF UnoPorArchivo
  <2>5. CopiaFiel'
    BY <1>2, <2>1, <2>2, <2>3 DEF CopiaFiel
  <2> QED BY <2>4, <2>5
<1>5. Propios' /\ Marcados' /\ EnRango' /\ EnCamino'
  <2>1. \A g \in Archivos, i \in Nat : Tomada(g, i)' =>
          Tomada(g, i) /\ BLOCKS'[g][i] = BLOCKS[g][i]
    BY <1>2, <1>3
  <2>2. /\ bitarray' = bitarray /\ bloque' = bloque
        /\ \A k \in Hilos : pc'[k] \in {"marcar", "asignar"} => pc[k] = pc'[k]
    OBVIOUS
  <2>3. Propios /\ Marcados /\ EnRango /\ EnCamino
    BY DEF Orden
  <2>4. Propios'
    BY <2>1, <2>3 DEF Propios
  <2>5. Marcados'
    BY <2>1, <2>2, <2>3 DEF Marcados
  <2>6. EnRango'
    BY <2>1, <2>2, <2>3 DEF EnRango
  <2>7. EnCamino'
    BY <2>1, <2>2, <2>3 DEF EnCamino
  <2> QED BY <2>4, <2>5, <2>6, <2>7
<1>6. BytesAlDia' /\ SinSolape'
  BY DEF BytesAlDia, SinSolape, Orden
<1> QED BY <1>4, <1>5, <1>6 DEF Orden

LEMMA EscribirOrden ==
  ASSUME Inv, NEW h \in Hilos, NEW f \in Archivos, EscribirRegistro(h, f), Sano'
  PROVE  Orden'
<1>1. Sano /\ Trabajan(f) = {}
  BY DEF EscribirRegistro, SeCruzan, Sano, Confunden
<1> USE <1>1 DEF Inv, InvBase, TypeOK, Reposo, EscribirRegistro, Ir, Liberando
<1>3. \A g \in Archivos, i \in Nat : Tomada(g, i)' => Tomada(g, i)
  BY DEF Tomada, Existe, Trabajan
<1>4. UnoPorArchivo' /\ CopiaFiel'
  BY DEF UnoPorArchivo, CopiaFiel, Trabajan, Orden
<1>5. Propios' /\ Marcados' /\ EnRango' /\ EnCamino'
  BY <1>3 DEF Propios, Marcados, EnRango, EnCamino, Orden
<1>6. BytesAlDia' /\ SinSolape'
  BY DEF BytesAlDia, SinSolape, Orden
<1> QED BY <1>4, <1>5, <1>6 DEF Orden

LEMMA LiberarOrden ==
  ASSUME Inv, NEW h \in Hilos, NEW f \in Archivos, LiberarBloques(h, f), Sano'
  PROVE  Orden'
<1>1. Sano /\ Trabajan(f) = {}
  BY DEF LiberarBloques, SeCruzan, Sano, Confunden
<1> USE <1>1 DEF Inv, InvBase, TypeOK, Reposo, LiberarBloques, Ir, Liberando
<1>3. \A g \in Archivos, i \in Nat : Tomada(g, i)' => Tomada(g, i)
  BY DEF Tomada, Existe, Trabajan
<1>4. UnoPorArchivo' /\ CopiaFiel'
  BY DEF UnoPorArchivo, CopiaFiel, Trabajan, Orden
<1>5. Propios' /\ Marcados' /\ EnRango' /\ EnCamino'
  BY <1>3 DEF Propios, Marcados, EnRango, EnCamino, Orden
<1>6. BytesAlDia' /\ SinSolape'
  BY DEF BytesAlDia, SinSolape, Orden
<1> QED BY <1>4, <1>5, <1>6 DEF Orden

\* primerBloqueLibre finds a clear bit: a block that is nobody's.
LEMMA BuscarOrden ==
  ASSUME Inv, NEW h \in Hilos, Buscar(h), Sano'
  PROVE  Orden'
<1> DEFINE b == PrimerBloqueLibre
           byte == bitarray \cap ByteDe(b)
<1>1. /\ pc[h] = "buscar" /\ pc' = [pc EXCEPT ![h] = "marcar"]
      /\ bloque' = [bloque EXCEPT ![h] = b]
      /\ leido' = [leido EXCEPT ![h] = byte]
      /\ UNCHANGED <<bitarray, BLOCKS, archivo, copia, pos>>
  BY DEF Buscar, Ir
<1>2. Sano /\ b # TamanioBitarray /\ ~SeSolapan(h, b, FALSE)
  BY DEF Buscar, Sano, Confunden
<1>3. b \in Bloques /\ b \notin bitarray /\ b < TamanioBitarray
  BY <1>2, ElPrimero
<1>4. Orden /\ TypeOK
  BY <1>2 DEF Inv, InvBase
<1>5. \A g \in Hilos \ {h} : pc[g] = "guardar" =>
        b \notin ByteDe(bloque[g]) /\ bloque[g] \notin ByteDe(b)
  <2>1. \A g \in Hilos \ {h} : pc[g] = "guardar" => bloque[g] \notin ByteDe(b)
    BY <1>2 DEF SeSolapan
  <2>2. \A g \in Hilos : bloque[g] \in Bloques
    BY <1>4 DEF TypeOK
  <2> QED BY <2>1, <2>2, <1>3, LosBytes
<1> HIDE DEF b
<1> USE DEF TypeOK, Liberando
<1>6. \A g \in Archivos, i \in Nat : Tomada(g, i)' <=> Tomada(g, i)
  BY <1>1, <1>4 DEF Tomada, Existe
<1>7. UnoPorArchivo' /\ CopiaFiel'
  BY <1>1, <1>4 DEF Orden, UnoPorArchivo, CopiaFiel
<1>8. Propios' /\ Marcados' /\ EnRango' /\ EnCamino'
  BY <1>1, <1>3, <1>4, <1>6 DEF Orden, Propios, Marcados, EnRango, EnCamino
<1>9. BytesAlDia'
  BY <1>1, <1>3, <1>4 DEF Orden, BytesAlDia
<1>10. SinSolape'
  BY <1>1, <1>4, <1>5 DEF Orden, SinSolape
<1> QED BY <1>7, <1>8, <1>9, <1>10 DEF Orden

\* The byte written back is the byte of the bitmap, with one bit more.
LEMMA MarcarOrden ==
  ASSUME Inv, NEW h \in Hilos, Marcar(h), Sano'
  PROVE  Orden'
<1>1. /\ pc[h] = "marcar" /\ pc' = [pc EXCEPT ![h] = "asignar"]
      /\ bitarray' = Escribir(bloque[h], leido[h] \cup {bloque[h]})
      /\ leido' = [leido EXCEPT ![h] = {}]
      /\ UNCHANGED <<BLOCKS, archivo, copia, pos, bloque>>
  BY DEF Marcar, Ir
<1>2. Sano /\ Orden /\ TypeOK
  BY DEF Inv, InvBase, Marcar, Sano
<1>3. \A g \in Hilos : bloque[g] \in Bloques
  BY <1>2 DEF TypeOK
<1>4. bitarray' = bitarray \cup {bloque[h]} /\ bloque[h] \notin bitarray
  <2>1. leido[h] = bitarray \cap ByteDe(bloque[h]) /\ bloque[h] \notin bitarray
    BY <1>1, <1>2 DEF Orden, BytesAlDia
  <2>2. bloque[h] \in ByteDe(bloque[h])
    BY <1>3, LosBytes
  <2> QED BY <1>1, <2>1, <2>2 DEF Escribir
<1>5. \A g \in Hilos \ {h} : pc[g] # "marcar"
  BY <1>1 DEF Inv, InvBase, Candado
<1>6. \A g \in Hilos \ {h} : pc[g] = "guardar" => bloque[h] \notin ByteDe(bloque[g])
  BY <1>1, <1>2 DEF Orden, SinSolape
<1> USE DEF TypeOK, Liberando
<1>7. \A g \in Archivos, i \in Nat : Tomada(g, i)' <=> Tomada(g, i)
  BY <1>1, <1>2 DEF Tomada, Existe
<1>8. UnoPorArchivo' /\ CopiaFiel'
  BY <1>1, <1>2 DEF Orden, UnoPorArchivo, CopiaFiel
<1>13. BLOCKS' = BLOCKS /\ bloque' = bloque
  BY <1>1
<1>14. Propios'
  BY <1>13, <1>2, <1>7 DEF Orden, Propios
<1>15. Marcados'
  BY <1>13, <1>2, <1>4, <1>7 DEF Orden, Marcados
<1>16. EnRango'
  <2>1. \A g \in Hilos : pc'[g] \in {"marcar", "asignar"} => pc[g] \in {"marcar", "asignar"}
    BY <1>1, <1>2
  <2> QED BY <2>1, <1>13, <1>2, <1>7 DEF Orden, EnRango
<1>9. Propios' /\ Marcados' /\ EnRango'
  BY <1>14, <1>15, <1>16
<1>10. EnCamino'
  <2>1. \A g \in Hilos : pc'[g] = "asignar" => g = h \/ pc[g] = "asignar"
    BY <1>1, <1>2
  <2>2. /\ \A f \in Archivos, i \in Nat : Tomada(f, i) => BLOCKS[f][i] # bloque[h]
        /\ \A g \in Hilos : pc[g] = "asignar" => bloque[g] # bloque[h] /\ bloque[g] \in bitarray
    BY <1>2, <1>4 DEF Orden, Marcados, EnCamino
  <2>3. \A g \in Hilos : pc[g] = "asignar" =>
          /\ \A f \in Archivos, i \in Nat : Tomada(f, i) => BLOCKS[f][i] # bloque[g]
          /\ \A k \in Hilos : pc[k] = "asignar" /\ bloque[k] = bloque[g] => k = g
    BY <1>2 DEF Orden, EnCamino
  <2> QED BY <1>4, <1>7, <1>13, <2>1, <2>2, <2>3 DEF EnCamino
<1>11. BytesAlDia'
  <2> SUFFICES ASSUME NEW g \in Hilos, g # h
               PROVE  /\ pc'[g] \in {"marcar", "guardar"} =>
                           leido'[g] = bitarray' \cap ByteDe(bloque'[g])
                      /\ pc'[g] = "marcar" => bloque'[g] \notin bitarray'
                      /\ pc'[g] = "guardar" => /\ pos'[g] \in DOMAIN copia'[g]
                                               /\ bloque'[g] = copia'[g][pos'[g]]
    <3>1. pc'[h] = "asignar"
      BY <1>1, <1>2
    <3> QED BY <3>1, Zenon DEF BytesAlDia
  <2>1. /\ pc'[g] = pc[g] /\ leido'[g] = leido[g] /\ bloque'[g] = bloque[g]
        /\ pos'[g] = pos[g] /\ copia'[g] = copia[g]
    BY <1>1, <1>2
  <2>2. pc[g] \in {"marcar", "guardar"} =>
          pc[g] = "guardar" /\ bitarray' \cap ByteDe(bloque[g]) = bitarray \cap ByteDe(bloque[g])
    BY <1>4, <1>5, <1>6
  <2>3. /\ pc[g] \in {"marcar", "guardar"} => leido[g] = bitarray \cap ByteDe(bloque[g])
        /\ pc[g] = "guardar" => pos[g] \in DOMAIN copia[g] /\ bloque[g] = copia[g][pos[g]]
    BY <1>2 DEF Orden, BytesAlDia
  <2>4. pc[g] # "marcar"
    BY <1>5
  <2> QED BY <2>1, <2>2, <2>3, <2>4
<1>12. SinSolape'
  BY <1>1, <1>2 DEF Orden, SinSolape
<1> QED BY <1>8, <1>9, <1>10, <1>11, <1>12 DEF Orden

\* The block handed out goes to the end of one file's list.
LEMMA AsignarOrden ==
  ASSUME Inv, NEW h \in Hilos, AsignarBloque(h) \/ AsignarBloqueAConfig(h), Sano'
  PROVE  Orden'
<1>1. Sano /\ Orden /\ TypeOK /\ pc[h] = "asignar"
  BY DEF Inv, InvBase, AsignarBloque, AsignarBloqueAConfig, Sano
<1>2. PICK f \in Archivos :
        /\ f = archivo[h] /\ copia[h] = BLOCKS[f] /\ Existe(f)
        /\ \A g \in Hilos \ {h} : pc[g] # "libre" => archivo[g] # f
  BY <1>1, ArchivoDeUno
<1>3. /\ pc'[h] \in {"libre", "releer"}
      /\ pc'[h] = "releer" => archivo'[h] = f /\ copia'[h] = Append(BLOCKS[f], bloque[h])
      /\ \A k \in Hilos \ {h} : /\ pc'[k] = pc[k] /\ archivo'[k] = archivo[k]
                                /\ copia'[k] = copia[k] /\ pos'[k] = pos[k]
                                /\ bloque'[k] = bloque[k]
      /\ BLOCKS' = [BLOCKS EXCEPT ![f] = Append(BLOCKS[f], bloque[h])]
      /\ UNCHANGED <<bitarray, leido>>
  <2>1. CASE AsignarBloque(h)
    BY <1>1, <1>2, <2>1 DEF AsignarBloque, Terminar, Ir, TypeOK
  <2>2. CASE AsignarBloqueAConfig(h)
    BY <1>1, <1>2, <2>2 DEF AsignarBloqueAConfig, Ir, TypeOK
  <2> QED BY <2>1, <2>2
<1>4. BLOCKS[f] \in Seq(Bloques) /\ bloque[h] \in Bloques
  BY <1>1, <1>2, TipoDeBLOCKS DEF TypeOK
<1>20. PICK n \in Nat : n = Len(BLOCKS[f])
  BY <1>4
<1>5. /\ n \in Nat /\ DOMAIN BLOCKS[f] = 1..n
      /\ DOMAIN BLOCKS'[f] = 1..(n + 1)
      /\ BLOCKS'[f][n + 1] = bloque[h]
      /\ \A i \in 1..n : BLOCKS'[f][i] = BLOCKS[f][i]
  <2>1. BLOCKS'[f] = Append(BLOCKS[f], bloque[h])
    BY <1>1, <1>2, <1>3 DEF TypeOK
  <2> QED BY <2>1, <1>4, <1>20
<1>6. \A g \in Archivos \ {f} : BLOCKS'[g] = BLOCKS[g]
  BY <1>1, <1>3 DEF TypeOK
<1> USE DEF Liberando
<1>7. \A k \in Hilos : pc'[k] \in Liberando <=> pc[k] \in Liberando
  BY <1>1, <1>3 DEF TypeOK
<1>8. \A k \in Hilos : pc'[k] \in Liberando => archivo'[k] = archivo[k] /\ pos'[k] = pos[k]
  BY <1>1, <1>3 DEF TypeOK
<1>9. \A g \in Archivos \ {f}, i \in Nat : Tomada(g, i)' => Tomada(g, i)
  BY <1>6, <1>7, <1>8 DEF Tomada, Existe
<1>10. \A i \in Nat : Tomada(f, i)' => i = n + 1 \/ (i \in 1..n /\ Tomada(f, i))
  <2> SUFFICES ASSUME NEW i \in Nat, Tomada(f, i)', i # n + 1
               PROVE  i \in 1..n /\ Tomada(f, i)
    OBVIOUS
  <2>1. i \in 1..(n + 1)
    BY <1>5 DEF Tomada
  <2>2. i \in 1..n
    BY <1>5, <2>1
  <2> QED BY <1>2, <1>5, <1>7, <1>8, <2>2 DEF Tomada
<1>11. /\ bloque[h] \in bitarray /\ bloque[h] < TamanioBitarray
       /\ \A g \in Archivos, i \in Nat : Tomada(g, i) => BLOCKS[g][i] # bloque[h]
       /\ \A g \in Hilos : pc[g] = "asignar" /\ bloque[g] = bloque[h] => g = h
  BY <1>1 DEF Orden, EnCamino, EnRango
\* What a position that is taken afterwards holds: what it held, or the block.
<1>12. \A g \in Archivos, i \in Nat : Tomada(g, i)' =>
         \/ g = f /\ i = n + 1 /\ BLOCKS'[g][i] = bloque[h]
         \/ Tomada(g, i) /\ BLOCKS'[g][i] = BLOCKS[g][i]
  <2>1. \A i \in Nat : Tomada(f, i)' =>
          \/ i = n + 1 /\ BLOCKS'[f][i] = bloque[h]
          \/ Tomada(f, i) /\ BLOCKS'[f][i] = BLOCKS[f][i]
    BY <1>5, <1>10
  <2>2. \A g \in Archivos \ {f}, i \in Nat : Tomada(g, i)' =>
          Tomada(g, i) /\ BLOCKS'[g][i] = BLOCKS[g][i]
    BY <1>6, <1>9
  <2> QED BY <2>1, <2>2
<1>13. UnoPorArchivo'
  BY <1>1, <1>2, <1>3 DEF Orden, UnoPorArchivo
<1>14. CopiaFiel'
  <2> SUFFICES ASSUME NEW g \in Hilos, pc'[g] # "libre"
               PROVE  copia'[g] = BLOCKS'[archivo'[g]]
    BY DEF CopiaFiel
  <2>0. CASE g = h
    BY <1>1, <1>3, <2>0 DEF TypeOK
  <2> SUFFICES ASSUME g # h PROVE copia'[g] = BLOCKS'[archivo'[g]]
    BY <2>0
  <2>1. g # h /\ pc[g] # "libre" /\ copia'[g] = copia[g] /\ archivo'[g] = archivo[g]
    BY <1>3
  <2>2. archivo[g] # f /\ archivo[g] \in Archivos /\ copia[g] = BLOCKS[archivo[g]]
    BY <1>1, <1>2, <2>1 DEF Orden, CopiaFiel, Inv, InvBase, Reposo
  <2> QED BY <1>6, <2>1, <2>2
<1>15. Propios'
  <2> SUFFICES ASSUME NEW g \in Archivos, NEW k \in Archivos, NEW i \in Nat, NEW l \in Nat,
                      Tomada(g, i)', Tomada(k, l)', BLOCKS'[g][i] = BLOCKS'[k][l]
               PROVE  g = k /\ i = l
    BY DEF Propios
  <2> QED BY <1>1, <1>11, <1>12 DEF Orden, Propios
<1>16. Marcados'
  <2>1. bitarray' = bitarray
    BY <1>3
  <2>2. \A g \in Archivos, i \in Nat : Tomada(g, i) => BLOCKS[g][i] \in bitarray
    BY <1>1 DEF Orden, Marcados
  <2> QED BY <1>11, <1>12, <2>1, <2>2 DEF Marcados
<1>17. EnRango'
  BY <1>1, <1>3, <1>11, <1>12 DEF Orden, EnRango, TypeOK
<1>18. EnCamino'
  <2> SUFFICES ASSUME NEW g \in Hilos, pc'[g] = "asignar"
               PROVE  /\ bloque'[g] \in bitarray'
                      /\ \A k \in Archivos : \A i \in Nat :
                           Tomada(k, i)' => BLOCKS'[k][i] # bloque'[g]
                      /\ \A k \in Hilos : pc'[k] = "asignar" /\ bloque'[k] = bloque'[g] => k = g
    BY DEF EnCamino
  <2>1. g # h /\ pc[g] = "asignar" /\ bloque'[g] = bloque[g]
    BY <1>1, <1>3 DEF TypeOK
  <2>2. bloque[g] # bloque[h]
    BY <1>11, <2>1
  <2>3. \A k \in Hilos : pc'[k] = "asignar" => pc[k] = "asignar" /\ bloque'[k] = bloque[k]
    BY <1>1, <1>3 DEF TypeOK
  <2>4. /\ bloque[g] \in bitarray
        /\ \A k \in Archivos, i \in Nat : Tomada(k, i) => BLOCKS[k][i] # bloque[g]
        /\ \A k \in Hilos : pc[k] = "asignar" /\ bloque[k] = bloque[g] => k = g
    BY <1>1, <2>1 DEF Orden, EnCamino
  <2>5. \A k \in Archivos, i \in Nat : Tomada(k, i)' => BLOCKS'[k][i] # bloque[g]
    BY <1>12, <2>2, <2>4
  <2>6. \A k \in Hilos : pc'[k] = "asignar" /\ bloque'[k] = bloque'[g] => k = g
    BY <2>1, <2>3, <2>4
  <2>7. bitarray' = bitarray
    BY <1>3
  <2> QED BY <2>1, <2>4, <2>5, <2>6, <2>7
<1>19. BytesAlDia' /\ SinSolape'
  <2>1. /\ bitarray' = bitarray
        /\ \A k \in Hilos : pc'[k] \in {"marcar", "guardar"} =>
             /\ pc[k] = pc'[k] /\ leido'[k] = leido[k] /\ pos'[k] = pos[k]
             /\ bloque'[k] = bloque[k] /\ copia'[k] = copia[k]
    BY <1>1, <1>3
  <2>2. BytesAlDia /\ SinSolape
    BY <1>1 DEF Orden
  <2>3. BytesAlDia'
    BY <2>1, <2>2 DEF BytesAlDia
  <2>4. SinSolape'
    BY <2>1, <2>2 DEF SinSolape
  <2> QED BY <2>3, <2>4
<1> QED BY <1>13, <1>14, <1>15, <1>16, <1>17, <1>18, <1>19 DEF Orden

\* A free reads the byte of a block of its own file.
LEMMA LimpiarOrden ==
  ASSUME Inv, NEW h \in Hilos, Limpiar(h), Sano'
  PROVE  Orden'
<1> DEFINE b == copia[h][pos[h]]
           byte == bitarray \cap ByteDe(b)
<1>1. /\ pc[h] = "limpiar" /\ pc' = [pc EXCEPT ![h] = "guardar"]
      /\ bloque' = [bloque EXCEPT ![h] = b]
      /\ leido' = [leido EXCEPT ![h] = byte]
      /\ pos[h] <= Len(copia[h])
      /\ UNCHANGED <<bitarray, BLOCKS, archivo, copia, pos>>
  BY DEF Limpiar, Ir, Quedan
<1>2. Sano /\ ~SeSolapan(h, b, TRUE)
  BY DEF Limpiar, Anotar, Sano, Confunden
<1>3. Orden /\ TypeOK
  BY <1>2 DEF Inv, InvBase
<1>4. pos[h] \in DOMAIN copia[h] /\ b \in Bloques
  BY <1>1, <1>3, Secuencias DEF TypeOK
<1>5. \A g \in Hilos \ {h} : pc[g] \in {"marcar", "guardar"} =>
        b \notin ByteDe(bloque[g]) /\ bloque[g] \notin ByteDe(b)
  <2>1. \A g \in Hilos \ {h} : pc[g] \in {"marcar", "guardar"} => bloque[g] \notin ByteDe(b)
    BY <1>2 DEF SeSolapan
  <2>2. \A g \in Hilos : bloque[g] \in Bloques
    BY <1>3 DEF TypeOK
  <2> QED BY <2>1, <2>2, <1>4, LosBytes
<1> USE DEF TypeOK, Liberando
<1>6. \A g \in Archivos, i \in Nat : Tomada(g, i)' <=> Tomada(g, i)
  BY <1>1, <1>3 DEF Tomada, Existe
<1>7. UnoPorArchivo' /\ CopiaFiel'
  BY <1>1, <1>3 DEF Orden, UnoPorArchivo, CopiaFiel
<1>8. Propios' /\ Marcados'
  BY <1>1, <1>3, <1>6 DEF Orden, Propios, Marcados
<1>9. EnRango' /\ EnCamino'
  <2>1. \A g \in Hilos : pc'[g] \in {"marcar", "asignar"} =>
          pc'[g] = pc[g] /\ bloque'[g] = bloque[g]
    BY <1>1, <1>3
  <2>2. bitarray' = bitarray /\ BLOCKS' = BLOCKS
    BY <1>1
  <2>3. EnRango'
    BY <1>3, <1>6, <2>1, <2>2 DEF Orden, EnRango
  <2>4. EnCamino'
    BY <1>3, <1>6, <2>1, <2>2 DEF Orden, EnCamino
  <2> QED BY <2>3, <2>4
<1>10. BytesAlDia'
  <2>1. /\ leido'[h] = bitarray \cap ByteDe(b) /\ bloque'[h] = b /\ pc'[h] = "guardar"
        /\ \A g \in Hilos \ {h} : /\ leido'[g] = leido[g] /\ bloque'[g] = bloque[g]
                                  /\ pc'[g] = pc[g]
    BY <1>1, <1>3
  <2> HIDE DEF b
  <2>2. bitarray' = bitarray /\ copia' = copia /\ pos' = pos /\ b = copia[h][pos[h]]
    BY <1>1 DEF b
  <2>3. \A g \in Hilos \ {h} :
          /\ pc[g] \in {"marcar", "guardar"} => leido[g] = bitarray \cap ByteDe(bloque[g])
          /\ pc[g] = "marcar" => bloque[g] \notin bitarray
          /\ pc[g] = "guardar" => pos[g] \in DOMAIN copia[g] /\ bloque[g] = copia[g][pos[g]]
    BY <1>3 DEF Orden, BytesAlDia
  <2>4. \A g \in Hilos \ {h} :
          /\ pc'[g] \in {"marcar", "guardar"} => leido'[g] = bitarray' \cap ByteDe(bloque'[g])
          /\ pc'[g] = "marcar" => bloque'[g] \notin bitarray'
          /\ pc'[g] = "guardar" => pos'[g] \in DOMAIN copia'[g] /\ bloque'[g] = copia'[g][pos'[g]]
    BY <2>1, <2>2, <2>3
  <2>5. /\ leido'[h] = bitarray' \cap ByteDe(bloque'[h])
        /\ pc'[h] # "marcar"
        /\ pos'[h] \in DOMAIN copia'[h] /\ bloque'[h] = copia'[h][pos'[h]]
    BY <1>4, <2>1, <2>2
  <2> QED BY <2>4, <2>5 DEF BytesAlDia
<1>11. SinSolape'
  BY <1>1, <1>3, <1>5 DEF Orden, SinSolape
<1> QED BY <1>7, <1>8, <1>9, <1>10, <1>11 DEF Orden

\* The bit goes off: the position of the list it came from is nobody's now.
LEMMA GuardarOrden ==
  ASSUME Inv, NEW h \in Hilos, Guardar(h), Sano'
  PROVE  Orden'
<1>1. /\ pc[h] = "guardar" /\ pc' = [pc EXCEPT ![h] = "limpiar"]
      /\ bitarray' = Escribir(bloque[h], leido[h] \ {bloque[h]})
      /\ leido' = [leido EXCEPT ![h] = {}]
      /\ pos' = [pos EXCEPT ![h] = pos[h] + 1]
      /\ UNCHANGED <<BLOCKS, archivo, copia, bloque>>
  BY DEF Guardar, Ir
<1>2. Sano /\ Orden /\ TypeOK
  BY DEF Inv, InvBase, Guardar, Sano
<1>3. PICK f \in Archivos : f = archivo[h] /\ copia[h] = BLOCKS[f] /\ Existe(f)
        /\ \A g \in Hilos \ {h} : pc[g] # "libre" => archivo[g] # f
  BY <1>1, <1>2, ArchivoDeUno
<1>4. PICK p \in Nat : p = pos[h]
  BY <1>2 DEF TypeOK
<1>5. p \in DOMAIN BLOCKS[f] /\ BLOCKS[f][p] = bloque[h] /\ p # 0
  BY <1>1, <1>2, <1>3, <1>4 DEF Orden, BytesAlDia, TypeOK
<1>6. bitarray' = bitarray \ {bloque[h]}
  <2>1. leido[h] = bitarray \cap ByteDe(bloque[h])
    BY <1>1, <1>2 DEF Orden, BytesAlDia
  <2>2. bloque[h] \in ByteDe(bloque[h])
    BY <1>2, LosBytes DEF TypeOK
  <2> QED BY <1>1, <2>1, <2>2 DEF Escribir
<1> USE DEF Liberando
<1>7. Tomada(f, p)
  BY <1>3, <1>4, <1>5 DEF Tomada
<1>8. /\ pc'[h] = "limpiar" /\ pos'[h] = p + 1
      /\ \A g \in Hilos \ {h} : pc'[g] = pc[g] /\ pos'[g] = pos[g] /\ leido'[g] = leido[g]
  BY <1>1, <1>2, <1>4 DEF TypeOK
<1>9. \A g \in Archivos, i \in Nat : Tomada(g, i)' => Tomada(g, i) /\ ~(g = f /\ i = p)
  <2> SUFFICES ASSUME NEW g \in Archivos, NEW i \in Nat, Tomada(g, i)'
               PROVE  Tomada(g, i) /\ ~(g = f /\ i = p)
    OBVIOUS
  <2>1. g = f => p + 1 <= i
    BY <1>1, <1>3, <1>8 DEF Tomada
  <2>2. ~(g = f /\ i = p)
    BY <2>1
  <2>3. \A k \in Hilos \ {h} : pc[k] \in Liberando /\ archivo[k] = g => pos[k] <= i
    BY <1>1, <1>8 DEF Tomada
  <2>4. archivo[h] = g => pos[h] <= i
    BY <1>3, <1>4, <2>1
  <2> QED BY <1>1, <2>2, <2>3, <2>4 DEF Tomada, Existe
<1>10. \A g \in Archivos, i \in Nat : Tomada(g, i)' => BLOCKS[g][i] # bloque[h]
  BY <1>2, <1>5, <1>7, <1>9 DEF Orden, Propios
<1>11. BLOCKS' = BLOCKS /\ bloque' = bloque /\ copia' = copia /\ archivo' = archivo
  BY <1>1
<1>12. \A g \in Hilos : pc'[g] \in {"marcar", "asignar"} => g # h /\ pc'[g] = pc[g]
  BY <1>8
<1>13. UnoPorArchivo' /\ CopiaFiel'
  <2>1. \A g \in Hilos : pc'[g] # "libre" => pc[g] # "libre"
    BY <1>1, <1>8
  <2> QED BY <1>2, <1>11, <2>1 DEF Orden, UnoPorArchivo, CopiaFiel
<1>14. Propios'
  BY <1>2, <1>9, <1>11 DEF Orden, Propios
<1>15. Marcados'
  BY <1>2, <1>6, <1>9, <1>10, <1>11 DEF Orden, Marcados
<1>16. EnRango'
  BY <1>2, <1>9, <1>11, <1>12 DEF Orden, EnRango
<1>17. EnCamino'
  <2> SUFFICES ASSUME NEW g \in Hilos, pc'[g] = "asignar"
               PROVE  /\ bloque[g] \in bitarray'
                      /\ \A k \in Archivos : \A i \in Nat :
                           Tomada(k, i)' => BLOCKS[k][i] # bloque[g]
                      /\ \A k \in Hilos : pc'[k] = "asignar" /\ bloque[k] = bloque[g] => k = g
    BY <1>11 DEF EnCamino
  <2>1. pc[g] = "asignar"
    BY <1>12
  <2>2. bloque[g] # bloque[h]
    BY <1>2, <1>5, <1>7, <2>1 DEF Orden, EnCamino
  <2>3. /\ bloque[g] \in bitarray
        /\ \A k \in Archivos, i \in Nat : Tomada(k, i) => BLOCKS[k][i] # bloque[g]
        /\ \A k \in Hilos : pc[k] = "asignar" /\ bloque[k] = bloque[g] => k = g
    BY <1>2, <2>1 DEF Orden, EnCamino
  <2>4. \A k \in Hilos : pc'[k] = "asignar" => pc[k] = "asignar"
    BY <1>12
  <2> QED BY <1>6, <1>9, <2>2, <2>3, <2>4
<1>18. BytesAlDia'
  <2>1. \A g \in Hilos \ {h} : pc[g] \in {"marcar", "guardar"} =>
          bitarray' \cap ByteDe(bloque[g]) = bitarray \cap ByteDe(bloque[g])
    BY <1>1, <1>2, <1>6 DEF Orden, SinSolape
  <2>2. \A g \in Hilos \ {h} :
          /\ pc[g] \in {"marcar", "guardar"} => leido[g] = bitarray \cap ByteDe(bloque[g])
          /\ pc[g] = "marcar" => bloque[g] \notin bitarray
          /\ pc[g] = "guardar" => pos[g] \in DOMAIN copia[g] /\ bloque[g] = copia[g][pos[g]]
    BY <1>2 DEF Orden, BytesAlDia
  <2>3. bitarray' \subseteq bitarray
    BY <1>6
  <2>4. \A g \in Hilos : pc'[g] \in {"marcar", "guardar"} => g # h
    BY <1>8
  <2> QED BY <1>8, <1>11, <2>1, <2>2, <2>3, <2>4 DEF BytesAlDia
<1>19. SinSolape'
  BY <1>2, <1>8, <1>11 DEF Orden, SinSolape
<1> QED BY <1>13, <1>14, <1>15, <1>16, <1>17, <1>18, <1>19 DEF Orden

\* By the time the file goes, none of its positions is its own.
LEMMA BorrarOrden ==
  ASSUME Inv, NEW h \in Hilos, Borrar(h), Sano'
  PROVE  Orden'
<1>1. Sano /\ Orden /\ TypeOK /\ pc[h] = "limpiar"
  BY DEF Inv, InvBase, Borrar, Sano
<1>2. PICK f \in Archivos : f = archivo[h] /\ copia[h] = BLOCKS[f] /\ Existe(f)
        /\ \A g \in Hilos \ {h} : pc[g] # "libre" => archivo[g] # f
  BY <1>1, ArchivoDeUno
<1>3. /\ pc' = [pc EXCEPT ![h] = "libre"]
      /\ archivo' = [archivo EXCEPT ![h] = NoExiste]
      /\ copia' = [copia EXCEPT ![h] = <<>>]
      /\ pos' = [pos EXCEPT ![h] = 1]
      /\ bloque' = [bloque EXCEPT ![h] = 0]
      /\ BLOCKS' = [BLOCKS EXCEPT ![f] = NoExiste]
      /\ UNCHANGED <<bitarray, leido>>
  BY <1>2 DEF Borrar, Terminar, Ir
<1> USE DEF Liberando
<1>4. /\ pc'[h] = "libre"
      /\ \A g \in Hilos \ {h} : /\ pc'[g] = pc[g] /\ archivo'[g] = archivo[g]
                                /\ copia'[g] = copia[g] /\ pos'[g] = pos[g]
                                /\ bloque'[g] = bloque[g]
      /\ BLOCKS'[f] = NoExiste
      /\ \A g \in Archivos \ {f} : BLOCKS'[g] = BLOCKS[g]
      /\ bitarray' = bitarray /\ leido' = leido
  BY <1>1, <1>3 DEF TypeOK
<1>5. \A g \in Archivos, i \in Nat : Tomada(g, i)' =>
        g # f /\ Tomada(g, i) /\ BLOCKS'[g][i] = BLOCKS[g][i]
  <2> SUFFICES ASSUME NEW g \in Archivos, NEW i \in Nat, Tomada(g, i)'
               PROVE  g # f /\ Tomada(g, i) /\ BLOCKS'[g][i] = BLOCKS[g][i]
    OBVIOUS
  <2>1. g # f
    BY <1>4 DEF Tomada, Existe
  <2>2. BLOCKS'[g] = BLOCKS[g] /\ archivo[h] # g
    BY <1>2, <1>4, <2>1
  <2> QED BY <1>4, <2>1, <2>2 DEF Tomada, Existe
<1>6. UnoPorArchivo'
  BY <1>1, <1>4 DEF Orden, UnoPorArchivo
<1>7. CopiaFiel'
  <2> SUFFICES ASSUME NEW g \in Hilos, pc'[g] # "libre"
               PROVE  copia'[g] = BLOCKS'[archivo'[g]]
    BY DEF CopiaFiel
  <2>1. g # h /\ pc[g] # "libre"
    BY <1>4
  <2>2. archivo[g] # f /\ archivo[g] \in Archivos /\ copia[g] = BLOCKS[archivo[g]]
    BY <1>1, <1>2, <2>1 DEF Orden, CopiaFiel, Inv, InvBase, Reposo
  <2> QED BY <1>4, <2>1, <2>2
<1>8. Propios'
  BY <1>1, <1>5 DEF Orden, Propios
<1>9. Marcados'
  BY <1>1, <1>4, <1>5 DEF Orden, Marcados
<1>10. EnRango'
  <2>1. \A g \in Hilos : pc'[g] \in {"marcar", "asignar"} =>
          pc'[g] = pc[g] /\ bloque'[g] = bloque[g]
    BY <1>4
  <2> QED BY <1>1, <1>5, <2>1 DEF Orden, EnRango
<1>11. EnCamino'
  <2>1. \A g \in Hilos : pc'[g] = "asignar" => pc[g] = "asignar" /\ bloque'[g] = bloque[g]
    BY <1>4
  <2> QED BY <1>1, <1>4, <1>5, <2>1 DEF Orden, EnCamino
<1>12. BytesAlDia' /\ SinSolape'
  BY <1>1, <1>4 DEF Orden, BytesAlDia, SinSolape
<1> QED BY <1>6, <1>7, <1>8, <1>9, <1>10, <1>11, <1>12 DEF Orden

\* A writer that goes on, saves again what it read, or is done: nobody's blocks
\* change.
LEMMA SeguirOrden ==
  ASSUME Inv, NEW h \in Hilos, NoCabe(h) \/ Releer(h) \/ Salvar(h), Sano'
  PROVE  Orden'
<1>1. Sano /\ Orden /\ TypeOK /\ pc[h] \in {"escribir", "releer"}
  BY DEF Inv, InvBase, NoCabe, Releer, Salvar, Sano
<1>2. copia[h] = BLOCKS[archivo[h]] /\ archivo[h] \in Archivos
  BY <1>1, ArchivoDeUno
<1>3. /\ pc'[h] \in {"buscar", "escribir", "libre"}
      /\ pc'[h] # "libre" => archivo'[h] = archivo[h] /\ copia'[h] = copia[h]
      /\ \A k \in Hilos \ {h} : /\ pc'[k] = pc[k] /\ archivo'[k] = archivo[k]
                                /\ copia'[k] = copia[k] /\ pos'[k] = pos[k]
                                /\ bloque'[k] = bloque[k]
      /\ UNCHANGED <<BLOCKS, bitarray, leido>>
  <2>1. CASE NoCabe(h)
    BY <1>1, <2>1 DEF NoCabe, Ir, TypeOK
  <2>2. CASE Releer(h)
    BY <1>1, <1>2, <2>2 DEF Releer, Ir, TypeOK
  <2>3. CASE Salvar(h)
    BY <1>1, <1>2, <2>3 DEF Salvar, Terminar, Ir, TypeOK
  <2> QED BY <2>1, <2>2, <2>3
<1> USE DEF Liberando
<1>4. \A g \in Archivos, i \in Nat : Tomada(g, i)' => Tomada(g, i)
  BY <1>1, <1>3 DEF Tomada, Existe
<1>5. UnoPorArchivo' /\ CopiaFiel'
  BY <1>1, <1>2, <1>3 DEF Orden, UnoPorArchivo, CopiaFiel
<1>6. Propios' /\ Marcados' /\ EnRango' /\ EnCamino'
  BY <1>1, <1>3, <1>4 DEF Orden, Propios, Marcados, EnRango, EnCamino
<1>7. BytesAlDia' /\ SinSolape'
  BY <1>1, <1>3 DEF Orden, BytesAlDia, SinSolape
<1> QED BY <1>5, <1>6, <1>7 DEF Orden

\* The file that is renamed, and the one it replaces, are nobody's: its blocks
\* are where they were under another name.
LEMMA RenombrarOrden ==
  ASSUME Inv, NEW h \in Hilos, NEW f \in Archivos, NEW g \in Archivos, Renombrar(h, f, g), Sano'
  PROVE  Orden'
<1>1. /\ Sano /\ Orden /\ TypeOK /\ f # g /\ Existe(f)
      /\ Trabajan(f) = {} /\ Trabajan(g) = {}
  BY DEF Inv, InvBase, Renombrar, SeCruzan, Sano, Confunden
<1>2. /\ BLOCKS'[g] = BLOCKS[f] /\ BLOCKS'[f] = NoExiste
      /\ \A k \in Archivos \ {f, g} : BLOCKS'[k] = BLOCKS[k]
      /\ UNCHANGED <<bitarray, pc, archivo, copia, pos, bloque, leido>>
  BY <1>1 DEF Renombrar, locales, TypeOK
<1> USE DEF Liberando
<1>3. \A k \in Hilos : pc[k] # "libre" => archivo[k] # f /\ archivo[k] # g
  BY <1>1 DEF Trabajan
\* Where a position that is taken afterwards was.
<1> DEFINE era(k) == IF k = g THEN f ELSE k
<1>4. \A k \in Archivos, i \in Nat : Tomada(k, i)' =>
        k # f /\ Tomada(era(k), i) /\ BLOCKS'[k][i] = BLOCKS[era(k)][i]
  BY <1>1, <1>2, <1>3 DEF Tomada, Existe
<1>5. \A k \in Archivos : era(k) \in Archivos
  OBVIOUS
<1>6. UnoPorArchivo' /\ BytesAlDia' /\ SinSolape'
  BY <1>1, <1>2 DEF Orden, UnoPorArchivo, BytesAlDia, SinSolape
<1>7. CopiaFiel'
  BY <1>1, <1>2, <1>3 DEF Orden, CopiaFiel, Inv, InvBase, Reposo
<1>8. Propios'
  <2> SUFFICES ASSUME NEW k \in Archivos, NEW l \in Archivos, NEW i \in Nat, NEW n \in Nat,
                      Tomada(k, i)', Tomada(l, n)', BLOCKS'[k][i] = BLOCKS'[l][n]
               PROVE  k = l /\ i = n
    BY DEF Propios
  <2>1. era(k) = era(l) /\ i = n /\ k # f /\ l # f
    BY <1>1, <1>4, <1>5 DEF Orden, Propios
  <2> QED BY <2>1
<1>9. Marcados' /\ EnRango'
  <2>1. ASSUME NEW k \in Archivos, NEW i \in Nat, Tomada(k, i)'
        PROVE  BLOCKS'[k][i] \in bitarray /\ BLOCKS'[k][i] < TamanioBitarray
    BY <1>1, <1>4, <1>5, <2>1 DEF Orden, Marcados, EnRango
  <2> HIDE DEF era
  <2> QED BY <1>1, <1>2, <2>1 DEF Orden, Marcados, EnRango
<1>10. EnCamino'
  <2>1. ASSUME NEW k \in Hilos, pc[k] = "asignar", NEW l \in Archivos, NEW i \in Nat, Tomada(l, i)'
        PROVE  BLOCKS'[l][i] # bloque[k]
    BY <1>1, <1>4, <1>5, <2>1 DEF Orden, EnCamino
  <2> HIDE DEF era
  <2> QED BY <1>1, <1>2, <2>1 DEF Orden, EnCamino
<1> QED BY <1>6, <1>7, <1>8, <1>9, <1>10 DEF Orden

\* A file that is removed takes its positions with it.
LEMMA DesvincularOrden ==
  ASSUME Inv, NEW h \in Hilos, NEW f \in Archivos, Desvincular(h, f), Sano'
  PROVE  Orden'
<1>1. Sano /\ Orden /\ TypeOK /\ Trabajan(f) = {}
  BY DEF Inv, InvBase, Desvincular, SeCruzan, Sano, Confunden
<1>2. /\ BLOCKS'[f] = NoExiste /\ \A k \in Archivos \ {f} : BLOCKS'[k] = BLOCKS[k]
      /\ UNCHANGED <<bitarray, pc, archivo, copia, pos, bloque, leido>>
  BY <1>1 DEF Desvincular, locales, TypeOK
<1>3. \A k \in Archivos, i \in Nat : Tomada(k, i)' =>
        Tomada(k, i) /\ BLOCKS'[k][i] = BLOCKS[k][i]
  BY <1>2 DEF Tomada, Existe
<1>4. UnoPorArchivo' /\ BytesAlDia' /\ SinSolape'
  BY <1>1, <1>2 DEF Orden, UnoPorArchivo, BytesAlDia, SinSolape
<1>5. CopiaFiel'
  BY <1>1, <1>2 DEF Orden, CopiaFiel, Trabajan, Inv, InvBase, Reposo
<1>6. Propios' /\ Marcados' /\ EnRango' /\ EnCamino'
  BY <1>1, <1>2, <1>3 DEF Orden, Propios, Marcados, EnRango, EnCamino
<1> QED BY <1>4, <1>5, <1>6 DEF Orden

\* A death that cuts no free short leaves every file with its blocks marked.
LEMMA CaerOrden ==
  ASSUME Inv, Caer, Sano'
  PROVE  Orden'
<1>1. Sano /\ Orden /\ TypeOK /\ \A h \in Hilos : pc[h] \notin Liberando
  BY DEF Inv, InvBase, Caer, Sano, Confunden
<1>2. /\ \A h \in Hilos : pc'[h] = "libre"
      /\ BLOCKS' = BLOCKS /\ bitarray' = bitarray \ {TamanioBitarray}
  BY DEF Caer
<1>3. \A g \in Archivos, i \in Nat : Tomada(g, i)' => Tomada(g, i)
  BY <1>1, <1>2 DEF Tomada, Existe, Liberando
<1>4. UnoPorArchivo' /\ CopiaFiel' /\ EnCamino' /\ BytesAlDia' /\ SinSolape'
  BY <1>2 DEF UnoPorArchivo, CopiaFiel, EnCamino, BytesAlDia, SinSolape
<1>5. Propios' /\ EnRango'
  BY <1>1, <1>2, <1>3 DEF Orden, Propios, EnRango
<1>6. Marcados'
  <2>1. \A g \in Archivos, i \in Nat : Tomada(g, i) =>
          BLOCKS[g][i] \in bitarray /\ BLOCKS[g][i] < TamanioBitarray
    BY <1>1 DEF Orden, Marcados, EnRango
  <2>2. ~(TamanioBitarray < TamanioBitarray)
    BY Tamanio
  <2>3. \A g \in Archivos, i \in Nat : Tomada(g, i) => BLOCKS[g][i] # TamanioBitarray
    BY <2>1, <2>2
  <2> QED BY <1>2, <1>3, <2>1, <2>3 DEF Marcados
<1> QED BY <1>4, <1>5, <1>6 DEF Orden

LEMMA Inicial == Init => Inv
<1> SUFFICES ASSUME Init PROVE Inv
  OBVIOUS
<1>1. \A f \in Archivos, i \in Nat : ~Tomada(f, i)
  BY DEF Init, Tomada, Existe
<1>2. Orden
  BY <1>1 DEF Init, Orden, UnoPorArchivo, CopiaFiel, Propios, Marcados, EnRango,
              EnCamino, BytesAlDia, SinSolape
<1> QED BY <1>2, BaseInicial DEF Inv

LEMMA Paso_Inv == Inv /\ [Next]_vars => Inv'
<1> SUFFICES ASSUME Inv, [Next]_vars PROVE Inv'
  OBVIOUS
<1>1. InvBase'
  BY NextBase DEF Inv
<1>2. ASSUME Sano' PROVE Orden'
  <2> USE <1>2
  <2>1. CASE Reiniciar
    BY <2>1, CaerOrden DEF Reiniciar
  <2>2. ASSUME NEW h \in Hilos, Paso(h) PROVE Orden'
    <3>1. ASSUME NEW f \in Archivos, CrearArchivoPuntoBin(h, f) PROVE Orden'
      BY <3>1, CrearOrden
    <3>2. ASSUME NEW f \in Archivos, EscribirRegistro(h, f) PROVE Orden'
      BY <3>2, EscribirOrden
    <3>3. ASSUME NEW f \in Archivos, LiberarBloques(h, f) PROVE Orden'
      BY <3>3, LiberarOrden
    <3>4. CASE Buscar(h)
      BY <3>4, BuscarOrden
    <3>5. CASE Marcar(h)
      BY <3>5, MarcarOrden
    <3>6. CASE AsignarBloque(h) \/ AsignarBloqueAConfig(h)
      BY <3>6, AsignarOrden
    <3>7. CASE LeerSinArchivo(h)
      BY <3>7, CaerOrden DEF LeerSinArchivo
    <3>8. CASE Limpiar(h)
      BY <3>8, LimpiarOrden
    <3>9. CASE Guardar(h)
      BY <3>9, GuardarOrden
    <3>10. CASE Borrar(h)
      BY <3>10, BorrarOrden
    <3>11. CASE NoCabe(h) \/ Releer(h) \/ Salvar(h)
      BY <3>11, SeguirOrden
    <3>12. ASSUME NEW f \in Archivos, NEW g \in Archivos, Renombrar(h, f, g) PROVE Orden'
      BY <3>12, RenombrarOrden
    <3>13. ASSUME NEW f \in Archivos, Desvincular(h, f) PROVE Orden'
      BY <3>13, DesvincularOrden
    <3> QED BY <2>2, <3>1, <3>2, <3>3, <3>4, <3>5, <3>6, <3>7, <3>8, <3>9, <3>10, <3>11, <3>12,
               <3>13, Zenon DEF Paso
  <2>3. CASE UNCHANGED vars
    BY <2>3 DEF vars, locales, Inv, Sano, Orden, UnoPorArchivo, CopiaFiel, Propios,
                Marcados, EnRango, EnCamino, BytesAlDia, SinSolape, Tomada, Existe
  <2> QED BY <2>1, <2>2, <2>3 DEF Next
<1> QED BY <1>1, <1>2 DEF Inv

\* The positions of a file nobody is deleting are all its own.
LEMMA InvExclusividad == Inv => Exclusividad
<1> SUFFICES ASSUME Inv, Sano,
                    NEW f \in Vivos, NEW g \in Vivos,
                    NEW i \in DOMAIN BLOCKS[f], NEW k \in DOMAIN BLOCKS[g],
                    BLOCKS[f][i] = BLOCKS[g][k]
             PROVE  f = g /\ i = k
  BY DEF Exclusividad, Sano
<1>1. f \in Archivos /\ g \in Archivos /\ Existe(f) /\ Existe(g)
  BY DEF Vivos
<1>2. i \in Nat /\ k \in Nat
  BY <1>1, TipoDeBLOCKS DEF Inv, InvBase
<1>3. Tomada(f, i) /\ Tomada(g, k)
  BY <1>1 DEF Tomada, Vivos, Trabajan, Liberando
<1> QED BY <1>1, <1>2, <1>3 DEF Inv, Orden, Propios

\* A block belongs to one file, once, until an incident of Confunden: for any
\* number of threads, files, bytes of bitmap and restarts.
THEOREM BloquesExclusivos == Spec => []Exclusividad
<1>1. Spec => []Inv
  BY Inicial, Paso_Inv, PTL DEF Spec
<1> QED BY <1>1, InvExclusividad, PTL
-----------------------------------------------------------------------------
(* No block is lost.  What lets Exclusividad fail is not what loses a      *)
(* block: with the bitmap full, two files get the same one, and each still *)
(* has it.  So the blocks are followed a second time, over the behaviours  *)
(* in which nothing has happened but a full bitmap: a marked block is at a *)
(* position no free has reached, or on its way into a file.                *)

SoloLleno == incidentes \subseteq {"lleno"}

BytesFrescos ==
  \A h \in Hilos :
    /\ pc[h] \in {"marcar", "guardar"} => leido[h] = bitarray \cap ByteDe(bloque[h])
    /\ pc[h] = "guardar" => /\ pos[h] \in DOMAIN copia[h]
                            /\ bloque[h] = copia[h][pos[h]]

\* Block b is in a file that still owns it, or a thread is taking it to one.
ConDueno(b) ==
  \/ \E f \in Archivos : \E i \in Nat : Tomada(f, i) /\ BLOCKS[f][i] = b
  \/ \E h \in Hilos : pc[h] = "asignar" /\ bloque[h] = b

SinHuerfanos == \A b \in bitarray \ Basura : ConDueno(b)

Cuenta ==
  /\ UnoPorArchivo
  /\ CopiaFiel
  /\ BytesFrescos
  /\ SinSolape
  /\ SinHuerfanos

InvCuenta == InvBase /\ (SoloLleno => Cuenta)

\* A step after which the marked blocks are no more than they were, every
\* position taken stays so with its block, and nobody stops carrying one.
LEMMA MismosDuenos ==
  ASSUME SinHuerfanos, bitarray' \subseteq bitarray,
         \A f \in Archivos, i \in Nat : Tomada(f, i) =>
           Tomada(f, i)' /\ BLOCKS'[f][i] = BLOCKS[f][i],
         \A h \in Hilos : pc[h] = "asignar" => pc'[h] = "asignar" /\ bloque'[h] = bloque[h]
  PROVE  SinHuerfanos'
<1> SUFFICES ASSUME NEW b \in bitarray' \ Basura PROVE ConDueno(b)'
  BY DEF SinHuerfanos
<1>1. ConDueno(b)
  BY DEF SinHuerfanos
<1> QED BY <1>1 DEF ConDueno

LEMMA SoloDeUno ==
  ASSUME InvCuenta, SoloLleno, NEW h \in Hilos, pc[h] # "libre"
  PROVE  /\ archivo[h] \in Archivos
         /\ copia[h] = BLOCKS[archivo[h]] /\ Existe(archivo[h])
         /\ \A g \in Hilos \ {h} : pc[g] # "libre" => archivo[g] # archivo[h]
  BY MarcasValidas
     DEF InvCuenta, InvBase, Reposo, Cuenta, CopiaFiel, UnoPorArchivo, TypeOK, Existe

\* Outside of the incidents a new file takes the place of none.
LEMMA CrearCuenta ==
  ASSUME InvCuenta, NEW h \in Hilos, NEW f \in Archivos, CrearArchivoPuntoBin(h, f),
         SoloLleno'
  PROVE  Cuenta'
<1>1. SoloLleno /\ Trabajan(f) = {} /\ ~Existe(f)
  BY DEF CrearArchivoPuntoBin, SeCruzan, SoloLleno
<1> USE <1>1 DEF InvCuenta, InvBase, TypeOK, Reposo, CrearArchivoPuntoBin, Ir, Liberando
<1>2. BLOCKS'[f] = <<>> /\ \A g \in Archivos \ {f} : BLOCKS'[g] = BLOCKS[g]
  OBVIOUS
<1>3. \A g \in Archivos, i \in Nat : Tomada(g, i) => Tomada(g, i)' /\ BLOCKS'[g][i] = BLOCKS[g][i]
  BY <1>2 DEF Tomada, Existe
<1>4. UnoPorArchivo' /\ CopiaFiel'
  BY DEF UnoPorArchivo, CopiaFiel, Trabajan, Cuenta
<1>5. BytesFrescos' /\ SinSolape'
  BY DEF BytesFrescos, SinSolape, Cuenta
<1>6. SinHuerfanos'
  <2>1. SinHuerfanos /\ bitarray' \subseteq bitarray
    BY DEF Cuenta
  <2>2. \A g \in Hilos : pc[g] = "asignar" => pc'[g] = "asignar" /\ bloque'[g] = bloque[g]
    OBVIOUS
  <2> QED BY <1>3, <2>1, <2>2, MismosDuenos
<1> QED BY <1>4, <1>5, <1>6 DEF Cuenta

LEMMA EscribirCuenta ==
  ASSUME InvCuenta, NEW h \in Hilos, NEW f \in Archivos, EscribirRegistro(h, f), SoloLleno'
  PROVE  Cuenta'
<1>1. SoloLleno /\ Trabajan(f) = {}
  BY DEF EscribirRegistro, SeCruzan, SoloLleno
<1> USE <1>1 DEF InvCuenta, InvBase, TypeOK, Reposo, EscribirRegistro, Ir, Liberando
<1>3. \A g \in Archivos, i \in Nat : Tomada(g, i) => Tomada(g, i)' /\ BLOCKS'[g][i] = BLOCKS[g][i]
  BY DEF Tomada, Existe, Trabajan
<1>4. UnoPorArchivo' /\ CopiaFiel'
  BY DEF UnoPorArchivo, CopiaFiel, Trabajan, Cuenta
<1>5. BytesFrescos' /\ SinSolape'
  BY DEF BytesFrescos, SinSolape, Cuenta
<1>6. SinHuerfanos'
  <2>1. SinHuerfanos /\ bitarray' \subseteq bitarray
    BY DEF Cuenta
  <2>2. \A g \in Hilos : pc[g] = "asignar" => pc'[g] = "asignar" /\ bloque'[g] = bloque[g]
    OBVIOUS
  <2> QED BY <1>3, <2>1, <2>2, MismosDuenos
<1> QED BY <1>4, <1>5, <1>6 DEF Cuenta

\* A free starts at the first position: it has reached none yet.
LEMMA LiberarCuenta ==
  ASSUME InvCuenta, NEW h \in Hilos, NEW f \in Archivos, LiberarBloques(h, f), SoloLleno'
  PROVE  Cuenta'
<1>1. SoloLleno /\ Trabajan(f) = {}
  BY DEF LiberarBloques, SeCruzan, SoloLleno
<1>2. BLOCKS[f] \in Seq(Bloques) /\ DOMAIN BLOCKS[f] = 1..Len(BLOCKS[f])
  BY TipoDeBLOCKS DEF InvCuenta, InvBase, LiberarBloques
<1> USE <1>1 DEF InvCuenta, InvBase, TypeOK, Reposo, LiberarBloques, Ir, Liberando
<1>3. \A g \in Archivos, i \in Nat : Tomada(g, i) => Tomada(g, i)' /\ BLOCKS'[g][i] = BLOCKS[g][i]
  <2> SUFFICES ASSUME NEW g \in Archivos, NEW i \in Nat, Tomada(g, i)
               PROVE  Tomada(g, i)'
    OBVIOUS
  <2>1. BLOCKS' = BLOCKS /\ pos' = pos /\ pos[h] = 1
    OBVIOUS
  <2>2. \A k \in Hilos \ {h} : pc'[k] = pc[k] /\ archivo'[k] = archivo[k]
    OBVIOUS
  <2>3. archivo'[h] = f /\ (g = f => 1 <= i)
    BY <1>2 DEF Tomada
  <2>4. \A k \in Hilos : pc'[k] \in Liberando /\ archivo'[k] = g => pos[k] <= i
    BY <2>1, <2>2, <2>3 DEF Tomada
  <2> QED BY <2>1, <2>4 DEF Tomada, Existe
<1>4. UnoPorArchivo' /\ CopiaFiel'
  BY DEF UnoPorArchivo, CopiaFiel, Trabajan, Cuenta
<1>5. BytesFrescos' /\ SinSolape'
  BY DEF BytesFrescos, SinSolape, Cuenta
<1>6. SinHuerfanos'
  <2>1. SinHuerfanos /\ bitarray' \subseteq bitarray
    BY DEF Cuenta
  <2>2. \A g \in Hilos : pc[g] = "asignar" => pc'[g] = "asignar" /\ bloque'[g] = bloque[g]
    OBVIOUS
  <2> QED BY <1>3, <2>1, <2>2, MismosDuenos
<1> QED BY <1>4, <1>5, <1>6 DEF Cuenta

\* The scan only reads, and reads no byte a free is about to write back.
LEMMA BuscarCuenta ==
  ASSUME InvCuenta, NEW h \in Hilos, Buscar(h), SoloLleno'
  PROVE  Cuenta'
<1> DEFINE b == PrimerBloqueLibre
           byte == bitarray \cap ByteDe(b)
<1>1. /\ pc[h] = "buscar" /\ pc' = [pc EXCEPT ![h] = "marcar"]
      /\ bloque' = [bloque EXCEPT ![h] = b]
      /\ leido' = [leido EXCEPT ![h] = byte]
      /\ UNCHANGED <<bitarray, BLOCKS, archivo, copia, pos>>
  BY DEF Buscar, Ir
<1>2. SoloLleno /\ ~SeSolapan(h, b, FALSE)
  BY DEF Buscar, SoloLleno
<1>3. b \in Bloques
  BY ElPrimero
<1>4. Cuenta /\ TypeOK
  BY <1>2 DEF InvCuenta, InvBase
<1>5. \A g \in Hilos \ {h} : pc[g] = "guardar" =>
        b \notin ByteDe(bloque[g]) /\ bloque[g] \notin ByteDe(b)
  <2>1. \A g \in Hilos \ {h} : pc[g] = "guardar" => bloque[g] \notin ByteDe(b)
    BY <1>2 DEF SeSolapan
  <2>2. \A g \in Hilos : bloque[g] \in Bloques
    BY <1>4 DEF TypeOK
  <2> QED BY <2>1, <2>2, <1>3, LosBytes
<1> HIDE DEF b
<1> USE DEF TypeOK, Liberando
<1>6. \A g \in Archivos, i \in Nat : Tomada(g, i) => Tomada(g, i)' /\ BLOCKS'[g][i] = BLOCKS[g][i]
  BY <1>1, <1>4 DEF Tomada, Existe
<1>7. UnoPorArchivo' /\ CopiaFiel'
  BY <1>1, <1>4 DEF Cuenta, UnoPorArchivo, CopiaFiel
<1>8. BytesFrescos'
  BY <1>1, <1>3, <1>4 DEF Cuenta, BytesFrescos
<1>9. SinSolape'
  BY <1>1, <1>4, <1>5 DEF Cuenta, SinSolape
<1>10. SinHuerfanos'
  <2>1. SinHuerfanos /\ bitarray' \subseteq bitarray
    BY <1>1, <1>4 DEF Cuenta
  <2>2. \A g \in Hilos : pc[g] = "asignar" => pc'[g] = "asignar" /\ bloque'[g] = bloque[g]
    BY <1>1, <1>4
  <2> QED BY <1>6, <2>1, <2>2, MismosDuenos
<1> QED BY <1>7, <1>8, <1>9, <1>10 DEF Cuenta

\* The one bit more is the bit of the block the thread now carries.
LEMMA MarcarCuenta ==
  ASSUME InvCuenta, NEW h \in Hilos, Marcar(h), SoloLleno'
  PROVE  Cuenta'
<1>1. /\ pc[h] = "marcar" /\ pc' = [pc EXCEPT ![h] = "asignar"]
      /\ bitarray' = Escribir(bloque[h], leido[h] \cup {bloque[h]})
      /\ leido' = [leido EXCEPT ![h] = {}]
      /\ UNCHANGED <<BLOCKS, archivo, copia, pos, bloque>>
  BY DEF Marcar, Ir
<1>2. SoloLleno /\ Cuenta /\ TypeOK
  BY DEF InvCuenta, InvBase, Marcar, SoloLleno
<1>3. bitarray' = bitarray \cup {bloque[h]}
  <2>1. leido[h] = bitarray \cap ByteDe(bloque[h])
    BY <1>1, <1>2 DEF Cuenta, BytesFrescos
  <2>2. bloque[h] \in ByteDe(bloque[h])
    BY <1>2, LosBytes DEF TypeOK
  <2> QED BY <1>1, <2>1, <2>2 DEF Escribir
<1>4. \A g \in Hilos \ {h} : pc[g] # "marcar"
  BY <1>1 DEF InvCuenta, InvBase, Candado
<1>5. \A g \in Hilos \ {h} : pc[g] = "guardar" => bloque[h] \notin ByteDe(bloque[g])
  BY <1>1, <1>2 DEF Cuenta, SinSolape
<1> USE DEF TypeOK, Liberando
<1>6. \A g \in Archivos, i \in Nat : Tomada(g, i) => Tomada(g, i)'
  BY <1>1, <1>2 DEF Tomada, Existe
<1>7. UnoPorArchivo' /\ CopiaFiel'
  BY <1>1, <1>2 DEF Cuenta, UnoPorArchivo, CopiaFiel
<1>8. BytesFrescos'
  <2> SUFFICES ASSUME NEW g \in Hilos, g # h
               PROVE  /\ pc'[g] \in {"marcar", "guardar"} =>
                           leido'[g] = bitarray' \cap ByteDe(bloque'[g])
                      /\ pc'[g] = "guardar" => /\ pos'[g] \in DOMAIN copia'[g]
                                               /\ bloque'[g] = copia'[g][pos'[g]]
    <3>1. pc'[h] = "asignar"
      BY <1>1, <1>2
    <3> QED BY <3>1, Zenon DEF BytesFrescos
  <2>1. /\ pc'[g] = pc[g] /\ leido'[g] = leido[g] /\ bloque'[g] = bloque[g]
        /\ pos'[g] = pos[g] /\ copia'[g] = copia[g]
    BY <1>1, <1>2
  <2>2. pc[g] \in {"marcar", "guardar"} =>
          pc[g] = "guardar" /\ bitarray' \cap ByteDe(bloque[g]) = bitarray \cap ByteDe(bloque[g])
    BY <1>3, <1>4, <1>5
  <2>3. /\ pc[g] \in {"marcar", "guardar"} => leido[g] = bitarray \cap ByteDe(bloque[g])
        /\ pc[g] = "guardar" => pos[g] \in DOMAIN copia[g] /\ bloque[g] = copia[g][pos[g]]
    BY <1>2 DEF Cuenta, BytesFrescos
  <2> QED BY <2>1, <2>2, <2>3
<1>9. SinSolape'
  BY <1>1, <1>2 DEF Cuenta, SinSolape
<1>10. SinHuerfanos'
  <2> SUFFICES ASSUME NEW b \in bitarray' \ Basura PROVE ConDueno(b)'
    BY DEF SinHuerfanos
  <2>1. CASE b = bloque[h]
    <3>1. pc'[h] = "asignar" /\ bloque'[h] = b
      BY <1>1, <1>2, <2>1
    <3> QED BY <3>1 DEF ConDueno
  <2>2. CASE b # bloque[h]
    <3>1. ConDueno(b)
      BY <1>2, <1>3, <2>2 DEF Cuenta, SinHuerfanos
    <3>2. \A g \in Hilos : pc[g] = "asignar" => pc'[g] = "asignar"
      BY <1>1, <1>2
    <3>3. BLOCKS' = BLOCKS /\ bloque' = bloque
      BY <1>1
    <3> QED BY <1>6, <3>1, <3>2, <3>3 DEF ConDueno
  <2> QED BY <2>1, <2>2
<1> QED BY <1>7, <1>8, <1>9, <1>10 DEF Cuenta

\* The block a thread carried is the last of a file.
LEMMA AsignarCuenta ==
  ASSUME InvCuenta, NEW h \in Hilos, AsignarBloque(h) \/ AsignarBloqueAConfig(h), SoloLleno'
  PROVE  Cuenta'
<1>1. SoloLleno /\ Cuenta /\ TypeOK /\ pc[h] = "asignar"
  BY DEF InvCuenta, InvBase, AsignarBloque, AsignarBloqueAConfig, SoloLleno
<1>2. PICK f \in Archivos :
        /\ f = archivo[h] /\ copia[h] = BLOCKS[f] /\ Existe(f)
        /\ \A g \in Hilos \ {h} : pc[g] # "libre" => archivo[g] # f
  BY <1>1, SoloDeUno
<1>3. /\ pc'[h] \in {"libre", "releer"}
      /\ pc'[h] = "releer" => archivo'[h] = f /\ copia'[h] = Append(BLOCKS[f], bloque[h])
      /\ \A k \in Hilos \ {h} : /\ pc'[k] = pc[k] /\ archivo'[k] = archivo[k]
                                /\ copia'[k] = copia[k] /\ pos'[k] = pos[k]
                                /\ bloque'[k] = bloque[k]
      /\ BLOCKS' = [BLOCKS EXCEPT ![f] = Append(BLOCKS[f], bloque[h])]
      /\ UNCHANGED <<bitarray, leido>>
  <2>1. CASE AsignarBloque(h)
    BY <1>1, <1>2, <2>1 DEF AsignarBloque, Terminar, Ir, TypeOK
  <2>2. CASE AsignarBloqueAConfig(h)
    BY <1>1, <1>2, <2>2 DEF AsignarBloqueAConfig, Ir, TypeOK
  <2> QED BY <2>1, <2>2
<1>4. BLOCKS[f] \in Seq(Bloques) /\ bloque[h] \in Bloques
  BY <1>1, <1>2, TipoDeBLOCKS DEF TypeOK
<1>20. PICK n \in Nat : n = Len(BLOCKS[f])
  BY <1>4
<1>5. /\ n \in Nat /\ DOMAIN BLOCKS[f] = 1..n
      /\ DOMAIN BLOCKS'[f] = 1..(n + 1)
      /\ BLOCKS'[f][n + 1] = bloque[h]
      /\ \A i \in 1..n : BLOCKS'[f][i] = BLOCKS[f][i]
      /\ BLOCKS'[f] \in Seq(Bloques)
  <2>1. BLOCKS'[f] = Append(BLOCKS[f], bloque[h])
    BY <1>1, <1>2, <1>3 DEF TypeOK
  <2> QED BY <2>1, <1>4, <1>20
<1>6. \A g \in Archivos \ {f} : BLOCKS'[g] = BLOCKS[g]
  BY <1>1, <1>3 DEF TypeOK
<1> USE DEF Liberando
<1>7. /\ pc'[h] \in {"libre", "releer"}
      /\ \A k \in Hilos \ {h} : /\ pc'[k] = pc[k] /\ archivo'[k] = archivo[k]
                                /\ copia'[k] = copia[k] /\ pos'[k] = pos[k]
                                /\ bloque'[k] = bloque[k]
  BY <1>3
<1>8. Existe(f)'
  BY <1>5, MarcasValidas DEF Existe
<1>9. \A g \in Archivos, i \in Nat : Tomada(g, i) => Tomada(g, i)' /\ BLOCKS'[g][i] = BLOCKS[g][i]
  <2> SUFFICES ASSUME NEW g \in Archivos, NEW i \in Nat, Tomada(g, i)
               PROVE  Tomada(g, i)' /\ BLOCKS'[g][i] = BLOCKS[g][i]
    OBVIOUS
  <2>1. \A k \in Hilos : pc'[k] \in Liberando /\ archivo'[k] = g => pos'[k] <= i
    BY <1>7 DEF Tomada
  <2>2. Existe(g)' /\ i \in DOMAIN BLOCKS'[g] /\ BLOCKS'[g][i] = BLOCKS[g][i]
    BY <1>5, <1>6, <1>8 DEF Tomada, Existe
  <2> QED BY <2>1, <2>2 DEF Tomada
<1>10. Tomada(f, n + 1)'
  <2>1. \A k \in Hilos : pc'[k] \in Liberando => archivo'[k] # f
    BY <1>2, <1>7
  <2> QED BY <1>5, <1>8, <2>1 DEF Tomada
<1>13. UnoPorArchivo'
  BY <1>1, <1>2, <1>3 DEF Cuenta, UnoPorArchivo
<1>14. CopiaFiel'
  <2> SUFFICES ASSUME NEW g \in Hilos, pc'[g] # "libre"
               PROVE  copia'[g] = BLOCKS'[archivo'[g]]
    BY DEF CopiaFiel
  <2>0. CASE g = h
    BY <1>1, <1>3, <2>0 DEF TypeOK
  <2> SUFFICES ASSUME g # h PROVE copia'[g] = BLOCKS'[archivo'[g]]
    BY <2>0
  <2>1. g # h /\ pc[g] # "libre" /\ copia'[g] = copia[g] /\ archivo'[g] = archivo[g]
    BY <1>7
  <2>2. archivo[g] # f /\ archivo[g] \in Archivos /\ copia[g] = BLOCKS[archivo[g]]
    BY <1>1, <1>2, <2>1 DEF Cuenta, CopiaFiel, InvCuenta, InvBase, Reposo
  <2> QED BY <1>6, <2>1, <2>2
<1>15. BytesFrescos' /\ SinSolape'
  BY <1>1, <1>3, <1>7 DEF Cuenta, BytesFrescos, SinSolape
<1>16. SinHuerfanos'
  <2> SUFFICES ASSUME NEW b \in bitarray' \ Basura PROVE ConDueno(b)'
    BY DEF SinHuerfanos
  <2>1. CASE b = bloque[h]
    BY <1>5, <1>10, <2>1 DEF ConDueno
  <2>2. CASE b # bloque[h]
    <3>1. ConDueno(b)
      BY <1>1, <1>3 DEF Cuenta, SinHuerfanos
    <3>2. \A g \in Hilos : pc[g] = "asignar" /\ bloque[g] = b =>
            pc'[g] = "asignar" /\ bloque'[g] = b
      BY <1>7, <2>2
    <3> QED BY <1>9, <3>1, <3>2 DEF ConDueno
  <2> QED BY <2>1, <2>2
<1> QED BY <1>13, <1>14, <1>15, <1>16 DEF Cuenta

LEMMA LimpiarCuenta ==
  ASSUME InvCuenta, NEW h \in Hilos, Limpiar(h), SoloLleno'
  PROVE  Cuenta'
<1> DEFINE b == copia[h][pos[h]]
           byte == bitarray \cap ByteDe(b)
<1>1. /\ pc[h] = "limpiar" /\ pc' = [pc EXCEPT ![h] = "guardar"]
      /\ bloque' = [bloque EXCEPT ![h] = b]
      /\ leido' = [leido EXCEPT ![h] = byte]
      /\ pos[h] <= Len(copia[h])
      /\ UNCHANGED <<bitarray, BLOCKS, archivo, copia, pos>>
  BY DEF Limpiar, Ir, Quedan
<1>2. SoloLleno /\ ~SeSolapan(h, b, TRUE)
  BY DEF Limpiar, Anotar, SoloLleno
<1>3. Cuenta /\ TypeOK
  BY <1>2 DEF InvCuenta, InvBase
<1>4. pos[h] \in DOMAIN copia[h] /\ b \in Bloques
  BY <1>1, <1>3, Secuencias DEF TypeOK
<1>5. \A g \in Hilos \ {h} : pc[g] \in {"marcar", "guardar"} =>
        b \notin ByteDe(bloque[g]) /\ bloque[g] \notin ByteDe(b)
  <2>1. \A g \in Hilos \ {h} : pc[g] \in {"marcar", "guardar"} => bloque[g] \notin ByteDe(b)
    BY <1>2 DEF SeSolapan
  <2>2. \A g \in Hilos : bloque[g] \in Bloques
    BY <1>3 DEF TypeOK
  <2> QED BY <2>1, <2>2, <1>4, LosBytes
<1> USE DEF TypeOK, Liberando
<1>6. \A g \in Archivos, i \in Nat : Tomada(g, i) => Tomada(g, i)' /\ BLOCKS'[g][i] = BLOCKS[g][i]
  BY <1>1, <1>3 DEF Tomada, Existe
<1>7. UnoPorArchivo' /\ CopiaFiel'
  BY <1>1, <1>3 DEF Cuenta, UnoPorArchivo, CopiaFiel
<1>8. BytesFrescos'
  <2>1. /\ leido'[h] = bitarray \cap ByteDe(b) /\ bloque'[h] = b /\ pc'[h] = "guardar"
        /\ \A g \in Hilos \ {h} : /\ leido'[g] = leido[g] /\ bloque'[g] = bloque[g]
                                  /\ pc'[g] = pc[g]
    BY <1>1, <1>3
  <2> HIDE DEF b
  <2>2. bitarray' = bitarray /\ copia' = copia /\ pos' = pos /\ b = copia[h][pos[h]]
    BY <1>1 DEF b
  <2>3. \A g \in Hilos \ {h} :
          /\ pc[g] \in {"marcar", "guardar"} => leido[g] = bitarray \cap ByteDe(bloque[g])
          /\ pc[g] = "guardar" => pos[g] \in DOMAIN copia[g] /\ bloque[g] = copia[g][pos[g]]
    BY <1>3 DEF Cuenta, BytesFrescos
  <2>4. \A g \in Hilos \ {h} :
          /\ pc'[g] \in {"marcar", "guardar"} => leido'[g] = bitarray' \cap ByteDe(bloque'[g])
          /\ pc'[g] = "guardar" => pos'[g] \in DOMAIN copia'[g] /\ bloque'[g] = copia'[g][pos'[g]]
    BY <2>1, <2>2, <2>3
  <2>5. /\ leido'[h] = bitarray' \cap ByteDe(bloque'[h])
        /\ pos'[h] \in DOMAIN copia'[h] /\ bloque'[h] = copia'[h][pos'[h]]
    BY <1>4, <2>1, <2>2
  <2> QED BY <2>4, <2>5 DEF BytesFrescos
<1>9. SinSolape'
  BY <1>1, <1>3, <1>5 DEF Cuenta, SinSolape
<1>10. SinHuerfanos'
  <2>1. SinHuerfanos /\ bitarray' \subseteq bitarray
    BY <1>1, <1>3 DEF Cuenta
  <2>2. \A g \in Hilos : pc[g] = "asignar" => pc'[g] = "asignar" /\ bloque'[g] = bloque[g]
    BY <1>1, <1>3
  <2> QED BY <1>6, <2>1, <2>2, MismosDuenos
<1> QED BY <1>7, <1>8, <1>9, <1>10 DEF Cuenta

\* The position that stops being the file's own is that of the bit cleared.
LEMMA GuardarCuenta ==
  ASSUME InvCuenta, NEW h \in Hilos, Guardar(h), SoloLleno'
  PROVE  Cuenta'
<1>1. /\ pc[h] = "guardar" /\ pc' = [pc EXCEPT ![h] = "limpiar"]
      /\ bitarray' = Escribir(bloque[h], leido[h] \ {bloque[h]})
      /\ leido' = [leido EXCEPT ![h] = {}]
      /\ pos' = [pos EXCEPT ![h] = pos[h] + 1]
      /\ UNCHANGED <<BLOCKS, archivo, copia, bloque>>
  BY DEF Guardar, Ir
<1>2. SoloLleno /\ Cuenta /\ TypeOK
  BY DEF InvCuenta, InvBase, Guardar, SoloLleno
<1>3. PICK f \in Archivos : f = archivo[h] /\ copia[h] = BLOCKS[f] /\ Existe(f)
        /\ \A g \in Hilos \ {h} : pc[g] # "libre" => archivo[g] # f
  BY <1>1, <1>2, SoloDeUno
<1>4. PICK p \in Nat : p = pos[h]
  BY <1>2 DEF TypeOK
<1>5. BLOCKS[f][p] = bloque[h]
  BY <1>1, <1>2, <1>3, <1>4 DEF Cuenta, BytesFrescos
<1>6. bitarray' = bitarray \ {bloque[h]}
  <2>1. leido[h] = bitarray \cap ByteDe(bloque[h])
    BY <1>1, <1>2 DEF Cuenta, BytesFrescos
  <2>2. bloque[h] \in ByteDe(bloque[h])
    BY <1>2, LosBytes DEF TypeOK
  <2> QED BY <1>1, <2>1, <2>2 DEF Escribir
<1> USE DEF Liberando
<1>8. /\ pc'[h] = "limpiar" /\ pos'[h] = p + 1
      /\ \A g \in Hilos \ {h} : pc'[g] = pc[g] /\ pos'[g] = pos[g] /\ leido'[g] = leido[g]
  BY <1>1, <1>2, <1>4 DEF TypeOK
<1>11. BLOCKS' = BLOCKS /\ bloque' = bloque /\ copia' = copia /\ archivo' = archivo
  BY <1>1
<1>9. \A g \in Archivos, i \in Nat : Tomada(g, i) /\ ~(g = f /\ i = p) => Tomada(g, i)'
  <2> SUFFICES ASSUME NEW g \in Archivos, NEW i \in Nat, Tomada(g, i), ~(g = f /\ i = p)
               PROVE  Tomada(g, i)'
    OBVIOUS
  <2>1. \A k \in Hilos \ {h} : pc'[k] \in Liberando /\ archivo'[k] = g => pos'[k] <= i
    BY <1>8, <1>11 DEF Tomada
  <2>2. g = f => p <= i
    BY <1>1, <1>3, <1>4 DEF Tomada
  <2>3. g = f => p + 1 <= i
    BY <2>2
  <2>4. archivo'[h] = g => pos'[h] <= i
    BY <1>3, <1>8, <1>11, <2>3
  <2> QED BY <1>11, <2>1, <2>4 DEF Tomada, Existe
<1>13. UnoPorArchivo' /\ CopiaFiel'
  <2>1. \A g \in Hilos : pc'[g] # "libre" => pc[g] # "libre"
    BY <1>1, <1>8
  <2> QED BY <1>2, <1>11, <2>1 DEF Cuenta, UnoPorArchivo, CopiaFiel
<1>18. BytesFrescos'
  <2>1. \A g \in Hilos \ {h} : pc[g] \in {"marcar", "guardar"} =>
          bitarray' \cap ByteDe(bloque[g]) = bitarray \cap ByteDe(bloque[g])
    BY <1>1, <1>2, <1>6 DEF Cuenta, SinSolape
  <2>2. \A g \in Hilos \ {h} :
          /\ pc[g] \in {"marcar", "guardar"} => leido[g] = bitarray \cap ByteDe(bloque[g])
          /\ pc[g] = "guardar" => pos[g] \in DOMAIN copia[g] /\ bloque[g] = copia[g][pos[g]]
    BY <1>2 DEF Cuenta, BytesFrescos
  <2>4. \A g \in Hilos : pc'[g] \in {"marcar", "guardar"} => g # h
    BY <1>8
  <2> QED BY <1>8, <1>11, <2>1, <2>2, <2>4 DEF BytesFrescos
<1>19. SinSolape'
  BY <1>2, <1>8, <1>11 DEF Cuenta, SinSolape
<1>20. SinHuerfanos'
  <2> SUFFICES ASSUME NEW b \in bitarray' \ Basura PROVE ConDueno(b)'
    BY DEF SinHuerfanos
  <2>1. b \in bitarray \ Basura /\ b # bloque[h]
    BY <1>6
  <2>2. ConDueno(b)
    BY <1>2, <2>1 DEF Cuenta, SinHuerfanos
  <2>3. \A g \in Hilos : pc[g] = "asignar" => pc'[g] = "asignar"
    BY <1>1, <1>8
  <2>4. \A g \in Archivos, i \in Nat : Tomada(g, i) /\ BLOCKS[g][i] = b => Tomada(g, i)'
    BY <1>5, <1>9, <2>1
  <2> QED BY <1>11, <2>2, <2>3, <2>4 DEF ConDueno
<1> QED BY <1>13, <1>18, <1>19, <1>20 DEF Cuenta

\* The free of a file that goes had passed all of its positions.
LEMMA BorrarCuenta ==
  ASSUME InvCuenta, NEW h \in Hilos, Borrar(h), SoloLleno'
  PROVE  Cuenta'
<1>1. SoloLleno /\ Cuenta /\ TypeOK /\ pc[h] = "limpiar" /\ ~(pos[h] <= Len(copia[h]))
  BY DEF InvCuenta, InvBase, Borrar, SoloLleno, Quedan
<1>2. PICK f \in Archivos : f = archivo[h] /\ copia[h] = BLOCKS[f] /\ Existe(f)
        /\ \A g \in Hilos \ {h} : pc[g] # "libre" => archivo[g] # f
  BY <1>1, SoloDeUno
<1>3. /\ pc' = [pc EXCEPT ![h] = "libre"]
      /\ archivo' = [archivo EXCEPT ![h] = NoExiste]
      /\ copia' = [copia EXCEPT ![h] = <<>>]
      /\ pos' = [pos EXCEPT ![h] = 1]
      /\ bloque' = [bloque EXCEPT ![h] = 0]
      /\ BLOCKS' = [BLOCKS EXCEPT ![f] = NoExiste]
      /\ UNCHANGED <<bitarray, leido>>
  BY <1>2 DEF Borrar, Terminar, Ir
<1> USE DEF Liberando
<1>4. /\ pc'[h] = "libre"
      /\ \A g \in Hilos \ {h} : /\ pc'[g] = pc[g] /\ archivo'[g] = archivo[g]
                                /\ copia'[g] = copia[g] /\ pos'[g] = pos[g]
                                /\ bloque'[g] = bloque[g]
      /\ BLOCKS'[f] = NoExiste
      /\ \A g \in Archivos \ {f} : BLOCKS'[g] = BLOCKS[g]
      /\ bitarray' = bitarray /\ leido' = leido
  BY <1>1, <1>3 DEF TypeOK
<1>5. \A i \in Nat : ~Tomada(f, i)
  <2>1. BLOCKS[f] \in Seq(Bloques) /\ Len(BLOCKS[f]) \in Nat
    BY <1>1, <1>2, TipoDeBLOCKS
  <2>2. \A i \in DOMAIN BLOCKS[f] : i <= Len(BLOCKS[f]) /\ i \in Nat
    BY <2>1
  <2>3. pos[h] \in Nat /\ Len(BLOCKS[f]) < pos[h]
    BY <1>1, <1>2, <2>1 DEF TypeOK
  <2>4. \A i \in DOMAIN BLOCKS[f] : ~(pos[h] <= i)
    BY <2>1, <2>2, <2>3
  <2> QED BY <1>1, <1>2, <2>4 DEF Tomada
<1>6. \A g \in Archivos, i \in Nat : Tomada(g, i) => Tomada(g, i)' /\ BLOCKS'[g][i] = BLOCKS[g][i]
  <2> SUFFICES ASSUME NEW g \in Archivos, NEW i \in Nat, Tomada(g, i)
               PROVE  Tomada(g, i)' /\ BLOCKS'[g][i] = BLOCKS[g][i]
    OBVIOUS
  <2>1. g # f
    BY <1>5
  <2>2. BLOCKS'[g] = BLOCKS[g]
    BY <1>4, <2>1
  <2> QED BY <1>4, <2>2 DEF Tomada, Existe
<1>7. UnoPorArchivo'
  BY <1>1, <1>4 DEF Cuenta, UnoPorArchivo
<1>8. CopiaFiel'
  <2> SUFFICES ASSUME NEW g \in Hilos, pc'[g] # "libre"
               PROVE  copia'[g] = BLOCKS'[archivo'[g]]
    BY DEF CopiaFiel
  <2>1. g # h /\ pc[g] # "libre"
    BY <1>4
  <2>2. archivo[g] # f /\ archivo[g] \in Archivos /\ copia[g] = BLOCKS[archivo[g]]
    BY <1>1, <1>2, <2>1 DEF Cuenta, CopiaFiel, InvCuenta, InvBase, Reposo
  <2> QED BY <1>4, <2>1, <2>2
<1>9. BytesFrescos' /\ SinSolape'
  BY <1>1, <1>4 DEF Cuenta, BytesFrescos, SinSolape
<1>10. SinHuerfanos'
  <2>1. SinHuerfanos /\ bitarray' \subseteq bitarray
    BY <1>1, <1>4 DEF Cuenta
  <2>2. \A g \in Hilos : pc[g] = "asignar" => pc'[g] = "asignar" /\ bloque'[g] = bloque[g]
    BY <1>1, <1>4
  <2> QED BY <1>6, <2>1, <2>2, MismosDuenos
<1> QED BY <1>7, <1>8, <1>9, <1>10 DEF Cuenta

\* A writer that goes on, saves again what it read, or is done.
LEMMA SeguirCuenta ==
  ASSUME InvCuenta, NEW h \in Hilos, NoCabe(h) \/ Releer(h) \/ Salvar(h), SoloLleno'
  PROVE  Cuenta'
<1>1. SoloLleno /\ Cuenta /\ TypeOK /\ pc[h] \in {"escribir", "releer"}
  BY DEF InvCuenta, InvBase, NoCabe, Releer, Salvar, SoloLleno
<1>2. copia[h] = BLOCKS[archivo[h]] /\ archivo[h] \in Archivos
  BY <1>1, SoloDeUno
<1>3. /\ pc'[h] \in {"buscar", "escribir", "libre"}
      /\ pc'[h] # "libre" => archivo'[h] = archivo[h] /\ copia'[h] = copia[h]
      /\ \A k \in Hilos \ {h} : /\ pc'[k] = pc[k] /\ archivo'[k] = archivo[k]
                                /\ copia'[k] = copia[k] /\ pos'[k] = pos[k]
                                /\ bloque'[k] = bloque[k]
      /\ UNCHANGED <<BLOCKS, bitarray, leido>>
  <2>1. CASE NoCabe(h)
    BY <1>1, <2>1 DEF NoCabe, Ir, TypeOK
  <2>2. CASE Releer(h)
    BY <1>1, <1>2, <2>2 DEF Releer, Ir, TypeOK
  <2>3. CASE Salvar(h)
    BY <1>1, <1>2, <2>3 DEF Salvar, Terminar, Ir, TypeOK
  <2> QED BY <2>1, <2>2, <2>3
<1> USE DEF Liberando
<1>4. \A g \in Archivos, i \in Nat : Tomada(g, i) => Tomada(g, i)' /\ BLOCKS'[g][i] = BLOCKS[g][i]
  BY <1>1, <1>3 DEF Tomada, Existe
<1>5. UnoPorArchivo' /\ CopiaFiel'
  BY <1>1, <1>2, <1>3 DEF Cuenta, UnoPorArchivo, CopiaFiel
<1>6. BytesFrescos' /\ SinSolape'
  BY <1>1, <1>3 DEF Cuenta, BytesFrescos, SinSolape
<1>7. SinHuerfanos'
  <2>1. SinHuerfanos /\ bitarray' \subseteq bitarray
    BY <1>1, <1>3 DEF Cuenta
  <2>2. \A g \in Hilos : pc[g] = "asignar" => pc'[g] = "asignar" /\ bloque'[g] = bloque[g]
    BY <1>1, <1>3
  <2> QED BY <1>4, <2>1, <2>2, MismosDuenos
<1> QED BY <1>5, <1>6, <1>7 DEF Cuenta

\* A file that replaces none keeps its blocks under its new name.
LEMMA RenombrarCuenta ==
  ASSUME InvCuenta, NEW h \in Hilos, NEW f \in Archivos, NEW g \in Archivos,
         Renombrar(h, f, g), SoloLleno'
  PROVE  Cuenta'
<1>1. /\ SoloLleno /\ Cuenta /\ TypeOK /\ f # g /\ Existe(f) /\ ~Existe(g)
      /\ Trabajan(f) = {} /\ Trabajan(g) = {}
  BY DEF InvCuenta, InvBase, Renombrar, SeCruzan, SoloLleno
<1>2. /\ BLOCKS'[g] = BLOCKS[f]
      /\ \A k \in Archivos \ {f, g} : BLOCKS'[k] = BLOCKS[k]
      /\ UNCHANGED <<bitarray, pc, archivo, copia, pos, bloque, leido>>
  BY <1>1 DEF Renombrar, locales, TypeOK
<1> USE DEF Liberando
<1>3. \A k \in Hilos : pc[k] # "libre" => archivo[k] # f /\ archivo[k] # g
  BY <1>1 DEF Trabajan
<1>4. ASSUME NEW k \in Archivos, NEW i \in Nat, Tomada(k, i)
      PROVE  \E l \in Archivos : Tomada(l, i)' /\ BLOCKS'[l][i] = BLOCKS[k][i]
  <2>1. k # g
    BY <1>1, <1>4 DEF Tomada
  <2>2. CASE k = f
    <3>1. Tomada(g, i)' /\ BLOCKS'[g][i] = BLOCKS[f][i]
      BY <1>2, <1>3, <1>4, <2>2 DEF Tomada, Existe
    <3> QED BY <2>2, <3>1
  <2>3. CASE k # f
    <3>1. Tomada(k, i)' /\ BLOCKS'[k][i] = BLOCKS[k][i]
      BY <1>2, <1>4, <2>1, <2>3 DEF Tomada, Existe
    <3> QED BY <3>1
  <2> QED BY <2>2, <2>3
<1>5. UnoPorArchivo' /\ BytesFrescos' /\ SinSolape'
  BY <1>1, <1>2 DEF Cuenta, UnoPorArchivo, BytesFrescos, SinSolape
<1>6. CopiaFiel'
  BY <1>1, <1>2, <1>3 DEF Cuenta, CopiaFiel, InvCuenta, InvBase, Reposo
<1>7. SinHuerfanos'
  <2> SUFFICES ASSUME NEW b \in bitarray' \ Basura PROVE ConDueno(b)'
    BY DEF SinHuerfanos
  <2>1. ConDueno(b)
    BY <1>1, <1>2 DEF Cuenta, SinHuerfanos
  <2>2. CASE \E k \in Hilos : pc[k] = "asignar" /\ bloque[k] = b
    BY <1>2, <2>2 DEF ConDueno
  <2>3. CASE \E k \in Archivos : \E i \in Nat : Tomada(k, i) /\ BLOCKS[k][i] = b
    BY <1>4, <2>3 DEF ConDueno
  <2> QED BY <2>1, <2>2, <2>3 DEF ConDueno
<1> QED BY <1>5, <1>6, <1>7 DEF Cuenta

LEMMA CuentaInicial == Init => InvCuenta
<1> SUFFICES ASSUME Init PROVE InvCuenta
  OBVIOUS
<1>1. bitarray \ Basura = {}
  BY DEF Init
<1>2. Cuenta
  BY <1>1 DEF Init, Cuenta, UnoPorArchivo, CopiaFiel, BytesFrescos, SinSolape, SinHuerfanos
<1> QED BY <1>2, BaseInicial DEF InvCuenta

LEMMA PasoCuenta == InvCuenta /\ [Next]_vars => InvCuenta'
<1> SUFFICES ASSUME InvCuenta, [Next]_vars PROVE InvCuenta'
  OBVIOUS
<1>1. InvBase'
  BY NextBase DEF InvCuenta
<1>2. ASSUME SoloLleno' PROVE Cuenta'
  <2> USE <1>2
  <2>0. ~Caer
    BY DEF Caer, SoloLleno
  <2>1. ASSUME NEW h \in Hilos, Paso(h) PROVE Cuenta'
    <3>1. ASSUME NEW f \in Archivos, CrearArchivoPuntoBin(h, f) PROVE Cuenta'
      BY <3>1, CrearCuenta
    <3>2. ASSUME NEW f \in Archivos, EscribirRegistro(h, f) PROVE Cuenta'
      BY <3>2, EscribirCuenta
    <3>3. ASSUME NEW f \in Archivos, LiberarBloques(h, f) PROVE Cuenta'
      BY <3>3, LiberarCuenta
    <3>4. CASE Buscar(h)
      BY <3>4, BuscarCuenta
    <3>5. CASE Marcar(h)
      BY <3>5, MarcarCuenta
    <3>6. CASE AsignarBloque(h) \/ AsignarBloqueAConfig(h)
      BY <3>6, AsignarCuenta
    <3>7. CASE LeerSinArchivo(h)
      BY <2>0, <3>7 DEF LeerSinArchivo
    <3>8. CASE Limpiar(h)
      BY <3>8, LimpiarCuenta
    <3>9. CASE Guardar(h)
      BY <3>9, GuardarCuenta
    <3>10. CASE Borrar(h)
      BY <3>10, BorrarCuenta
    <3>11. CASE NoCabe(h) \/ Releer(h) \/ Salvar(h)
      BY <3>11, SeguirCuenta
    <3>12. ASSUME NEW f \in Archivos, NEW g \in Archivos, Renombrar(h, f, g) PROVE Cuenta'
      BY <3>12, RenombrarCuenta
    <3>13. ASSUME NEW f \in Archivos, Desvincular(h, f) PROVE Cuenta'
      BY <3>13 DEF Desvincular, SoloLleno
    <3> QED BY <2>1, <3>1, <3>2, <3>3, <3>4, <3>5, <3>6, <3>7, <3>8, <3>9, <3>10, <3>11, <3>12,
               <3>13, Zenon DEF Paso
  <2>2. CASE UNCHANGED vars
    BY <2>2 DEF vars, locales, InvCuenta, SoloLleno, Cuenta, UnoPorArchivo, CopiaFiel,
                BytesFrescos, SinSolape, SinHuerfanos, ConDueno, Tomada, Existe
  <2> QED BY <2>0, <2>1, <2>2 DEF Next, Reiniciar
<1> QED BY <1>1, <1>2 DEF InvCuenta

\* An owner in the sense of ConDueno is an owner in the sense of SinFugas.
LEMMA InvSinFugas == InvCuenta => SinFugas
<1> SUFFICES ASSUME InvCuenta, SoloLleno, NEW b \in bitarray \ Basura,
                    ~\E h \in Hilos : pc[h] = "asignar" /\ bloque[h] = b
             PROVE  \E f \in Archivos : Existe(f) /\ Contains(BLOCKS[f], b)
  BY DEF SinFugas, SoloLleno
<1>1. PICK f \in Archivos, i \in Nat : Tomada(f, i) /\ BLOCKS[f][i] = b
  BY DEF InvCuenta, Cuenta, SinHuerfanos, ConDueno
<1>2. Contains(BLOCKS[f], b)
  BY <1>1, TipoDeBLOCKS DEF Tomada, Contains, InvCuenta, InvBase
<1> QED BY <1>1, <1>2 DEF Tomada

\* No marked block is lost while nothing but a full bitmap has happened: for
\* any number of threads, files, bytes of bitmap and restarts.
THEOREM BloquesSinFugas == Spec => []SinFugas
<1>1. Spec => []InvCuenta
  BY CuentaInicial, PasoCuenta, PTL DEF Spec
<1> QED BY <1>1, InvSinFugas, PTL
=============================================================================
