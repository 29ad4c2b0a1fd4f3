---------------------------- MODULE BloquesProp ----------------------------
(* What the block store must keep; each property is stated for the code as *)
(* it is, naming the incidents after which it no longer holds.             *)
EXTENDS Bloques

\* The variables have the types of the source.
TypeOK ==
  /\ bitarray \subseteq Bloques
  /\ mutexBitmap \in Hilos \cup {Nadie}
  /\ BLOCKS \in [Archivos -> Seq(Bloques) \cup {NoExiste}]
  /\ pc \in [Hilos -> {"libre"} \cup Escribiendo \cup Liberando]
  /\ archivo \in [Hilos -> Archivos \cup {NoExiste}]
  /\ copia \in [Hilos -> Seq(Bloques)]
  /\ pos \in [Hilos -> Nat \ {0}]
  /\ bloque \in [Hilos -> Bloques]
  /\ leido \in [Hilos -> SUBSET Bloques]
  /\ reinicios \in 0..Reinicios
  /\ incidentes \subseteq
       {"lleno", "solape", "cruce", "pisado", "resto", "caida", "corte"}

\* The files that are there and nobody is deleting.
Vivos == {f \in Archivos : Existe(f) /\ \A h \in Trabajan(f) : pc[h] \notin Liberando}

\* What makes two files end up with the same block: the bitmap ran out; a
\* clean overlapped another change of the same byte; a file was freed, removed,
\* renamed, made or written while another thread was freeing or writing it; the
\* process died half way through a free.
Confunden == {"lleno", "solape", "cruce", "corte"}

\* A block belongs to one file, once (primerBloqueLibre and liberarBloques),
\* unless one of the four things above has happened.
Exclusividad ==
  incidentes \cap Confunden = {} =>
    \A f, g \in Vivos : \A i \in DOMAIN BLOCKS[f], k \in DOMAIN BLOCKS[g] :
      BLOCKS[f][i] = BLOCKS[g][k] => f = g /\ i = k

\* A marked block is in some file, or on its way to one, or was marked when
\* Bitmap.bin was created: none is lost, unless a byte was overwritten, two
\* threads were at work on one file, a file was made or renamed over another, a
\* DROP removed one that it had not freed, or the process died.
SinFugas ==
  incidentes \subseteq {"lleno"} =>
    \A b \in bitarray \ Basura :
      \/ \E f \in Archivos : Existe(f) /\ Contains(BLOCKS[f], b)
      \/ \E h \in Hilos : pc[h] = "asignar" /\ bloque[h] = b
=============================================================================
