----------------------------- MODULE GossipProp -----------------------------
(* What the gossip tables must keep. *)
EXTENDS Gossip

Tablas == Seq(Memorias)
SinRepetidas(tabla) == \A i, k \in DOMAIN tabla : tabla[i] = tabla[k] => i = k

\* The variables have the types of the source.
TypeOK ==
  /\ semillas \in Configuraciones
  /\ viva \in [Memorias -> BOOLEAN]
  /\ tabla_gossiping \in [Memorias -> Tablas]
  /\ mutexTablaGossiping \in [Memorias -> Memorias \cup {Nadie}]
  /\ cliente \in [Memorias ->
       [pc : {"seguir", "pedida", "unir", "quitar", "cortada"}, indice : Nat \ {0},
        con : Memorias \cup {Nulo}, recibida : Tablas \cup {Nulo}]]
  /\ espera \in [Memorias -> SUBSET Memorias]
  /\ envio \subseteq [de : Memorias, a : Memorias, tabla : Tablas]
  /\ huerfano \in [Memorias -> BOOLEAN]
  /\ kernel \in [pc : {"seguir", "pedida", "quitar", "cortada", "muerto"},
                 con : Memorias \cup {Nulo}, tabla : Tablas \ {<<>>}]
  /\ caidas \in 0..MaxCaidas

\* A table is thrown away for one made elsewhere: a memory still finds itself
\* in its own, and no memory twice, in those on their way and the kernel's too.
SeConoce ==
  /\ \A m \in Memorias : viva[m] => Contains(tabla_gossiping[m], m)
  /\ \A m \in Memorias : SinRepetidas(tabla_gossiping[m])
  /\ \A e \in envio : SinRepetidas(e.tabla)
  /\ SinRepetidas(kernel.tabla)

\* A living memory forgets another only when it was a seed of it that could not
\* be reached: never by an exchange, whatever its gossip thread learns meanwhile
\* from other seeds.
NoOlvida ==
  [][\A m, x \in Memorias :
       Contains(tabla_gossiping[m], x) /\ ~Contains(tabla_gossiping'[m], x) =>
         \/ ~viva'[m]
         \/ cliente[m].pc = "quitar" /\ x = Semilla(m)]_vars

\* Memories each of which is a seed of another of them.
Anillo ==
  \E S \in (SUBSET Memorias) \ {{}} :
    \A m \in S : \E c \in S : Contains(semillas[c], m)

\* A thread that waits for a table, or for a mutex that is held while another
\* waits for one, goes on: an exchange ends, of a memory or of the kernel,
\* unless a ring of seeds lets memories wait for one another.
IntercambioTermina ==
  /\ \A m \in Memorias :
       cliente[m].pc \in {"pedida", "unir", "quitar"} ~> cliente[m].pc = "seguir" \/ Anillo
  /\ kernel.pc = "pedida" ~> kernel.pc # "pedida" \/ Anillo

SeTratan(m, n) == Contains(tabla_gossiping[n], m) /\ Contains(tabla_gossiping[m], n)

\* A living memory and its seeds come to know each other, wherever its first
\* round started, unless one of them dies or there is a ring of seeds.
SeConocen ==
  \A m \in Memorias :
    viva[m] ~>
      \/ \A n \in ToSet(semillas[m]) : SeTratan(m, n)
      \/ \E n \in {m} \cup ToSet(semillas[m]) : ~viva[n]
      \/ Anillo

\* "si no esta esto, se borra de la tabla la unica memoria a la q se puede
\* conectar": when the kernel cannot reach the first memory of its table and
\* another of those it knows is alive, one that is stays in it.
QuedaAlguna ==
  [][/\ kernel.pc = "quitar" /\ kernel'.pc = "seguir"
     /\ \E m \in ToSet(Tail(kernel.tabla)) : viva[m]
     => \E n \in ToSet(kernel'.tabla) : viva[n]]_vars
=============================================================================
