------------------------------- MODULE LFSMC -------------------------------
(* Instances of LFS for TLC. *)
EXTENDS LFSProp

CONSTANTS c1, c2

PasosSelect == {"compuerta", "bin", "listar", "tmp", "filtrar", "responder"}

Simetria == Permutations(Clientes)

\* NadaSePierde and the SELECT properties say no more of the (one) table once
\* it is in solapadas, where it stays.
SinSolapar == solapadas = {}

\* LFSDurable: the third INSERT starts when the thread of another one is free,
\* which is enough to have a list of TopeUint8 records, and there is no kill then.
TresEnFila ==
  /\ SinSolapar
  /\ cuantos = 3 =>
       apagones = 0 /\ Cardinality({h \in Clientes : cl[h].pc # "libre"}) <= 1

\* LFSSelect: c1 writes and drops, c2 reads; a DROP is followed up only before
\* the first INSERT, and a kill only between the first and the second; after
\* any other death nothing more.
UnoEscribeOtroLee ==
  /\ SinSolapar \/ cuantos = 0
  /\ caida \in {"no", "apagado"} /\ (apagones = 0 \/ cuantos = 1)
  /\ cl[c1].pc \notin PasosSelect
  /\ cl[c2].pc \in PasosSelect \cup {"libre"}

\* LFSTablas: two entries for a table at once only before the first DROP; once
\* a second entry has been made in this life, one request at a time and no kill.
SegundaEntradaSola ==
  /\ solapadas # {} => Len(listaDeTablas) <= 1
  /\ mutex[2] # "nunca" =>
       apagones = 0 /\ Cardinality({h \in Clientes : cl[h].pc # "libre"}) <= 1
=============================================================================
