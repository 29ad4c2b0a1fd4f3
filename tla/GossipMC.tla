------------------------------ MODULE GossipMC ------------------------------
(* Instances of Gossip for TLC. *)
EXTENDS GossipProp
CONSTANTS m1, m2, m3

Cadena == (m1 :> <<>>) @@ (m2 :> <<m1>>) @@ (m3 :> <<m2>>)
Puente == (m1 :> <<>>) @@ (m2 :> <<>>) @@ (m3 :> <<m1, m2>>)
Mutuas == (m1 :> <<m2>>) @@ (m2 :> <<m1>>) @@ (m3 :> <<>>)

TresConfiguraciones == {Cadena, Puente, Mutuas}
UnPuente == {Puente}

\* The kernel, which only reads the tables, goes its rounds while no more than
\* one exchange is under way, and not among memories that are each other's seeds.
KernelDeAUno ==
  \/ kernel = [pc |-> "seguir", con |-> Nulo, tabla |-> <<Principal>>]
  \/ /\ Cardinality({c \in Memorias : cliente[c].pc # "seguir"}) <= 1
     /\ envio = {} /\ ~Anillo
=============================================================================
