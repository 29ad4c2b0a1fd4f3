------------------------------- MODULE Turnos -------------------------------
(***************************************************************************)
(* What the kernel's planner promises of a script: it takes turns.  In a   *)
(* turn it runs alone in one of a few places, its requests are taken in    *)
(* order, no more than a quantum of them, and it gives the place up before *)
(* that only if it has ended or is given up.  What has ended does not run  *)
(* again.                                                                  *)
(***************************************************************************)
EXTENDS Integers, Sequences, FiniteSets

CONSTANTS
  Guiones,
  Programa,      \* script -> its requests
  Lugares,       \* how many scripts run at once
  Quantum,
  Nulo           \* what a script that has not come yet asks for

VARIABLES
  fase,          \* "afuera", "espera", "corre", "fin"
  restan,        \* the requests not yet taken
  usados         \* those taken in this turn

vars == <<fase, restan, usados>>

Corren == {s \in Guiones : fase[s] = "corre"}

Init ==
  /\ fase = [s \in Guiones |-> "afuera"]
  /\ restan = [s \in Guiones |-> Nulo]
  /\ usados = [s \in Guiones |-> 0]

Llegar(s) ==
  /\ fase[s] = "afuera"
  /\ fase' = [fase EXCEPT ![s] = "espera"]
  /\ restan' = [restan EXCEPT ![s] = Programa[s]]
  /\ UNCHANGED usados

Empezar(s) ==
  /\ fase[s] = "espera" /\ Cardinality(Corren) < Lugares
  /\ fase' = [fase EXCEPT ![s] = "corre"]
  /\ UNCHANGED <<restan, usados>>

Pedir(s) ==
  /\ fase[s] = "corre" /\ restan[s] # <<>> /\ usados[s] < Quantum
  /\ restan' = [restan EXCEPT ![s] = Tail(@)]
  /\ usados' = [usados EXCEPT ![s] = @ + 1]
  /\ UNCHANGED fase

Ceder(s) ==
  /\ fase[s] = "corre" /\ restan[s] # <<>> /\ usados[s] = Quantum
  /\ fase' = [fase EXCEPT ![s] = "espera"]
  /\ usados' = [usados EXCEPT ![s] = 0]
  /\ UNCHANGED restan

Terminar(s) ==
  /\ fase[s] = "corre" /\ restan[s] = <<>>
  /\ fase' = [fase EXCEPT ![s] = "fin"]
  /\ usados' = [usados EXCEPT ![s] = 0]
  /\ UNCHANGED restan

Abandonar(s) ==
  /\ fase[s] = "corre" /\ usados[s] > 0
  /\ fase' = [fase EXCEPT ![s] = "fin"]
  /\ restan' = [restan EXCEPT ![s] = <<>>]
  /\ usados' = [usados EXCEPT ![s] = 0]

Next ==
  \E s \in Guiones :
    \/ Llegar(s)
    \/ Empezar(s) \/ Pedir(s) \/ Ceder(s) \/ Terminar(s) \/ Abandonar(s)

Spec == Init /\ [][Next]_vars
=============================================================================
