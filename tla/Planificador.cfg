SPECIFICATION SpecEquitativa
CONSTANTS
  s1 = s1
  s2 = s2
  t1 = t1
  t2 = t2
  m1 = m1
  m2 = m2
  Guiones = {s1, s2}
  Programa <- UnoYOtro
  Ejecutores = {e1, e2}
  Quantum = 1
  Tablas = {t1, t2}
  EnFS <- ListaDeTablas
  Consistencia <- UnaDeCada
  Memorias = {m1, m2}
  Principal = m1
  MaxCriterio = 2
  Altas <- AltasMC
  Nulo = Nulo
  Nadie = Nadie
CHECK_DEADLOCK FALSE
CONSTRAINT PocoTrasCruce
INVARIANTS
  EjecutoresJustos
  ColaJusta
  NingunGuionSePierde
  MetadataEntera
PROPERTIES
  AbandonoJustificado
  TomanTurnos
  TodoGuionTermina
