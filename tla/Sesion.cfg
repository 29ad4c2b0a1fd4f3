SPECIFICATION SpecEquitativa
CONSTANTS
  x1 = x1
  x2 = x2
  Conexiones = {x1, x2}
  Largo <- LargoMC
  MaxLlenas = 2
  Nulo = Nulo
CHECK_DEADLOCK FALSE
INVARIANTS
  Desfase
  UnaVez
  ReintentoCubre
  RepeticionAcotada
  SoloJournalMata
PROPERTIES
  TurnoTermina
