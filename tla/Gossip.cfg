SPECIFICATION SpecEquitativa
CONSTANTS
  m1 = m1
  m2 = m2
  m3 = m3
  Memorias = {m1, m2, m3}
  Configuraciones <- TresConfiguraciones
  Principal = m1
  MaxCaidas = 1
  Nulo = Nulo
  Nadie = Nadie
CHECK_DEADLOCK FALSE
CONSTRAINT KernelDeAUno
INVARIANTS
  TypeOK
  SeConoce
PROPERTIES
  NoOlvida
  IntercambioTermina
  SeConocen
