SPECIFICATION SpecEquitativa
CONSTANTS
  c1 = c1
  c2 = c2
  Tablas = {t1}
  Claves = {1}
  Particiones = 1
  EnDisco = {t1}
  Clientes = {c1, c2}
  Operaciones = {"INSERT", "SELECT", "DROP"}
  TopeUint8 = 256
  Apagones = 1
  MaxRegistros = 2
  MaxTmp = 2
  MaxReloj = 2
  MaxEntradas = 1
  Nulo = Nulo
  NoExiste = NoExiste
  SinLista = SinLista
CHECK_DEADLOCK FALSE
CONSTRAINT UnoEscribeOtroLee
INVARIANTS
  SelectNoMata
  SelectAlDia
PROPERTIES
  SeVuelca
  LaCompuertaSeAbre
