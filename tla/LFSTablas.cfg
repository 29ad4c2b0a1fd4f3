SPECIFICATION Spec
CONSTANTS
  c1 = c1
  c2 = c2
  Tablas = {t1}
  Claves = {1}
  Particiones = 1
  EnDisco = {}
  Clientes = {c1, c2}
  Operaciones = {"INSERT", "CREATE", "DROP"}
  TopeUint8 = 256
  Apagones = 1
  MaxRegistros = 1
  MaxTmp = 1
  MaxReloj = 1
  MaxEntradas = 2
  Nulo = Nulo
  NoExiste = NoExiste
  SinLista = SinLista
CHECK_DEADLOCK FALSE
SYMMETRY Simetria
CONSTRAINT SegundaEntradaSola
INVARIANTS
  TypeOK
  UnaCompactacion
  SiempreArranca
