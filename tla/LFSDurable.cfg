SPECIFICATION Spec
CONSTANTS
  c1 = c1
  c2 = c2
  Tablas = {t1}
  Claves = {1, 2}
  Particiones = 2
  EnDisco = {t1}
  Clientes = {c1, c2}
  Operaciones = {"INSERT"}
  TopeUint8 = 3
  Apagones = 1
  MaxRegistros = 3
  MaxTmp = 3
  MaxReloj = 2
  MaxEntradas = 1
  Nulo = Nulo
  NoExiste = NoExiste
  SinLista = SinLista
CONSTRAINT TresEnFila
SYMMETRY Simetria
INVARIANTS
  NadaSePierde
  BinesSinRepetidos
