SPECIFICATION Spec
CONSTANTS
  Operaciones = {"SELECT", "INSERT"}
  Conexiones = {c1}
  Consola = {}
  Periodico = {p1}
  Tablas = {t1}
  EnFS = {t1}
  Claves = {k1, k2, k3, k4}
  Valores = {v1}
  NMarcos = 3
  FSCae = TRUE
  MaxReloj = 2
  MaxPagina = 5
  Nulo = Nulo
SYMMETRY Simetria
CONSTRAINTS
  PocasSiHayTiempo
  PocoAjeno
INVARIANTS
  TypeOK
  IntegridadPaginas
  LRUExacta
  SoloCaeSelect
  Coherencia
PROPERTIES
  FullSoloSiTodoModificado
