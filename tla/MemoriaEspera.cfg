SPECIFICATION SpecJusta
CONSTANTS
  Operaciones = {"INSERT"}
  Conexiones = {c1, c2}
  Consola = {}
  Periodico = {p1}
  Tablas = {t1}
  EnFS = {t1}
  Claves = {k1, k2}
  Valores = {v1}
  NMarcos = 1
  FSCae = FALSE
  MaxReloj = 2
  MaxPagina = 3
  Nulo = Nulo
PROPERTIES
  LaEsperaTermina
  RespuestaLlega
  PerdidaAcotada
