SPECIFICATION Spec
CONSTANTS
  Operaciones = {"SELECT", "INSERT", "JOURNAL"}
  Conexiones = {c1}
  Consola = {}
  Periodico = {p1}
  Tablas = {t1}
  EnFS = {t1}
  Claves = {k1, k2}
  Valores = {v1, v2}
  NMarcos = 2
  FSCae = FALSE
  MaxReloj = 2
  MaxPagina = 3
  Nulo = Nulo
SYMMETRY SimetriaClaves
INVARIANT
  CoherenciaDelValor
