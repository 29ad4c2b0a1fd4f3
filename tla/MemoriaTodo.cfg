SPECIFICATION Spec
CONSTANTS
  Operaciones = {"SELECT", "INSERT", "CREATE", "DESCRIBE", "DROP", "JOURNAL"}
  Conexiones = {c1}
  Consola = {s1}
  Periodico = {}
  Tablas = {t1}
  EnFS = {t1}
  Claves = {k1, k2, k3}
  Valores = {v1}
  NMarcos = 2
  FSCae = TRUE
  MaxReloj = 1
  MaxPagina = 4
  Nulo = Nulo
SYMMETRY SimetriaClaves
INVARIANTS
  ContadorExacto
PROPERTIES
  DesalojoSoloLimpias
