SPECIFICATION Spec
CONSTANTS
  Hilos = {h1, h2}
  Archivos = {f1, f2, f3}
  BitsPorByte = 3
  Bytes = 2
  Basura <- DosBasuras
  MaxBloques = 2
  Reinicios = 1
  NoExiste = NoExiste
  Nadie = Nadie
SYMMETRY Simetria
CONSTRAINT SinMasIncidentes
INVARIANTS
  Exclusividad
  SinFugas
