SPECIFICATION Spec
CONSTANTS
  Procesos = {p1, p2, p3, p4}
  Fifos = {listos}
  Ordenadas = {durmiendo}
  NULL = NULL
  Instantes <- MCInstantes
PROPERTY ImplementaColas
