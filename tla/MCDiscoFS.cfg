SPECIFICATION Spec
CONSTANTS
  Procesos <- MCProcesos
  Inicial = 1
  n1 = n1
  n2 = n2
  Nombres <- MCNombres
  NumInodos = 2
  NumDatos = 4
  FS_BLOCK_SIZE = 3
  Tamanyos <- MCTamanyos
  d1 = d1
  d2 = d2
  Direcciones <- MCDirecciones
  Basura <- MCBasura
  MaxAbiertos = 2
  MaxSincronizar = 1
  MaxApagones = 1
  NULL = NULL
SYMMETRY MCSimetria
INVARIANTS TypeOKFS BloquesSeparados ContenidoEscrito LecturaEscrita ApagonSeguro
PROPERTIES TodoSincronizado
CHECK_DEADLOCK FALSE
