SPECIFICATION Spec
CONSTANTS
  Procesos <- MCProcesos
  Inicial = 1
  n1 = n1
  n2 = n2
  Nombres <- MCNombres
  NumInodos = 2
  NumDatos = 4
  FS_BLOCK_SIZE = 2
  Tamanyos <- MCUno
  d1 = d1
  d2 = d2
  Direcciones <- MCDirecciones
  Basura <- MCBasura
  MaxAbiertos = 2
  MaxSincronizar = 0
  MaxApagones = 0
  NULL = NULL

PROPERTY BloqueUnico
CHECK_DEADLOCK FALSE
