SPECIFICATION Spec
CONSTANTS
  Clientes <- MCClientes
  Ficheros <- MCFicheros
  BUFFER = 2
  HASH_MOD = 3
  UINT = 16
  Letras <- MCLetras
  Hashes <- MCHashes
  MaxOrdenes = 2
  MaxFallos = 1
  NULL = NULL
INVARIANT CheckDelServidor
CHECK_DEADLOCK FALSE
