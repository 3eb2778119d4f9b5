SPECIFICATION SpecMC
CONSTANTS
  Procesos <- MCProcesos
  NumBloques = 2
  Valores <- MCValores
  Escribe <- MCEscribe
  Direcciones <- MCDirecciones
  MaxFallos = 1
  NULL = NULL
INVARIANTS TypeOKDisco ReferenciasExactas ColaCoherente
PROPERTIES ImplementaBloques TodaPeticionTermina
CHECK_DEADLOCK FALSE
