SPECIFICATION SpecJusta
CONSTANTS
  PRIORIDAD_NORMAL = 0
  PRIORIDAD_ALTA = 1
  NULL = NULL
  TICKS_POR_RODAJA = 1
  TICK = 1
  MAX_PROCESOS = 3
  MAX_TAREAS = 3
  MOD = 64
  MaxTicks = 3
  Segundos <- MCSegundos
  PrioridadesCreadas <- MCAmbas
PROPERTIES TodoDormidoDespierta ListoEjecuta
