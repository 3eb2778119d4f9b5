SPECIFICATION Spec
CONSTANTS
  PRIORIDAD_NORMAL = 0
  PRIORIDAD_ALTA = 1
  NULL = NULL
  TICKS_POR_RODAJA = 2
  TICK = 1
  MAX_PROCESOS = 2
  MAX_TAREAS = 6
  MOD = 64
  MaxTicks = 1
  Segundos <- MCSegundoCero
  PrioridadesCreadas <- MCSoloNormal
INVARIANT TareasAgotadas
