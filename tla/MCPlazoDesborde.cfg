SPECIFICATION SpecPlazo
CONSTANTS
  PRIORIDAD_NORMAL = 0
  PRIORIDAD_ALTA = 1
  NULL = NULL
  TICKS_POR_RODAJA = 2
  TICK = 2
  MAX_PROCESOS = 2
  MAX_TAREAS = 4
  MOD = 8
  MaxTicks = 64
  Segundos <- MCSegundos
  PrioridadesCreadas <- MCSoloNormal
PROPERTY DuermeSuPlazo
