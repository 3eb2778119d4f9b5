SPECIFICATION SpecTeclado
CONSTANTS
  PRIORIDAD_NORMAL = 0
  PRIORIDAD_ALTA = 1
  NULL = NULL
  TICKS_POR_RODAJA = 1
  TICK = 1
  MAX_PROCESOS = 2
  MAX_TAREAS = 5
  MOD = 64
  MaxTicks = 0
  TAM_BUFFER_CARACTERES = 3
  Lecturas <- MCLecturas
  PrioridadesCreadas <- MCSoloNormal
  Segundos <- MCSinDormir
INVARIANT NingunaTareaPerdida
