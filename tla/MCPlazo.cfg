SPECIFICATION SpecPlazo
CONSTANTS
  PRIORIDAD_NORMAL = 0
  PRIORIDAD_ALTA = 1
  NULL = NULL
  TICKS_POR_RODAJA = 1
  TICK = 2
  MAX_PROCESOS = 3
  MAX_TAREAS = 4
  MOD = 64
  MaxTicks = 4
  Segundos <- MCSegundoUno
  PrioridadesCreadas <- MCAmbas
INVARIANTS TypeOK Particion DormidosOrdenados NingunRetraso
PROPERTY DuermeSuPlazo
