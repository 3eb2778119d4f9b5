SPECIFICATION SpecTecladoJusta
CONSTANTS
  PRIORIDAD_NORMAL = 0
  PRIORIDAD_ALTA = 1
  NULL = NULL
  TICKS_POR_RODAJA = 1
  TICK = 1
  MAX_PROCESOS = 2
  MAX_TAREAS = 4
  MOD = 64
  MaxTicks = 1
  TAM_BUFFER_CARACTERES = 3
  Lecturas <- MCLecturas
  PrioridadesCreadas <- MCSoloNormal
  Segundos <- MCSegundoCero
INVARIANTS TypeOKTeclado ParticionTeclado SinDespertarPerdido
PROPERTY LectorAtendido
