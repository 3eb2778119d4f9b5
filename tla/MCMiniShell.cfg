SPECIFICATION SpecShellJusta
CONSTANTS
  Ordenes <- MCOrdenes
  MaxProcesos = 7
  MaxTuberias = 4
  MaxOrdenes = 2
  MaxFallos = 1
  CAPACIDAD = 1
INVARIANTS TypeOKShell DescriptoresCerrados PrimerPlanoAcabado
PROPERTY TodoTermina
CHECK_DEADLOCK FALSE
