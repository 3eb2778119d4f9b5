SPECIFICATION SpecJusta
CONSTANTS
  Coches <- MCCoches
  Plantas <- MCPlantas
  parkingPlaces = 1
  SizeofPuntero = 2
  IntsPorPuntero = 1
  Ajenos <- MCAjenos
  NULL = NULL
  c1 = c1
  c2 = c2
  c3 = c3
INVARIANTS AforoRespetado PlazasExactas NadieDentroAlFinal
PROPERTY NadieSeQueda
CHECK_DEADLOCK FALSE
