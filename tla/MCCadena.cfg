SPECIFICATION SpecCadenaJusta
CONSTANTS
  FILE_BLOCK = 2
  QUEUE_MAX_MSGS = 2
  Entradas <- MCEntradas
  Minuscula <- MCMinuscula
  MaxErrores = 1
  MaxLanzamientos = 2
  SIN_COLA = SIN_COLA
INVARIANTS TypeOKCadena SalidaCorrecta ColasBorradas
PROPERTIES CadenaTermina
CHECK_DEADLOCK FALSE
