SPECIFICATION Spec
CONSTANTS
  MAX_TAREAS = 8
  Dispositivos = {teclado}
  NULL = NULL
PROPERTY InsertaAlFinal
