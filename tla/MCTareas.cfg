SPECIFICATION Spec
CONSTANTS
  MAX_TAREAS = 4
  Dispositivos = {teclado, disco}
  NULL = NULL
INVARIANT BufferEsCola
