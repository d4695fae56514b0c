SPECIFICATION Spec
CONSTANTS
  a = a
  b = b
  ARCHIVOS = {a, b}
  VALORES = {"v"}
  BLOCK_COUNT = 6
  BLOCK_SIZE = 2
  TAMANIOS <- CualquierTamanio
  FCBS <- Ninguno
  HAY_LUGAR = TRUE
  ESCRITURAS_DENTRO = FALSE
  CAIDAS = 0
CHECK_DEADLOCK FALSE
INVARIANTS
  IndirectoExiste
