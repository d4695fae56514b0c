SPECIFICATION Spec
CONSTANTS
  a = a
  b = b
  ARCHIVOS = {a, b}
  VALORES = {"v"}
  BLOCK_COUNT = 6
  BLOCK_SIZE = 2
  TAMANIOS <- PrimeroNoVacio
  FCBS <- ConBloqueCero
  HAY_LUGAR = TRUE
  ESCRITURAS_DENTRO = TRUE
  CAIDAS = 1
CHECK_DEADLOCK FALSE
INVARIANTS
  TypeOK
  DuenioUnico
  RespuestaPersistida
PROPERTIES
  SinFugas
  ArchivosConservados
