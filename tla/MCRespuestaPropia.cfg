SPECIFICATION Spec
CONSTANTS
  PROCESOS = {p1, p2, p3}
  NADIE = NADIE
  RECURSOS = {r1}
  INSTANCIAS <- UnaInstancia
  GRADO = 2
  ALGORITMO = "FIFO"
  OPERACIONES = {"EXIT", "SEG_FAULT"}
  LARGO = 1
  RESPUESTA_TARDIA = TRUE
SYMMETRY Simetria
CHECK_DEADLOCK FALSE
INVARIANT RespuestaPropia
