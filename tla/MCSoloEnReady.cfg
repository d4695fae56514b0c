SPECIFICATION Spec
CONSTANTS
  PROCESOS = {p1, p2, p3}
  NADIE = NADIE
  RECURSOS = {r1}
  INSTANCIAS <- UnaInstancia
  GRADO = 2
  ALGORITMO = "FIFO"
  OPERACIONES = {"EXIT", "F_READ"}
  LARGO = 2
  RESPUESTA_TARDIA = FALSE
SYMMETRY Simetria
CHECK_DEADLOCK FALSE
INVARIANT SoloEnReady
