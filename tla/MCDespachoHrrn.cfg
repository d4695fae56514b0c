SPECIFICATION Spec
CONSTANTS
  PROCESOS = {p1, p2, p3}
  NADIE = NADIE
  RECURSOS = {r1}
  INSTANCIAS <- UnaInstancia
  GRADO = 2
  ALGORITMO = "HRRN"
  OPERACIONES = {"EXIT", "IO"}
  LARGO = 2
  RESPUESTA_TARDIA = TRUE
SYMMETRY Simetria
CHECK_DEADLOCK FALSE
INVARIANT DespachoCorrecto
