SPECIFICATION Spec
CONSTANTS
  PROCESOS = {p1, p2, p3}
  NADIE = NADIE
  RECURSOS = {r1}
  INSTANCIAS <- SinInstancias
  GRADO = 2
  ALGORITMO = "HRRN"
  OPERACIONES = {"YIELD", "EXIT", "IO", "WAIT", "SIGNAL", "SIGUE", "F_READ", "F_TRUNCATE",
                 "SEG_FAULT", "CREATE_SEGMENT", "OUT_OF_MEMORY", "F_READ_FUERA"}
  LARGO = 2
  RESPUESTA_TARDIA = FALSE
SYMMETRY Simetria
CHECK_DEADLOCK FALSE
INVARIANTS
  TypeOK
  ReadyContados
  GradoRespetado
  RecursosContados
