SPECIFICATION SpecJusta
CONSTANTS
  PROCESOS = {p1, p2, p3}
  NADIE = NADIE
  RECURSOS = {r1}
  INSTANCIAS <- UnaInstancia
  GRADO = 2
  ALGORITMO = "FIFO"
  OPERACIONES = {"EXIT", "IO", "WAIT", "SIGNAL", "F_READ", "F_TRUNCATE", "YIELD"}
  LARGO = 3
  RESPUESTA_TARDIA = TRUE
CHECK_DEADLOCK FALSE
INVARIANTS
  TurnoUnico
  ExitContados
  EnUnaSolaCola
  DespachoCorrecto
  TablasSincronizables
PROPERTIES
  DiagramaDeEstados
  TerminaOEsperaRecurso
