SPECIFICATION SpecJusta
CONSTANTS
  p1 = p1
  p2 = p2
  p3 = p3
  f1 = f1
  f2 = f2
  NADIE = NADIE
  PROCESOS <- Tres
  ARCHIVOS <- DosArchivos
  POSICIONES <- Seeks
  LARGO = 3
INVARIANT TypeOK UsoExclusivo ColaDeEspera
PROPERTY PedidoEstable ImplementaCandados EsperaTermina
CHECK_DEADLOCK FALSE
