SPECIFICATION SpecJusta
CONSTANTS
  TAM_MEMORIA = 5
  TAM_SEGMENTO_0 = 1
  ALGORITMO = "FIRST"
  PIDS <- Dos
  IDS <- UnId
  TAMANIOS <- UnoYDos
  VALORES <- UnValor
  MAX_DESCRIPTOR = 6
  TAM_MAX_SEGMENTO = 2
  NADIE = NADIE
INVARIANT TypeOKTodo UnaSolicitud PedidoConTabla CopiasAlDia AccesosPropios TransferenciaQuieta
PROPERTY SolicitudTermina
CHECK_DEADLOCK FALSE
