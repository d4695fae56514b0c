SPECIFICATION Spec
CONSTANTS
  TAM_MEMORIA = 5
  TAM_SEGMENTO_0 = 1
  ALGORITMO = "BEST"
  PIDS = {p1, p2}
  IDS = {1}
  TAMANIOS = {1, 2}
  VALORES = {v1,v2}
  MAX_DESCRIPTOR = 6
CHECK_DEADLOCK FALSE
SYMMETRY Simetria
INVARIANTS TypeOK Particion HuecosConsolidados TablasConsistentes CompactacionCompleta
PROPERTIES ImplementaSegmentos CompactacionConserva
