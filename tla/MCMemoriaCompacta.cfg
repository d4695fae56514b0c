SPECIFICATION Spec
CONSTANTS
  TAM_MEMORIA = 6
  TAM_SEGMENTO_0 = 1
  ALGORITMO = "WORST"
  PIDS = {p1, p2}
  IDS = {1, 2}
  TAMANIOS = {1, 2}
  VALORES = {v1}
  MAX_DESCRIPTOR = 7
SYMMETRY Simetria
CHECK_DEADLOCK FALSE
INVARIANT CompactacionAlcanza
