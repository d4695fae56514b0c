SPECIFICATION Spec
CONSTANTS
  PROCESOS <- Dos
  NADIE = NADIE
  REGISTROS_4 <- Cuatro
  REGISTROS_8 <- Ocho
  CON_RESTO <- SoloAX
  ANCHO <- Anchos
  TAM = 3
  NUL = NUL
  LETRAS <- Letras
  CADENAS <- Cadenas
  ALGORITMO = "FIFO"
  LARGO = 3
INVARIANT TypeOK
PROPERTY ImplementaAislados
CHECK_DEADLOCK FALSE
