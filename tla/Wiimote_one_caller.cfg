SPECIFICATION Spec
CONSTANTS
  c1 = c1
  c2 = c2
  rd = rd
  Callers <- OneCaller
  Owner <- c1
  Reader <- rd
  Calibration <- MCCalibration
  ExtId <- MCExtId
  GyroId <- MCGyroId
  ExtInit <- ShortExtInit
  ExtSpace <- MCExtSpace
  Reads <- NoBlocks
  Writes <- TwoPieces
  Leds <- TwoLeds
  Features <- AccelAndExt
  ChunkSize = 2
  LowSize = 8
  MaxCalls = 3
  MaxEvents = 1
  MaxLosses = 0
INVARIANTS
  TypeOK
  RemoteAgrees
  ReadyMeansWritten
  IteratorValid
PROPERTIES
  ButtonsSeen
  SetOnce
  ImplementsRequests
CHECK_DEADLOCK FALSE
