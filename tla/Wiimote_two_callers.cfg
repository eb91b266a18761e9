SPECIFICATION Spec
CONSTANTS
  c1 = c1
  c2 = c2
  rd = rd
  Callers <- TwoCallers
  Owner <- c1
  Reader <- rd
  Calibration <- MCCalibration
  ExtId <- MCExtId
  GyroId <- MCGyroId
  ExtInit <- ShortExtInit
  ExtSpace <- MCExtSpace
  Reads <- CrossingPieces
  Writes <- TwoPieces
  Leds <- NoLeds
  Features <- AccelOnly
  ChunkSize = 2
  LowSize = 16
  MaxCalls = 2
  MaxEvents = 0
  MaxLosses = 1
CONSTRAINT ReadsApart
PROPERTIES
  ImplementsRequests
CHECK_DEADLOCK FALSE
