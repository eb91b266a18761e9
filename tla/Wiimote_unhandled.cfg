SPECIFICATION FairSpec
CONSTANTS
  c1 = c1
  c2 = c2
  rd = rd
  Callers <- OneCaller
  Owner <- c1
  Reader <- rd
  Calibration <- MCCalibration
  ExtId <- MCExtId
  GyroId <- MCGyroId
  ExtInit <- ShortExtInit
  ExtSpace <- MCExtSpace
  Reads <- TwoPieces
  Writes <- TwoPieces
  Leds <- TwoLeds
  Features <- AccelOnly
  ChunkSize = 2
  LowSize = 8
  MaxCalls = 1
  MaxEvents = 0
  MaxLosses = 0
PROPERTIES
  UnhandledStatusAnswered
CHECK_DEADLOCK FALSE
