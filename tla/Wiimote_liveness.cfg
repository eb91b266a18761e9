SPECIFICATION FairSpec
CONSTANTS
  c1 = c1
  c2 = c2
  rd = rd
  Callers <- OneCaller
  Owner <- c1
  Reader <- rd
  Calibration <- MCCalibration
  ExtId <- MCExtId
  GyroId <- MCGyroId
  ExtInit <- MCExtInit
  ExtSpace <- MCExtSpace
  Reads <- TwoPieces
  Writes <- TwoPieces
  Leds <- NoLeds
  Features <- NoFeatures
  ChunkSize = 2
  LowSize = 8
  MaxCalls = 2
  MaxEvents = 1
  MaxLosses = 0
PROPERTIES
  FuturesComplete
