SPECIFICATION FairSpec
CONSTANTS
  job = job
  speaker = speaker
  Writers <- MCWriters
  MaxInputs = 2
  MaxWrites = 2
PROPERTIES
  CloseReturns
  ImplementsDevice
INVARIANTS
  TypeOK
  ClosedMeansQuiet
  CallbackInOrder
  AtMostOneTwice
