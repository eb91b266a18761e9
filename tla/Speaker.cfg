SPECIFICATION FairSpec
CONSTANTS
  one = one
  two = two
  Streams <- MCStreams
  Length <- MCLength
  Rates = {7000, 8000}
  MaxChanges = 1
  MaxSince = 6
INVARIANTS
  TypeOK
  HeardAsConfigured
PROPERTIES
  Paced
  StreamPlayed
CHECK_DEADLOCK FALSE
