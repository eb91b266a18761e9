SPECIFICATION FairSpec
CONSTANTS
  job_thread = job_thread
  caller = caller
  JobThread <- job_thread
  Caller <- caller
  MaxInputs = 1
  MaxPosts = 3
INVARIANTS
  TypeOK
PROPERTIES
  UsesDevice
  ClosedFirstIsSafe
  TeardownReturns
  RumbleEnds
  MotorFollows
