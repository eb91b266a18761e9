SPECIFICATION Spec
CONSTANTS
  job_thread = job_thread
  caller = caller
  JobThread <- job_thread
  Caller <- caller
  MaxInputs = 1
  MaxPosts = 1
INVARIANTS
  CallbackInLife
