SPECIFICATION MCSpec
CONSTANTS
  MaxJobs = 1
  MaxChunks = 2
  MaxRestarts = 2
  Timed <- MCFirst
  Gets = {1}
  Sets = {2, 3}
  Keys = {"a", "b"}
  Texts = {1}
  Endings = 1
CHECK_DEADLOCK FALSE
INVARIANTS
  KnownAfterRestart
  JobsTruthful
PROPERTIES
  EndsReported
  CredentialsKept
