CONSTANTS
  Calls = {1, 2}
  Mixes <- MCMixes
  Limit = 2
  Lengths = {1, 3}
  MaxRedirects = 1
  SourceSize = 2
  MaxOthers = 2
  MaxFaults = 1
  Kinds = {"command", "test", "git", "names", "probe", "files", "archive"}
  MaxOutput = 3
  MaxWrites = 2
  MaxTurns = 1
SPECIFICATION Spec
CHECK_DEADLOCK FALSE
INVARIANTS
  DownloadsWhole
  UploadsTruthful
  AnswerTruthful
  ChangesAsConfirmed
PROPERTIES
  NeverOverwrites
  EveryoneAnswered
