SPECIFICATION FairSpec
CONSTANTS
  Reviewers = {claude, gemini}
  claude = claude  gemini = gemini
  Submissions <- MCSubmissions
  Deployments <- MCDeployments
  ModelAnswers <- MCModelAnswers
  StageDeadline = 3
  FallbackDeadline = 1
  SkipDirs = {"build"}
  MaxDetail = 2
  MaxDirRows = 1
  MaxTopFiles = 1
  Trees <- MCTrees
  Options <- MCOptions
  Outcomes <- MCOutcomes
  x = x  y = y  z = z
  Bytes = {x, y, z}
  Continuation = {z}
  Lower <- MCLower
  Ecosystems = {"npm"}
  Asked <- MCNames
CHECK_DEADLOCK FALSE
INVARIANTS
  TypeOK
  InTime
  ShownIsMasked
  SeriousNeverApproved
  AdviceIsWhole
  ClientSound
  GatewaySound
PROPERTIES
  EveryDiffJudged
