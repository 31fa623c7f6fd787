SPECIFICATION Spec
CONSTANTS
  p1 = p1  p2 = p2  r1 = r1  r2 = r2
  s1 = s1  s2 = s2  o1 = o1  o2 = o2  c1 = c1  c2 = c2
  leak = leak  v1 = v1  v2 = v2
  Replicas = {r1, r2}
  Partitions = {p1, p2}
  TopicLen <- MCTopicLen
  None = None
  MaxFaults = 1
  Ids = {s1, s2}
  Orgs = {o1, o2}
  Coords = {c1, c2}
  Diffs = {leak}
  Rulesets = {v1, v2}
  Poison = Poison
  Content <- MCContent
  RulesetOf <- MCRulesetOf
  RequiredFindings <- MCRequired
  ScanFindings <- MCScan
  AdvisoryOutcomes <- MCAdvisory
INVARIANTS
  TypeOK
  CommittedSettled
  AuditOutboxAgree
  VerdictFitsSubmission
  SecretNeverApproved
  CachedKeepsFindings
  DecisionMatchesFindings
  RulesetHonoured
  DuplicateNeedsFault
