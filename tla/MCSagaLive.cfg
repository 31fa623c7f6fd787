SPECIFICATION FairSpec
CONSTANTS
  p1 = p1  r1 = r1  r2 = r2
  s1 = s1  o1 = o1  c1 = c1
  plain = plain  v1 = v1
  Replicas = {r1, r2}
  Partitions = {p1}
  TopicLen <- MCTopicLen
  None = None
  MaxFaults = 2
  Ids = {s1}
  Orgs = {o1}
  Coords = {c1}
  Diffs = {plain}
  Rulesets = {v1}
  Poison = Poison
  Content <- MCContent
  RulesetOf <- MCRulesetOf
  RequiredFindings <- MCRequired
  ScanFindings <- MCScan
  AdvisoryOutcomes <- MCAdvisory
PROPERTY
  EverySubmissionAnswered
