SPECIFICATION FairSpec
CONSTANTS
  p1 = p1  r1 = r1  r2 = r2  s1 = s1
  status = status  comment = comment  redis = redis  memory1 = memory1  memory2 = memory2
  Replicas = {r1, r2}
  Partitions = {p1}
  TopicLen <- MCTopicLen
  None = None
  MaxFaults = 1
  Ids = {s1}
  Notifiers <- MCNotifiers
  Poison = Poison
  Content <- MCContent
  Mode = "enforce"
  Stores = {redis, memory1, memory2}
  Volatile = {memory1, memory2}
  Deployments <- MCDeployments
INVARIANTS
  DuplicateNeedsFault
  MarkMeansDelivered
  NoOrphanInMemory
  NoSilentLoss
  FirstVerdictStands
PROPERTY
  EveryVerdictReported
