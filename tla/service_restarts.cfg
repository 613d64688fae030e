CONSTANTS
  s1 = s1  s2 = s2  s3 = s3
  a1 = a1  a2 = a2
  Bad = Bad
  NoBody = NoBody
  Missing = Missing
  Damaged = Damaged
  Settings = {s1, s2, s3}
  Ips = {a1, a2}
  Batches <- MixedBatches
  AckCount = 2
  Default <- FactoryBody
  Env = {"write", "stop", "power"}
  MaxFaults = 2

SPECIFICATION Spec
INVARIANT TypeOK
INVARIANT FilesAgree
INVARIANT AckedSurvives
INVARIANT LastGoodWins
PROPERTY DurableSpec
