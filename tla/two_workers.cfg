SPECIFICATION FairSpec
CONSTANTS
  owner = owner
  ana = ana
  bima = bima
  w1 = w1
  w2 = w2
  NoWorker = NoWorker
  Owner = owner
  People <- Reviewer
  Volatile <- Nobody
  Workers <- TwoWorkers
  MaxVersions = 2
  MaxAttempts = 2
PROPERTIES LeaseFences JobsSettle
