SPECIFICATION Spec
CONSTANTS
  owner = owner
  ana = ana
  bima = bima
  w1 = w1
  w2 = w2
  NoWorker = NoWorker
  Owner = owner
  People <- TwoReviewers
  Volatile <- TwoReviewers
  Workers <- OneWorker
  MaxVersions = 2
  MaxAttempts = 1
SYMMETRY ReviewerSymmetry
INVARIANTS TypeOK EverPublished OpenJobIsWanted
PROPERTIES PublishedUnderRulesInForce OldVersionStaysUntilSwap
