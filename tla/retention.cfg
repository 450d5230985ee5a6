SPECIFICATION FairRetention
CONSTANTS
  owner = owner
  ana = ana
  w1 = w1
  NoWorker = NoWorker
  Owner = owner
  People <- Reviewer
  Volatile <- Nobody
  Workers <- OneWorker
  MaxVersions = 2
  MaxAttempts = 1
INVARIANTS RetentionTypeOK ArchiveIsComplete
PROPERTIES UntouchedIsArchived
