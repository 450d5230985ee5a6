SPECIFICATION FairRagOldestEndsOnce
CONSTANTS
  worker = worker
  sync = sync
  NoExporter = NoExporter
  Exporters <- WorkerOnly
  MaxVersions = 2
  MaxAttempts = 2
  ListLimit = 2
  LateAnswers = TRUE
INVARIANTS IndexedIsSearchable
PROPERTIES OverLeavesTheIndex LiveIsIndexed
