SPECIFICATION RagSpec
CONSTANTS
  worker = worker
  sync = sync
  NoExporter = NoExporter
  Exporters <- WorkerAndSync
  MaxVersions = 1
  MaxAttempts = 3
  ListLimit = 2
  LateAnswers = TRUE
INVARIANTS RagTypeOK QueueTellsTheTruth OneRecordPerVersion
