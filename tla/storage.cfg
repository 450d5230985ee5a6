SPECIFICATION StorageSpec
CONSTANTS
  first = first
  uploaded = uploaded
  copied = copied
  content = content
  source = source
  Original = first
  Ingested <- OneIngested
  Restored <- OneRestored
  Parts <- TwoParts
  Lease = 1
  Retention = 2
  MaxTime = 3
SYMMETRY PartSymmetry
INVARIANTS StorageTypeOK RegisteredIsStored BackupsRestore
