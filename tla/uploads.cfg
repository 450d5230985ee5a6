SPECIFICATION UploadSpec
CONSTANTS
  tab = tab
  report = report
  memo = memo
  guide = guide
  Forms <- OneTab
  NewPayloads <- TwoNew
  Revisions <- OneGuide
  MaxCalls = 3
  MaxTime = 4
  Lease = 1
  Hour = 2
  PerHour = 2
  MaxAttempts = 2
  OwnedDrafts = 1
SYMMETRY NewSymmetry
INVARIANTS UploadTypeOK SavedOnce ShownIsSaved LimitsHold
