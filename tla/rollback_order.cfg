SPECIFICATION Spec
CONSTANTS
  owner = owner
  ana = ana
  bima = bima
  w1 = w1
  w2 = w2
  NoWorker = NoWorker
  Owner = owner
  People <- Reviewer
  Volatile <- Nobody
  Workers <- OneWorker
  MaxVersions = 3
  MaxAttempts = 1
INVARIANTS PointerAgrees
PROPERTIES PointerMovesForward ImplementsLifecycle
