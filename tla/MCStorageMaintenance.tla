------------------------ MODULE MCStorageMaintenance ------------------------
(* Small instances of StorageMaintenance for TLC. *)
EXTENDS StorageMaintenance, TLC

CONSTANTS first, uploaded, copied, content, source

OneIngested == {uploaded}
OneRestored == {copied}
TwoParts    == {content, source}
PartSymmetry == Permutations(TwoParts)
==============================================================================
