----------------------------- MODULE MCRetention -----------------------------
(* Small instances of Retention for TLC: one reviewer, one worker.             *)
EXTENDS Retention

CONSTANTS owner, ana, w1

Reviewer  == {owner, ana}
Nobody    == {}
OneWorker == {w1}
=============================================================================
