---------------------------- MODULE MCRagExport ----------------------------
(* Small instances of RagExport for TLC: the worker alone, or with weknora:sync. *)
EXTENDS RagExport

CONSTANTS worker, sync

WorkerOnly    == {worker}
WorkerAndSync == {worker, sync}

\* The oldest version ends in one way: it expires, is withdrawn, or is live when a newer one
\* is opened. It alone has a creation that comes late, so that it may leave two records, in
\* one listing with that of its successor.
OldestEndsOnce ==
  /\ expired' # {} \/ retired' => \A v \in Versions \ {1} : stage'[v] = "absent"
  /\ (\E v \in Versions \ {1} : stage'[v] # "absent") => live' # 0
  /\ \A v \in Versions : late'[v] <= (IF v = 1 THEN 1 ELSE 0)

FairRagOldestEndsOnce == RagInit /\ [][RagNext /\ OldestEndsOnce]_ragVars /\ RagFairness
=============================================================================
