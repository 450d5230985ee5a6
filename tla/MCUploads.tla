----------------------------- MODULE MCUploads -----------------------------
(* Small instances of Uploads for TLC. *)
EXTENDS Uploads, TLC

CONSTANTS tab, report, memo, guide

OneTab     == {tab}
TwoNew     == {report, memo}
NewSymmetry == Permutations(TwoNew)
OneGuide   == {guide}
==============================================================================
