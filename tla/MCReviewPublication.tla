------------------------- MODULE MCReviewPublication -------------------------
(* Small instances of ReviewPublication for TLC; the .cfg files choose among   *)
(* the sets defined here.                                                     *)
EXTENDS ReviewPublication, TLC

CONSTANTS owner, ana, bima, w1, w2

Reviewer      == {owner, ana}
TwoReviewers  == {owner, ana, bima}
Nobody        == {}
OneWorker     == {w1}
TwoWorkers    == {w1, w2}

\* The two reviewers are interchangeable.
ReviewerSymmetry == Permutations({ana, bima})
=============================================================================
