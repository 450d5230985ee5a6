------------------------------ MODULE Retention ------------------------------
(***************************************************************************)
(* The hourly retention pass over a document of ReviewPublication, and the  *)
(* owner's reaffirmation that puts a review off.                            *)
(*                                                                          *)
(* app.apply_retention chooses its documents in the snapshot of a FOR loop  *)
(* and archives them afterwards without looking at them again and without   *)
(* the document lock that every other function takes first; the escalation  *)
(* of overdue reviews is an INSERT ... SELECT that waits, after choosing    *)
(* its rows, for whoever holds the version.  Each is two steps here.        *)
(***************************************************************************)
EXTENDS ReviewPublication

VARIABLES
  reviewAt,     \* where review_at is: more than 30 days off, due, past the window
  graceOver,    \* versions that expired longer than grace_days ago
  pass,         \* what the retention transaction chose and has not written yet
  archivedBy,   \* 'document.archived_by_policy' audit events: version named, state found
  escalated,    \* versions whose present review date was escalated
  reminders     \* unread review_overdue notifications

retentionVars == <<reviewAt, graceOver, pass, archivedBy, escalated, reminders>>
allVars == <<vars, retentionVars>>

Idle == [does |-> "nothing", version |-> NoVersion]
Passes == [does: {"nothing", "archive", "escalate"}, version: Versions \cup {NoVersion}]

RetentionInit ==
  /\ Init
  /\ reviewAt = [v \in Versions |-> "far"]
  /\ graceOver = {}
  /\ pass = Idle
  /\ archivedBy = {}
  /\ escalated = {}
  /\ reminders = {}

\* Mutant: any other version, not only a newer one.
OtherVersionOpen(v) ==
  \E n \in Versions : n # v /\ review[n] \in {"draft", "in_review"}

\* A newer draft, or a newer version whose review_state says it is in review,
\* holds both parts of the pass off.
ReplacementSeen(v) ==
  \E n \in Versions : n > v /\ review[n] \in {"draft", "in_review"}

\* The FOR loop of app.apply_retention chooses the document.
ChooseExpired ==
  /\ pass = Idle
  /\ current # NoVersion /\ ~withdrawn
  /\ current \in graceOver
  /\ ~ReplacementSeen(current)
  /\ pass' = [does |-> "archive", version |-> current]
  /\ UNCHANGED <<vars, reviewAt, graceOver, archivedBy, escalated, reminders>>

\* The body of the loop: what a withdrawal does, but to a document not looked at again.
Archive ==
  /\ pass.does = "archive"
  /\ WithdrawEffect
  /\ archivedBy' = archivedBy \cup {pass.version}
  /\ pass' = Idle
  /\ UNCHANGED <<latest, review, processing, expiry, openFinding, steps, current,
                 adminVars, claim, reviewAt, graceOver, escalated, reminders>>

\* The INSERT ... SELECT of app.apply_retention chooses the overdue review, unless the
\* event key of this review date is there already (ON CONFLICT DO NOTHING).
ChooseOverdue ==
  /\ pass = Idle
  /\ current # NoVersion /\ ~withdrawn
  /\ publication[current] = "published" /\ review[current] = "approved"
  /\ reviewAt[current] = "overdue" /\ expiry[current] # "past"
  /\ ~ReplacementSeen(current)
  /\ current \notin escalated
  /\ pass' = [does |-> "escalate", version |-> current]
  /\ UNCHANGED <<vars, reviewAt, graceOver, archivedBy, escalated, reminders>>

\* ... and inserts it under the date it read.  The foreign key on the version makes
\* it wait for a reaffirmation that holds the row and has moved that date.
Escalate ==
  /\ pass.does = "escalate"
  /\ reminders' = reminders \cup {pass.version}
  /\ escalated' = IF reviewAt[pass.version] = "overdue"
                    THEN escalated \cup {pass.version} ELSE escalated
  /\ pass' = Idle
  /\ UNCHANGED <<vars, reviewAt, graceOver, archivedBy>>

\* app.reaffirm_version: the next date is a cadence away, but not past the expiry.
Reaffirm ==
  LET v == current IN
  /\ v # NoVersion /\ OwnerMayAct
  /\ review[v] = "approved" /\ publication[v] = "published"
  /\ expiry[v] # "past"
  /\ reviewAt[v] # "far"
  /\ \E next \in IF expiry[v] = "future" THEN {"far", "due"} ELSE {"far"} :
       reviewAt' = [reviewAt EXCEPT ![v] = next]
  /\ escalated' = escalated \ {v}
  /\ reminders' = reminders \ {v}
  /\ UNCHANGED <<vars, graceOver, pass, archivedBy>>

\* The clock: review dates come nearer once they are set, and the grace period ends.
\* Both are counted in days; a pass takes seconds.
ReviewNears(v) ==
  /\ pass = Idle
  /\ reqState[v] \in {"pending", "approved"}
  /\ reviewAt' = [reviewAt EXCEPT ![v] = IF @ = "far" THEN "due" ELSE "overdue"]
  /\ UNCHANGED <<vars, graceOver, pass, archivedBy, escalated, reminders>>

GraceEnds(v) ==
  /\ expiry[v] = "past"
  /\ graceOver' = graceOver \cup {v}
  /\ UNCHANGED <<vars, reviewAt, pass, archivedBy, escalated, reminders>>

\* CHECK(expires_at >= review_at): nothing expires before its review is due.  And the
\* shared advisory lock of the pass keeps administrators, who take it exclusively, out.
DatesInOrder == \A v \in Versions : expiry'[v] # expiry[v] /\ expiry'[v] = "past"
                                      => reviewAt[v] # "far"

WorkflowStep ==
  /\ OwnerStep \/ ReviewerStep \/ ClockStep \/ (\E w \in Workers : ClaimStep(w) \/ FinishStep(w))
  /\ DatesInOrder
  /\ UNCHANGED retentionVars

AdminBetweenPasses == pass = Idle /\ AdminStep /\ UNCHANGED retentionVars

PassStep == ChooseExpired \/ Archive \/ ChooseOverdue \/ Escalate

RetentionNext ==
  \/ WorkflowStep
  \/ AdminBetweenPasses
  \/ PassStep
  \/ Reaffirm
  \/ \E v \in Versions : ReviewNears(v) \/ GraceEnds(v)

RetentionSpec == RetentionInit /\ [][RetentionNext]_allVars

\* The pass runs every hour and finishes what it chose; deadlines pass.
RetentionFairness ==
  /\ WF_allVars(ChooseExpired) /\ WF_allVars(Archive) /\ WF_allVars(Escalate)

FairRetention == RetentionSpec /\ RetentionFairness

-----------------------------------------------------------------------------
RetentionTypeOK ==
  /\ TypeOK
  /\ reviewAt \in [Versions -> {"far", "due", "overdue"}]
  /\ graceOver \in SUBSET Versions
  /\ pass \in Passes
  /\ archivedBy \in SUBSET Versions
  /\ escalated \in SUBSET Versions
  /\ reminders \in SUBSET Versions

\* An expired document nobody has touched since is archived: no left-over of an
\* earlier review, and no job of an older version, holds the policy off for ever.
UntouchedIsArchived ==
  (current # NoVersion /\ current \in graceOver /\ latest = current)
    ~> (withdrawn \/ latest # current)

\* The pass leaves no unfinished business behind: after an archive, whichever steps of
\* owner, reviewers and workers came between the choice and the write, the document is
\* withdrawn, nothing of it is published or can be, and no review of it is pending.
ArchiveIsComplete ==
  archivedBy # {} =>
    /\ withdrawn
    /\ \A v \in Versions : /\ publication[v] # "published"
                           /\ job[v].state \notin Unsettled
                           /\ reqState[v] # "pending"
=============================================================================
