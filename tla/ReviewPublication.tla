-------------------------- MODULE ReviewPublication --------------------------
(***************************************************************************)
(* One IntraDocs document from its first draft to withdrawal: its versions, *)
(* the review of each version, the transactional outbox that hands an       *)
(* approved version to the indexing workers, and the swap of the pointer    *)
(* to the published version.                                                *)
(*                                                                          *)
(* Every SQL function below runs in one transaction that holds the row lock *)
(* of the document (SELECT ... FOR UPDATE), so it is one action.  What is   *)
(* NOT atomic is the work of a worker: it claims a job under a lease, reads *)
(* and indexes the text outside any transaction, and then calls             *)
(* publish_lexical or fail_publication in another one.  Between the two the *)
(* owner may revise or withdraw, an administrator may take away access or   *)
(* tighten the approval rule, the lease may lapse and another worker may    *)
(* take the job over, and the worker may die.                               *)
(***************************************************************************)
EXTENDS Naturals, Sequences, FiniteSets

CONSTANTS
  People,        \* profiles that take part in this document
  Owner,         \* the document's owner, who is the author of every version
  Volatile,      \* the people whose access may change while the model runs
  Workers,       \* worker processes
  NoWorker,      \* "lease_token is null"
  MaxVersions,   \* bound: versions the document may ever have
  MaxAttempts    \* attempts of a publication job before it is dead (5)

ASSUME PeopleAssumption  == Owner \in People /\ Volatile \subseteq People
ASSUME WorkersAssumption == NoWorker \notin Workers
ASSUME BoundsAssumption  == MaxVersions \in Nat \ {0} /\ MaxAttempts \in Nat \ {0}

VARIABLES
  latest,        \* highest version_number inserted so far
  review,        \* document_versions.review_state
  processing,    \* document_versions.processing_state
  publication,   \* document_versions.publication_state
  expiry,        \* expires_at of the request, copied to the version on approval
  openFinding,   \* the version has an unresolved finding of severity 'review'
  reqState,      \* approval_requests.state
  steps,         \* approval_steps of the request, in stage order
  job,           \* the publication_outbox row of the version
  current,       \* documents.current_version_id
  withdrawn,     \* documents.withdrawn
  access,        \* people who are active, in scope, cleared and in a fitting role
  rule,          \* app.rule_steps: approvals the rules in force ask for
  claim          \* the version whose job a worker is processing

versionVars == <<latest, review, processing, publication, expiry, openFinding>>
requestVars == <<reqState, steps>>
docVars     == <<current, withdrawn>>
adminVars   == <<access, rule>>
vars == <<versionVars, requestVars, job, docVars, adminVars, claim>>

Versions  == 1..MaxVersions
NoVersion == 0

ReviewStates      == {"absent", "draft", "in_review", "changes_requested",
                      "rejected", "approved"}
ProcessingStates  == {"preview_ready", "indexing", "ready", "failed"}
PublicationStates == {"unpublished", "published", "superseded", "withdrawn"}
RequestStates     == {"none", "pending", "approved", "changes_requested",
                      "rejected", "cancelled"}
Decisions         == {"approve", "changes_requested", "reject"}
JobStates         == {"none", "pending", "running", "done", "dead", "cancelled"}
Expiries          == {"never", "future", "past"}

Steps == [reviewer: People, decision: Decisions \cup {"undecided"}]
Jobs  == [state: JobStates, attempts: 0..MaxAttempts,
          holder: Workers \cup {NoWorker}, leased: BOOLEAN, due: BOOLEAN]

\* leased: lease_until is in the future;  due: available_at has come.
NoJob      == [state |-> "none", attempts |-> 0, holder |-> NoWorker,
               leased |-> FALSE, due |-> FALSE]
PendingJob == [state |-> "pending", attempts |-> 0, holder |-> NoWorker,
               leased |-> FALSE, due |-> TRUE]

-----------------------------------------------------------------------------
(* Helpers shared by the SQL functions.                                     *)

\* Mutant: the author may review.
ReviewerEligibleSelf(p) == p \in access

\* app.reviewer_eligible: never the author, who is also the owner.
ReviewerEligible(p) == p \in access /\ p # Owner

\* Every owner operation first checks the owner's role, scope and clearance.
OwnerMayAct == Owner \in access /\ ~withdrawn

StepReviewers(v) == {steps[v][i].reviewer : i \in DOMAIN steps[v]}

FullyApproved(v) == \A i \in DOMAIN steps[v] : steps[v][i].decision = "approve"

\* Mutant: only a review under way counts as newer, not its outcome.
OvertakenByReview(v) == \E n \in Versions : n > v /\ review[n] = "in_review"

\* Another version has been handed in, or approved, after v.
Overtaken(v) == \E n \in Versions : n > v /\ review[n] \in {"in_review", "approved"}

Unsettled == {"pending", "running", "dead"}

\* Mutant: a dead job is left alone.
CancelLiveJobs(S) ==
  [v \in Versions |-> IF v \in S /\ job[v].state \in Unsettled \ {"dead"}
                        THEN [job[v] EXCEPT !.state = "cancelled"] ELSE job[v]]

CancelJobs(S) ==
  [v \in Versions |-> IF v \in S /\ job[v].state \in Unsettled
                        THEN [job[v] EXCEPT !.state = "cancelled"] ELSE job[v]]

-----------------------------------------------------------------------------
Init ==
  /\ latest = 1
  /\ review = [v \in Versions |-> IF v = 1 THEN "draft" ELSE "absent"]
  /\ processing = [v \in Versions |-> "preview_ready"]
  /\ publication = [v \in Versions |-> "unpublished"]
  /\ expiry = [v \in Versions |-> "never"]
  /\ openFinding = [v \in Versions |-> FALSE]
  /\ reqState = [v \in Versions |-> "none"]
  /\ steps = [v \in Versions |-> <<>>]
  /\ job = [v \in Versions |-> NoJob]
  /\ current = NoVersion
  /\ withdrawn = FALSE
  /\ access = People
  /\ rule \in {1, 2}
  /\ claim = [w \in Workers |-> NoVersion]

-----------------------------------------------------------------------------
(* The owner.                                                               *)

InsertDraft ==
  /\ OwnerMayAct
  /\ latest < MaxVersions
  /\ latest' = latest + 1
  /\ review' = [review EXCEPT ![latest + 1] = "draft"]

\* app.commit_revision: the base is the latest version.  Its open review is
\* called off, and so is its approval when it has not been published yet.
CommitRevision ==
  LET base == latest IN
  /\ InsertDraft
  /\ reqState' = IF \/ reqState[base] = "pending"
                    \/ reqState[base] = "approved" /\ base # current
                   THEN [reqState EXCEPT ![base] = "cancelled"] ELSE reqState
  /\ job' = CancelJobs({base} \ {current})
  /\ UNCHANGED <<processing, publication, expiry, openFinding, steps,
                 docVars, adminVars, claim>>

\* app.rollback_version: a copy of an older approved version becomes a draft.
Rollback ==
  /\ InsertDraft
  /\ \E source \in Versions : source # latest /\ review[source] = "approved"
  /\ review[latest] \notin {"draft", "in_review"}
  /\ UNCHANGED <<processing, publication, expiry, openFinding, requestVars,
                 job, docVars, adminVars, claim>>

\* app.submit_version.  The reviewers are distinct, eligible and exactly as
\* many as the rules in force ask for; one step is stored for each.
Submit(reviewers, hasFinding, expires) ==
  LET v == latest IN
  /\ OwnerMayAct
  /\ review[v] = "draft"
  /\ \A i, j \in 1..rule : reviewers[i] = reviewers[j] => i = j
  /\ \A i \in 1..rule : ReviewerEligible(reviewers[i])
  /\ openFinding' = [openFinding EXCEPT ![v] = hasFinding]
  /\ expiry' = [expiry EXCEPT ![v] = expires]
  /\ reqState' = [reqState EXCEPT ![v] = "pending"]
  /\ steps' = [steps EXCEPT ![v] =
                 [i \in 1..rule |-> [reviewer |-> reviewers[i],
                                     decision |-> "undecided"]]]
  /\ review' = [review EXCEPT ![v] = "in_review"]
  /\ UNCHANGED <<latest, processing, publication, job, docVars, adminVars, claim>>

\* app.retry_publication: the way back from a dead job.
Retry(v) ==
  /\ OwnerMayAct
  /\ reqState[v] = "approved"
  /\ job[v].state = "dead"
  /\ job' = [job EXCEPT ![v] = PendingJob]
  /\ processing' = [processing EXCEPT ![v] = "indexing"]
  /\ UNCHANGED <<latest, review, publication, expiry, openFinding, requestVars,
                 docVars, adminVars, claim>>

\* app.withdraw_document, and app.withdraw_documents for each document of a batch.
\* A second withdrawal returns at once.
WithdrawEffect ==
  /\ withdrawn' = TRUE
  /\ publication' = [v \in Versions |-> IF publication[v] = "published"
                                          THEN "withdrawn" ELSE publication[v]]
  /\ job' = CancelJobs(Versions)
  /\ reqState' = [v \in Versions |-> IF reqState[v] = "pending"
                                       THEN "cancelled" ELSE reqState[v]]

Withdraw ==
  /\ OwnerMayAct
  /\ WithdrawEffect
  /\ UNCHANGED <<latest, review, processing, expiry, openFinding, steps,
                 current, adminVars, claim>>

-----------------------------------------------------------------------------
(* A reviewer.                                                              *)

\* app.resolve_finding
ResolveFinding(v, p) ==
  /\ ReviewerEligible(p)
  /\ reqState[v] = "pending"
  /\ p \in StepReviewers(v)
  /\ openFinding[v]
  /\ openFinding' = [openFinding EXCEPT ![v] = FALSE]
  /\ UNCHANGED <<latest, review, processing, publication, expiry, requestVars,
                 job, docVars, adminVars, claim>>

\* Mutant: trusts review_state and does not look at the request.
MayDecideUnrequested(v, i) ==
  /\ ReviewerEligible(steps[v][i].reviewer)
  /\ steps[v][i].decision = "undecided"
  /\ ~withdrawn
  /\ review[v] = "in_review"
  /\ \A k \in 1..(i - 1) : steps[v][k].decision = "approve"

\* The checks of app.decide_version that every decision passes.
MayDecide(v, i) ==
  /\ ReviewerEligible(steps[v][i].reviewer)
  /\ reqState[v] = "pending"
  /\ steps[v][i].decision = "undecided"
  /\ ~withdrawn
  /\ review[v] = "in_review"
  /\ \A k \in 1..(i - 1) : steps[v][k].decision = "approve"

\* app.decide_version, 'approve': the last stage approves the version and
\* queues its publication in the same transaction.
Approve(v, i) ==
  /\ MayDecide(v, i)
  /\ ~openFinding[v]
  /\ steps' = [steps EXCEPT ![v][i].decision = "approve"]
  /\ IF i = Len(steps[v])
       THEN /\ reqState' = [reqState EXCEPT ![v] = "approved"]
            /\ review' = [review EXCEPT ![v] = "approved"]
            /\ processing' = [processing EXCEPT ![v] = "indexing"]
            /\ job' = IF job[v].state = "none" THEN [job EXCEPT ![v] = PendingJob] ELSE job
       ELSE UNCHANGED <<reqState, review, processing, job>>
  /\ UNCHANGED <<latest, publication, expiry, openFinding, docVars, adminVars, claim>>

\* app.decide_version, 'changes_requested' or 'reject': any stage ends the review.
TurnDown(v, i, decision) ==
  LET outcome == IF decision = "reject" THEN "rejected" ELSE "changes_requested" IN
  /\ MayDecide(v, i)
  /\ steps' = [steps EXCEPT ![v][i].decision = decision]
  /\ reqState' = [reqState EXCEPT ![v] = outcome]
  /\ review' = [review EXCEPT ![v] = outcome]
  /\ UNCHANGED <<latest, processing, publication, expiry, openFinding, job,
                 docVars, adminVars, claim>>

-----------------------------------------------------------------------------
(* A worker: processPublication, between two SQL calls it holds only claim. *)

\* Mutant: any running job may be taken over.
LeaseIgnored(j) == j.state = "running"

LeaseLapsed(j) == j.state = "running" /\ ~j.leased

\* Mutant: jobs that ran out of attempts under a lease are not swept.
NotSwept == job

\* The first statement of app.claim_publication: running jobs whose lease has
\* lapsed on the last attempt are dead.
Swept == [v \in Versions |-> IF LeaseLapsed(job[v]) /\ job[v].attempts >= MaxAttempts
                               THEN [job[v] EXCEPT !.state = "dead"] ELSE job[v]]

\* Mutant: attempts are not limited.
ClaimableForever(j) == (j.state = "pending" \/ LeaseLapsed(j)) /\ j.due

Claimable(j) == /\ j.state = "pending" \/ LeaseLapsed(j)
                /\ j.due
                /\ j.attempts < MaxAttempts

\* A fresh lease token is known to one worker only, which forgets it before it
\* claims again: the worker's name stands for the token.
Leased(j, w) == [j EXCEPT !.state = "running", !.attempts = j.attempts + 1,
                          !.holder = w, !.leased = TRUE]

\* app.claim_publication
ClaimJob(w, v) ==
  /\ claim[w] = NoVersion
  /\ Claimable(job[v])
  /\ job' = [Swept EXCEPT ![v] = Leased(job[v], w)]
  /\ claim' = [claim EXCEPT ![w] = v]
  /\ UNCHANGED <<versionVars, requestVars, docVars, adminVars>>

\* app.claim_publication on a queue with nothing to claim.
ClaimNothing(w) ==
  /\ claim[w] = NoVersion
  /\ \A v \in Versions : ~Claimable(job[v])
  /\ job' = Swept
  /\ UNCHANGED <<versionVars, requestVars, docVars, adminVars, claim>>

Release(w) == claim' = [claim EXCEPT ![w] = NoVersion]

\* The lease check of app.publish_lexical.
HoldsLease(w, v) == job[v].state = "running" /\ job[v].holder = w /\ job[v].leased

\* Mutant: the reviewers' access is not looked at again.
ApprovalStandsOnce(v) ==
  /\ ~withdrawn /\ Owner \in access
  /\ review[v] = "approved" /\ expiry[v] # "past"
  /\ reqState[v] = "approved" /\ FullyApproved(v)
  /\ rule <= Len(steps[v])
  /\ ~Overtaken(v)

\* Mutant: the expiry is left to the readers' queries.
ApprovalStandsExpired(v) ==
  /\ ~withdrawn /\ Owner \in access
  /\ review[v] = "approved"
  /\ reqState[v] = "approved" /\ FullyApproved(v)
  /\ \A p \in StepReviewers(v) : ReviewerEligible(p)
  /\ rule <= Len(steps[v])
  /\ ~Overtaken(v)

\* What app.publish_lexical checks again of an approval that was complete when
\* the job was queued.  The author is the owner.
ApprovalStands(v) ==
  /\ ~withdrawn
  /\ Owner \in access
  /\ review[v] = "approved"
  /\ expiry[v] # "past"
  /\ reqState[v] = "approved"
  /\ FullyApproved(v)
  /\ \A p \in StepReviewers(v) : ReviewerEligible(p)
  /\ rule <= Len(steps[v])
  /\ ~Overtaken(v)

\* Mutant: the old version is not superseded.
AddPublished(v) == [publication EXCEPT ![v] = "published"]

SwapTo(v) == [n \in Versions |-> IF n = v THEN "published"
                                 ELSE IF n = current THEN "superseded"
                                 ELSE publication[n]]

\* app.publish_lexical, success: one transaction stores the index, supersedes the
\* old version and swaps the pointer.
Publish(w) ==
  LET v == claim[w] IN
  /\ v # NoVersion
  /\ HoldsLease(w, v)
  /\ ApprovalStands(v)
  /\ publication' = SwapTo(v)
  /\ processing' = [processing EXCEPT ![v] = "ready"]
  /\ current' = v
  /\ job' = [job EXCEPT ![v].state = "done", ![v].leased = FALSE]
  /\ Release(w)
  /\ UNCHANGED <<latest, review, expiry, openFinding, requestVars, withdrawn, adminVars>>

FailUnpublished(v) == [processing EXCEPT ![v] = IF publication[v] = "unpublished"
                                                  THEN "failed" ELSE @]

\* app.publish_lexical, 'stale_approval': the job is cancelled, not failed.
PublishStale(w) ==
  LET v == claim[w] IN
  /\ v # NoVersion
  /\ HoldsLease(w, v)
  /\ ~ApprovalStands(v)
  /\ job' = [job EXCEPT ![v].state = "cancelled"]
  /\ processing' = FailUnpublished(v)
  /\ Release(w)
  /\ UNCHANGED <<latest, review, publication, expiry, openFinding, requestVars,
                 docVars, adminVars>>

\* app.fail_publication after an unreadable object, a checksum mismatch or any
\* error of publish_lexical, a stale lease included.  It asks for the token, not
\* for an unexpired lease, and does nothing to a job that is no longer this worker's.
\* A publish_lexical call that finds the job done ends here as well.
Fail(w) ==
  LET v == claim[w] IN
  /\ v # NoVersion
  /\ IF job[v].state = "running" /\ job[v].holder = w
       THEN /\ job' = [job EXCEPT
                         ![v].state = IF job[v].attempts >= MaxAttempts
                                        THEN "dead" ELSE "pending",
                         ![v].leased = FALSE,
                         ![v].due = FALSE]
            /\ processing' = FailUnpublished(v)
       ELSE UNCHANGED <<job, processing>>
  /\ Release(w)
  /\ UNCHANGED <<latest, review, publication, expiry, openFinding, requestVars,
                 docVars, adminVars>>

\* The process dies; the row stays 'running' until its lease lapses.
Crash(w) ==
  /\ claim[w] # NoVersion
  /\ Release(w)
  /\ UNCHANGED <<versionVars, requestVars, job, docVars, adminVars>>

-----------------------------------------------------------------------------
(* The clock and the administrators.                                        *)

\* lease_until (claim + 90 s) passes.
LeaseLapses(v) ==
  /\ job[v].state = "running" /\ job[v].leased
  /\ job' = [job EXCEPT ![v].leased = FALSE]
  /\ UNCHANGED <<versionVars, requestVars, docVars, adminVars, claim>>

\* available_at (failure + backoff) passes.
BackoffElapses(v) ==
  /\ job[v].state = "pending" /\ ~job[v].due
  /\ job' = [job EXCEPT ![v].due = TRUE]
  /\ UNCHANGED <<versionVars, requestVars, docVars, adminVars, claim>>

\* expires_at passes, at any moment of the review or after it.
Expire(v) ==
  /\ expiry[v] = "future"
  /\ expiry' = [expiry EXCEPT ![v] = "past"]
  /\ UNCHANGED <<latest, review, processing, publication, openFinding, requestVars,
                 job, docVars, adminVars, claim>>

\* app.assign_user, app.set_document_access and the deactivation of an account.
ChangeAccess(p) ==
  /\ p \in Volatile
  /\ access' = IF p \in access THEN access \ {p} ELSE access \cup {p}
  /\ UNCHANGED <<versionVars, requestVars, job, docVars, rule, claim>>

\* app.save_category: approval_steps or the classification floor of an ancestor.
ChangeRule ==
  /\ rule' = 3 - rule
  /\ UNCHANGED <<versionVars, requestVars, job, docVars, access, claim>>

-----------------------------------------------------------------------------
OwnerStep ==
  \/ CommitRevision
  \/ Rollback
  \/ \E reviewers \in [1..rule -> People], f \in BOOLEAN, e \in {"never", "future"} :
       Submit(reviewers, f, e)
  \/ \E v \in Versions : Retry(v)
  \/ Withdraw

ReviewerStep ==
  \E v \in Versions :
    \/ \E p \in People : ResolveFinding(v, p)
    \/ \E i \in DOMAIN steps[v] :
         Approve(v, i) \/ \E d \in Decisions \ {"approve"} : TurnDown(v, i, d)

ClaimStep(w) == ClaimNothing(w) \/ \E v \in Versions : ClaimJob(w, v)

FinishStep(w) == Publish(w) \/ PublishStale(w) \/ Fail(w) \/ Crash(w)

ClockStep ==
  \E v \in Versions : LeaseLapses(v) \/ BackoffElapses(v) \/ Expire(v)

AdminStep == ChangeRule \/ \E p \in People : ChangeAccess(p)

Next ==
  \/ OwnerStep
  \/ ReviewerStep
  \/ \E w \in Workers : ClaimStep(w) \/ FinishStep(w)
  \/ ClockStep
  \/ AdminStep

Spec == Init /\ [][Next]_vars

(***************************************************************************)
(* The worker's timer calls claim_publication every two seconds and runs   *)
(* whatever it claimed to an end, or dies; leases and backoffs are dates,   *)
(* so they pass.  The queue is served oldest first (ORDER BY available_at), *)
(* so a job that keeps being claimable is claimed: strong fairness, since   *)
(* workers are busy from time to time.  Nobody is obliged to decide, revise *)
(* or retry.                                                                *)
(***************************************************************************)
Fairness ==
  /\ \A v \in Versions : SF_vars(\E w \in Workers : ClaimJob(w, v))
  /\ SF_vars(\E w \in Workers : ClaimNothing(w))
  /\ \A w \in Workers : WF_vars(FinishStep(w))
  /\ \A v \in Versions : WF_vars(LeaseLapses(v)) /\ WF_vars(BackoffElapses(v))

FairSpec == Spec /\ Fairness

-----------------------------------------------------------------------------
TypeOK ==
  /\ latest \in Versions
  /\ review \in [Versions -> ReviewStates]
  /\ processing \in [Versions -> ProcessingStates]
  /\ publication \in [Versions -> PublicationStates]
  /\ expiry \in [Versions -> Expiries]
  /\ openFinding \in [Versions -> BOOLEAN]
  /\ reqState \in [Versions -> RequestStates]
  /\ steps \in [Versions -> Seq(Steps)]
  /\ job \in [Versions -> Jobs]
  /\ current \in Versions \cup {NoVersion}
  /\ withdrawn \in BOOLEAN
  /\ access \in SUBSET People
  /\ rule \in {1, 2}
  /\ claim \in [Workers -> Versions \cup {NoVersion}]

(***************************************************************************)
(* Safety invariants.                                                       *)
(***************************************************************************)

\* is_active_version: what search, the reader and the assistant serve.
Active(v) == /\ v = current /\ ~withdrawn /\ expiry[v] # "past"
             /\ review[v] = "approved"
             /\ processing[v] = "ready" /\ publication[v] = "published"

\* A version that was ever published, and only such a version, has a finished
\* index; its request is still approved, by as many different people as it asked
\* for, none of them the owner, and no finding was left open.  Whatever happened
\* between its approval, the claim of its job and the swap did not take a part
\* of that away.
EverPublished ==
  \A v \in Versions :
    /\ publication[v] # "unpublished" <=> processing[v] = "ready"
    /\ publication[v] # "unpublished" =>
         /\ review[v] = "approved" /\ reqState[v] = "approved"
         /\ FullyApproved(v) /\ ~openFinding[v]
         /\ Owner \notin StepReviewers(v)
         /\ Len(steps[v]) > 0
         /\ \A i, j \in DOMAIN steps[v] :
              steps[v][i].reviewer = steps[v][j].reviewer => i = j

\* documents.current_version_id and document_versions.publication_state, written
\* by separate statements of publish and withdraw, never disagree: the published
\* version is the current one of a document that is not withdrawn.
PointerAgrees ==
  \A v \in Versions : publication[v] = "published" <=> v = current /\ ~withdrawn

\* A job that can still be claimed, or brought back by retry_publication, belongs
\* to an approval nobody has called off on a document nobody has withdrawn, and to
\* a version that has not been published.  This is why a job left behind by a
\* revision or a withdrawal can publish nothing.
OpenJobIsWanted ==
  \A v \in Versions : job[v].state \in Unsettled =>
    /\ review[v] = "approved" /\ reqState[v] = "approved"
    /\ publication[v] = "unpublished" /\ ~withdrawn

(***************************************************************************)
(* Action properties.                                                       *)
(***************************************************************************)

\* The pointer only moves to a newer version that was never published, and never
\* on a withdrawn document: no job is applied twice or out of order, whichever
\* worker finishes last.
PointerMovesForward ==
  [][current' # current =>
       /\ current' > current
       /\ publication[current'] = "unpublished"
       /\ ~withdrawn']_vars

\* At the moment of the swap the approval still meets the rules and the access
\* rights then in force, not those at the time of the decisions: enough of the
\* approvers are still eligible, the author still has access, the version has not
\* expired.
PublishedUnderRulesInForce ==
  [][current' # current =>
       LET v == current' IN
       /\ Cardinality({p \in StepReviewers(v) : ReviewerEligible(p)}) >= rule
       /\ StepReviewers(v) \subseteq access
       /\ Owner \in access
       /\ expiry[v] # "past"
       /\ ~openFinding[v]]_vars

\* Readers never lose a valid version to a revision, a rejection or a failed
\* index: it goes when it expires, when the document is withdrawn, or in the same
\* step in which a newer version takes its place.
OldVersionStaysUntilSwap ==
  [][\A v \in Versions : Active(v) /\ ~Active(v)' =>
       \/ withdrawn'
       \/ expiry'[v] = "past"
       \/ \E n \in Versions \ {v} : Active(n)']_vars

\* While a lease is in force nobody but its holder decides the fate of the job:
\* another worker can neither take it over nor settle it.  The owner may cancel it.
LeaseFences ==
  [][\A v \in Versions, w \in Workers : HoldsLease(w, v) /\ job'[v] # job[v] =>
       \/ claim[w] = v /\ claim'[w] = NoVersion
       \/ job'[v] = [job[v] EXCEPT !.leased = FALSE]
       \/ /\ job'[v].state = "cancelled"
          /\ withdrawn' \/ latest' > latest]_vars

(***************************************************************************)
(* Liveness.                                                                *)
(***************************************************************************)

\* A queued publication comes to an end, whatever crashes and failures happen on
\* the way: it is published, cancelled, or dead for the owner to retry.  It is
\* never stuck in a lease nobody holds.
JobsSettle ==
  \A v \in Versions :
    job[v].state \in {"pending", "running"} ~> job[v].state \in {"done", "dead", "cancelled"}

(***************************************************************************)
(* Refinement: the document, without reviewers, queues and workers.         *)
(***************************************************************************)
StageOf(v) ==
  IF review[v] = "absent" THEN "absent"
  ELSE IF reqState[v] = "cancelled" THEN "called_off"
  ELSE IF review[v] = "approved" THEN "approved"
  ELSE IF review[v] \in {"rejected", "changes_requested"} THEN "closed"
  ELSE "open"

Lifecycle == INSTANCE DocumentLifecycle WITH
  stage <- [v \in Versions |-> StageOf(v)], live <- current, retired <- withdrawn

\* The detailed system implements the lifecycle it promises.
ImplementsLifecycle == Lifecycle!Spec
=============================================================================
