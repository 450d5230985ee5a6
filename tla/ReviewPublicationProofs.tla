----------------------- MODULE ReviewPublicationProofs -----------------------
(***************************************************************************)
(* Proofs, for every number of people, workers, versions and attempts, of   *)
(* what the runs check of ReviewPublication on small instances.             *)
(*                                                                          *)
(* EverPublished, PointerAgrees and OpenJobIsWanted are not inductive, not  *)
(* even together: that a revision never cancels the request of a version    *)
(* that was published rests on published versions never being newer than   *)
(* the current one, and that the job of an old approval is refused after a  *)
(* newer publication rests on review_state and request agreeing.  IInv adds *)
(* those facts.                                                             *)
(***************************************************************************)
EXTENDS ReviewPublication, SequenceTheorems, TLAPS

-----------------------------------------------------------------------------
(* The inductive invariant.                                                 *)

\* The versions inserted so far are 1..latest; the rest is as Init left it.
InsertedUpToLatest ==
  \A v \in Versions : review[v] = "absent" <=> v > latest

\* review_state and the state of the request, written by separate statements, agree:
\* nothing but cancellation takes them apart.
RequestAgrees ==
  \A v \in Versions :
    /\ review[v] \in {"absent", "draft"} <=> reqState[v] = "none"
    /\ reqState[v] = "pending" => review[v] = "in_review" /\ v = latest
    /\ reqState[v] = "approved" =>
         review[v] = "approved" /\ FullyApproved(v) /\ ~openFinding[v]
    /\ review[v] = "approved" => reqState[v] \in {"approved", "cancelled"}

\* A stored request has one step at least, for different people, none of them the owner.
StepsAreFit(v) ==
  /\ Len(steps[v]) > 0
  /\ \A i \in DOMAIN steps[v] : steps[v][i].reviewer # Owner
  /\ \A i, j \in DOMAIN steps[v] : steps[v][i].reviewer = steps[v][j].reviewer => i = j

ReviewersAreFit == \A v \in Versions : reqState[v] # "none" => StepsAreFit(v)

\* What was ever published is not newer than the pointer, and the pointer is on
\* something that was published.
PublishedUpToCurrent ==
  /\ current <= latest
  /\ \A v \in Versions : publication[v] # "unpublished" => v <= current
  /\ current # NoVersion => publication[current] # "unpublished"

\* The part of EverPublished that does not follow from the agreement of the request.
PublishedStaysApproved ==
  \A v \in Versions : /\ publication[v] # "unpublished" <=> processing[v] = "ready"
                      /\ publication[v] # "unpublished" => reqState[v] = "approved"

IInv ==
  /\ TypeOK
  /\ InsertedUpToLatest
  /\ RequestAgrees
  /\ ReviewersAreFit
  /\ PublishedUpToCurrent
  /\ PublishedStaysApproved
  /\ PointerAgrees
  /\ OpenJobIsWanted

-----------------------------------------------------------------------------
(* Types.                                                                   *)

\* Replacing one element of a sequence by a value of its type keeps the type.
LEMMA ReplaceElement ==
  ASSUME NEW S, NEW s \in Seq(S), NEW i \in DOMAIN s, NEW e \in S
  PROVE  [s EXCEPT ![i] = e] \in Seq(S)
OBVIOUS

\* Every field the SQL functions update in an outbox row keeps it an outbox row.
LEMMA JobUpdates ==
  ASSUME NEW j \in Jobs, NEW s \in JobStates, NEW a \in BOOLEAN, NEW b \in BOOLEAN
  PROVE  /\ [j EXCEPT !.state = s] \in Jobs
         /\ [j EXCEPT !.state = s, !.leased = a] \in Jobs
         /\ [j EXCEPT !.state = s, !.leased = a, !.due = b] \in Jobs
         /\ [j EXCEPT !.leased = a] \in Jobs
         /\ [j EXCEPT !.due = b] \in Jobs
BY DEF Jobs

\* Claiming a claimable job does not exceed the attempts.
LEMMA LeasedIsJob ==
  ASSUME NEW j \in Jobs, Claimable(j), NEW w \in Workers
  PROVE  Leased(j, w) \in Jobs
<1>1. j.attempts + 1 \in 0..MaxAttempts
  BY BoundsAssumption DEF Claimable, Jobs
<1>2. "running" \in JobStates
  BY DEF JobStates
<1> QED
  BY <1>1, <1>2 DEF Leased, Jobs

\* Cancelling jobs, and sweeping them, yields jobs.
LEMMA JobsStayJobs ==
  ASSUME TypeOK, NEW S
  PROVE  CancelJobs(S) \in [Versions -> Jobs] /\ Swept \in [Versions -> Jobs]
<1>1. \A v \in Versions, s \in JobStates : [job[v] EXCEPT !.state = s] \in Jobs
  BY JobUpdates DEF TypeOK
<1>2. "cancelled" \in JobStates /\ "dead" \in JobStates
  BY DEF JobStates
<1> QED
  BY <1>1, <1>2 DEF TypeOK, CancelJobs, Swept

LEMMA FreshJobsAreJobs == NoJob \in Jobs /\ PendingJob \in Jobs
BY BoundsAssumption DEF NoJob, PendingJob, Jobs, JobStates

\* Recording a decision keeps the steps typed and changes only that decision.
LEMMA DecisionKeepsSteps ==
  ASSUME TypeOK, NEW v \in Versions, NEW i \in DOMAIN steps[v], NEW d \in Decisions
  PROVE  [steps EXCEPT ![v][i].decision = d] \in [Versions -> Seq(Steps)]
<1>1. steps[v] \in Seq(Steps) /\ steps[v][i] \in Steps
  BY DEF TypeOK
<1>2. [steps[v][i] EXCEPT !.decision = d] \in Steps
  BY <1>1 DEF Steps
<1>3. [steps[v] EXCEPT ![i] = [steps[v][i] EXCEPT !.decision = d]] \in Seq(Steps)
  BY <1>1, <1>2, ReplaceElement
<1>4. [steps EXCEPT ![v] = [steps[v] EXCEPT ![i] = [steps[v][i] EXCEPT !.decision = d]]]
        \in [Versions -> Seq(Steps)]
  BY <1>3 DEF TypeOK
<1> QED
  BY <1>4

LEMMA InitTyped == Init => TypeOK
<1> SUFFICES ASSUME Init PROVE TypeOK
  OBVIOUS
<1>1. latest \in Versions /\ current \in Versions \cup {NoVersion}
  BY BoundsAssumption DEF Init, Versions, NoVersion
<1>2. <<>> \in Seq(Steps)
  OBVIOUS
<1>3. steps \in [Versions -> Seq(Steps)] /\ job \in [Versions -> Jobs]
  BY <1>2, FreshJobsAreJobs DEF Init
<1>4. /\ review \in [Versions -> ReviewStates]
      /\ processing \in [Versions -> ProcessingStates]
      /\ publication \in [Versions -> PublicationStates]
      /\ expiry \in [Versions -> Expiries]
      /\ openFinding \in [Versions -> BOOLEAN]
      /\ reqState \in [Versions -> RequestStates]
  BY DEF Init, ReviewStates, ProcessingStates, PublicationStates, Expiries, RequestStates
<1>5. /\ withdrawn \in BOOLEAN
      /\ access \in SUBSET People
      /\ rule \in {1, 2}
      /\ claim \in [Workers -> Versions \cup {NoVersion}]
  BY DEF Init
<1> QED
  BY <1>1, <1>3, <1>4, <1>5 DEF TypeOK

LEMMA NextTyped == TypeOK /\ [Next]_vars => TypeOK'
<1> SUFFICES ASSUME TypeOK, [Next]_vars PROVE TypeOK'
  OBVIOUS
<1> USE DEF TypeOK
<1>1. CASE CommitRevision
  <2>1. latest' \in Versions
    BY <1>1, BoundsAssumption DEF CommitRevision, InsertDraft, Versions
  <2>2. review' \in [Versions -> ReviewStates]
    BY <1>1 DEF CommitRevision, InsertDraft, ReviewStates
  <2>3. reqState' \in [Versions -> RequestStates]
    BY <1>1 DEF CommitRevision, RequestStates
  <2>4. job' \in [Versions -> Jobs]
    BY <1>1, JobsStayJobs DEF CommitRevision
  <2> QED
    BY <1>1, <2>1, <2>2, <2>3, <2>4 DEF CommitRevision, docVars, adminVars
<1>2. CASE Rollback
  <2>1. latest' \in Versions
    BY <1>2, BoundsAssumption DEF Rollback, InsertDraft, Versions
  <2>2. review' \in [Versions -> ReviewStates]
    BY <1>2 DEF Rollback, InsertDraft, ReviewStates
  <2> QED
    BY <1>2, <2>1, <2>2 DEF Rollback, requestVars, docVars, adminVars
<1>3. ASSUME NEW reviewers \in [1..rule -> People], NEW f \in BOOLEAN,
             NEW e \in {"never", "future"}, Submit(reviewers, f, e)
      PROVE  TypeOK'
  <2>1. [i \in 1..rule |-> [reviewer |-> reviewers[i], decision |-> "undecided"]] \in Seq(Steps)
    BY DEF Steps
  <2>2. steps' \in [Versions -> Seq(Steps)]
    BY <1>3, <2>1 DEF Submit
  <2>3. /\ review' \in [Versions -> ReviewStates]
        /\ reqState' \in [Versions -> RequestStates]
        /\ expiry' \in [Versions -> Expiries]
        /\ openFinding' \in [Versions -> BOOLEAN]
    BY <1>3 DEF Submit, ReviewStates, RequestStates, Expiries
  <2> QED
    BY <1>3, <2>2, <2>3 DEF Submit, docVars, adminVars
<1>4. ASSUME NEW v \in Versions, Retry(v) PROVE TypeOK'
  BY <1>4, FreshJobsAreJobs DEF Retry, requestVars, docVars, adminVars, ProcessingStates
<1>5. CASE Withdraw
  <2>1. job' \in [Versions -> Jobs]
    BY <1>5, JobsStayJobs DEF Withdraw, WithdrawEffect
  <2> QED
    BY <1>5, <2>1 DEF Withdraw, WithdrawEffect, adminVars, PublicationStates, RequestStates
<1>6. ASSUME NEW v \in Versions, NEW p \in People, ResolveFinding(v, p) PROVE TypeOK'
  BY <1>6 DEF ResolveFinding, requestVars, docVars, adminVars
<1>7. ASSUME NEW v \in Versions, NEW i \in DOMAIN steps[v], Approve(v, i) PROVE TypeOK'
  <2>1. steps' \in [Versions -> Seq(Steps)]
    BY <1>7, DecisionKeepsSteps DEF Approve, Decisions
  <2>2. review' \in [Versions -> ReviewStates] /\ reqState' \in [Versions -> RequestStates]
    BY <1>7 DEF Approve, ReviewStates, RequestStates
  <2>3. processing' \in [Versions -> ProcessingStates]
    BY <1>7 DEF Approve, ProcessingStates
  <2>4. job' \in [Versions -> Jobs]
    BY <1>7, FreshJobsAreJobs DEF Approve
  <2> QED
    BY <1>7, <2>1, <2>2, <2>3, <2>4 DEF Approve, docVars, adminVars
<1>8. ASSUME NEW v \in Versions, NEW i \in DOMAIN steps[v], NEW d \in Decisions \ {"approve"},
             TurnDown(v, i, d)
      PROVE  TypeOK'
  <2>1. steps' \in [Versions -> Seq(Steps)]
    BY <1>8, DecisionKeepsSteps DEF TurnDown
  <2>2. review' \in [Versions -> ReviewStates] /\ reqState' \in [Versions -> RequestStates]
    BY <1>8 DEF TurnDown, ReviewStates, RequestStates
  <2> QED
    BY <1>8, <2>1, <2>2 DEF TurnDown, docVars, adminVars
<1>9. ASSUME NEW w \in Workers, ClaimNothing(w) PROVE TypeOK'
  BY <1>9, JobsStayJobs
     DEF ClaimNothing, versionVars, requestVars, docVars, adminVars
<1>10. ASSUME NEW w \in Workers, NEW v \in Versions, ClaimJob(w, v) PROVE TypeOK'
  <2>1. Leased(job[v], w) \in Jobs
    BY <1>10, LeasedIsJob DEF ClaimJob
  <2>2. job' \in [Versions -> Jobs]
    BY <1>10, <2>1, JobsStayJobs DEF ClaimJob
  <2> QED
    BY <1>10, <2>2 DEF ClaimJob, versionVars, requestVars, docVars, adminVars
<1>11. ASSUME NEW w \in Workers, Publish(w) PROVE TypeOK'
  <2>1. claim[w] \in Versions
    BY <1>11 DEF Publish, NoVersion
  <2>2. job' \in [Versions -> Jobs]
    <3>1. [job[claim[w]] EXCEPT !.state = "done", !.leased = FALSE] \in Jobs
      BY <2>1, JobUpdates DEF JobStates
    <3> QED
      BY <1>11, <2>1, <3>1 DEF Publish
  <2>3. publication' \in [Versions -> PublicationStates]
    BY <1>11 DEF Publish, SwapTo, PublicationStates
  <2> QED
    BY <1>11, <2>1, <2>2, <2>3
       DEF Publish, Release, requestVars, adminVars, ProcessingStates
<1>12. ASSUME NEW w \in Workers, PublishStale(w) PROVE TypeOK'
  <2>1. claim[w] \in Versions
    BY <1>12 DEF PublishStale, NoVersion
  <2>2. job' \in [Versions -> Jobs]
    <3>1. [job[claim[w]] EXCEPT !.state = "cancelled"] \in Jobs
      BY <2>1, JobUpdates DEF JobStates
    <3> QED
      BY <1>12, <2>1, <3>1 DEF PublishStale
  <2>3. processing' \in [Versions -> ProcessingStates]
    BY <1>12, <2>1 DEF PublishStale, FailUnpublished, ProcessingStates
  <2> QED
    BY <1>12, <2>2, <2>3 DEF PublishStale, Release, requestVars, docVars, adminVars
<1>13. ASSUME NEW w \in Workers, Fail(w) PROVE TypeOK'
  <2>1. claim[w] \in Versions
    BY <1>13 DEF Fail, NoVersion
  <2>2. job' \in [Versions -> Jobs]
    <3>1. \A s \in JobStates :
            [job[claim[w]] EXCEPT !.state = s, !.leased = FALSE, !.due = FALSE] \in Jobs
      BY <2>1, JobUpdates
    <3>2. CASE job[claim[w]].state = "running" /\ job[claim[w]].holder = w
      <4> DEFINE outcome == IF job[claim[w]].attempts >= MaxAttempts THEN "dead" ELSE "pending"
      <4>1. outcome \in JobStates
        BY DEF JobStates
      <4>2. job' = [job EXCEPT ![claim[w]] =
                      [job[claim[w]] EXCEPT !.state = outcome, !.leased = FALSE, !.due = FALSE]]
        BY <1>13, <3>2 DEF Fail
      <4> HIDE DEF outcome
      <4> QED
        BY <2>1, <3>1, <4>1, <4>2
    <3>3. CASE ~(job[claim[w]].state = "running" /\ job[claim[w]].holder = w)
      BY <1>13, <3>3 DEF Fail
    <3> QED
      BY <3>2, <3>3
  <2>3. processing' \in [Versions -> ProcessingStates]
    BY <1>13, <2>1 DEF Fail, FailUnpublished, ProcessingStates
  <2> QED
    BY <1>13, <2>2, <2>3 DEF Fail, Release, requestVars, docVars, adminVars
<1>14. ASSUME NEW w \in Workers, Crash(w) PROVE TypeOK'
  BY <1>14 DEF Crash, Release, versionVars, requestVars, docVars, adminVars
<1>15. ASSUME NEW v \in Versions, LeaseLapses(v) \/ BackoffElapses(v) PROVE TypeOK'
  <2>1. job' \in [Versions -> Jobs]
    <3>1. \A b \in BOOLEAN : [job[v] EXCEPT !.leased = b] \in Jobs /\ [job[v] EXCEPT !.due = b] \in Jobs
      BY JobUpdates DEF JobStates
    <3> QED
      BY <1>15, <3>1 DEF LeaseLapses, BackoffElapses
  <2> QED
    BY <1>15, <2>1 DEF LeaseLapses, BackoffElapses, versionVars, requestVars, docVars, adminVars
<1>16. ASSUME NEW v \in Versions, Expire(v) PROVE TypeOK'
  BY <1>16 DEF Expire, requestVars, docVars, adminVars, Expiries
<1>17. CASE AdminStep
  BY <1>17, PeopleAssumption
     DEF AdminStep, ChangeRule, ChangeAccess, versionVars, requestVars, docVars
<1>18. CASE UNCHANGED vars
  BY <1>18 DEF vars, versionVars, requestVars, docVars, adminVars
<1> QED
  BY <1>1, <1>2, <1>3, <1>4, <1>5, <1>6, <1>7, <1>8, <1>9, <1>10, <1>11, <1>12, <1>13,
     <1>14, <1>15, <1>16, <1>17, <1>18
     DEF Next, OwnerStep, ReviewerStep, ClaimStep, FinishStep, ClockStep

\* Every variable stays within its type, attempts within the limit included,
\* however many people, workers, versions and attempts there are.
THEOREM TypeCorrect == Spec => []TypeOK
BY InitTyped, NextTyped, PTL DEF Spec

-----------------------------------------------------------------------------
(* The inductive invariant holds initially and implies what the runs check.  *)

LEMMA InitSafe == Init => IInv
<1> SUFFICES ASSUME Init PROVE IInv
  OBVIOUS
<1>1. TypeOK
  BY InitTyped
<1>2. InsertedUpToLatest /\ RequestAgrees /\ ReviewersAreFit
  BY BoundsAssumption DEF Init, InsertedUpToLatest, RequestAgrees, ReviewersAreFit, Versions
<1>3. PublishedUpToCurrent /\ PublishedStaysApproved /\ PointerAgrees
  BY DEF Init, PublishedUpToCurrent, PublishedStaysApproved, PointerAgrees, Versions, NoVersion
<1>4. OpenJobIsWanted
  BY DEF Init, OpenJobIsWanted, NoJob, Unsettled
<1> QED
  BY <1>1, <1>2, <1>3, <1>4 DEF IInv

LEMMA SafeIsEnough == IInv => EverPublished /\ PointerAgrees /\ OpenJobIsWanted
<1> SUFFICES ASSUME IInv, NEW v \in Versions, publication[v] # "unpublished"
             PROVE  /\ review[v] = "approved" /\ reqState[v] = "approved"
                    /\ FullyApproved(v) /\ ~openFinding[v]
                    /\ Owner \notin StepReviewers(v)
                    /\ Len(steps[v]) > 0
                    /\ \A i, j \in DOMAIN steps[v] :
                         steps[v][i].reviewer = steps[v][j].reviewer => i = j
  BY DEF IInv, EverPublished, PublishedStaysApproved
<1>1. reqState[v] = "approved"
  BY DEF IInv, PublishedStaysApproved
<1>2. review[v] = "approved" /\ FullyApproved(v) /\ ~openFinding[v]
  BY <1>1 DEF IInv, RequestAgrees
<1>3. StepsAreFit(v)
  BY <1>1 DEF IInv, ReviewersAreFit
<1> QED
  BY <1>1, <1>2, <1>3 DEF StepsAreFit, StepReviewers

-----------------------------------------------------------------------------
(* What the steps of a request look like after a decision.                  *)

LEMMA DecisionEffect ==
  ASSUME TypeOK, NEW v \in Versions, NEW i \in DOMAIN steps[v], NEW d \in Decisions,
         steps' = [steps EXCEPT ![v][i].decision = d]
  PROVE  /\ \A n \in Versions : n # v => steps'[n] = steps[n]
         /\ DOMAIN steps'[v] = DOMAIN steps[v] /\ Len(steps'[v]) = Len(steps[v])
         /\ \A k \in DOMAIN steps[v] :
              /\ steps'[v][k].reviewer = steps[v][k].reviewer
              /\ steps'[v][k].decision = IF k = i THEN d ELSE steps[v][k].decision
<1>1. steps[v] \in Seq(Steps) /\ steps[v][i] \in Steps
  BY DEF TypeOK
<1>2. steps'[v] = [steps[v] EXCEPT ![i] = [steps[v][i] EXCEPT !.decision = d]]
  BY DEF TypeOK
<1>3. \A k \in DOMAIN steps[v] :
        steps'[v][k] = IF k = i THEN [steps[v][i] EXCEPT !.decision = d] ELSE steps[v][k]
  BY <1>1, <1>2
<1>4. /\ [steps[v][i] EXCEPT !.decision = d].reviewer = steps[v][i].reviewer
      /\ [steps[v][i] EXCEPT !.decision = d].decision = d
  BY <1>1 DEF Steps
<1>5. DOMAIN steps'[v] = DOMAIN steps[v] /\ Len(steps'[v]) = Len(steps[v])
  BY <1>1, <1>2
<1>6. \A n \in Versions : n # v => steps'[n] = steps[n]
  BY DEF TypeOK
<1>7. ASSUME NEW k \in DOMAIN steps[v]
      PROVE  /\ steps'[v][k].reviewer = steps[v][k].reviewer
             /\ steps'[v][k].decision = IF k = i THEN d ELSE steps[v][k].decision
  <2>1. CASE k = i
    BY <1>3, <1>4, <2>1
  <2>2. CASE k # i
    BY <1>3, <2>2
  <2> QED
    BY <2>1, <2>2
<1> QED
  BY <1>5, <1>6, <1>7

\* A decision changes neither the number nor the people of any request.
LEMMA DecisionKeepsReviewers ==
  ASSUME IInv, NEW v \in Versions, NEW i \in DOMAIN steps[v], NEW d \in Decisions,
         steps' = [steps EXCEPT ![v][i].decision = d],
         reqState[v] # "none", \A n \in Versions : n # v => reqState'[n] = reqState[n]
  PROVE  ReviewersAreFit'
<1>1. TypeOK
  BY DEF IInv
<1>2. StepsAreFit(v)
  BY DEF IInv, ReviewersAreFit
<1>3. StepsAreFit(v)'
  BY <1>1, <1>2, DecisionEffect DEF StepsAreFit
<1>4. \A n \in Versions : n # v /\ reqState'[n] # "none" => StepsAreFit(n)'
  BY <1>1, DecisionEffect DEF IInv, ReviewersAreFit, StepsAreFit
<1> QED
  BY <1>3, <1>4 DEF ReviewersAreFit

\* Where nothing is inserted, decided or called off, requests stay as they are.
LEMMA RequestsUntouched ==
  ASSUME IInv, UNCHANGED <<latest, review, reqState, steps, openFinding>>
  PROVE  InsertedUpToLatest' /\ RequestAgrees' /\ ReviewersAreFit'
<1>1. InsertedUpToLatest'
  BY DEF IInv, InsertedUpToLatest
<1>2. RequestAgrees'
  BY DEF IInv, RequestAgrees, FullyApproved
<1>3. ReviewersAreFit'
  BY DEF IInv, ReviewersAreFit, StepsAreFit
<1> QED
  BY <1>1, <1>2, <1>3

\* Where no document row and no publication state is written, the pointer agrees.
LEMMA PointerUntouched ==
  ASSUME IInv, UNCHANGED <<publication, current, withdrawn>>, latest' >= latest, latest' \in Nat
  PROVE  PublishedUpToCurrent' /\ PointerAgrees'
<1>1. latest \in Nat /\ current \in Nat
  BY DEF IInv, TypeOK, Versions, NoVersion
<1>2. PublishedUpToCurrent'
  BY <1>1 DEF IInv, PublishedUpToCurrent
<1>3. PointerAgrees'
  BY DEF IInv, PointerAgrees
<1> QED
  BY <1>2, <1>3

-----------------------------------------------------------------------------
(* The owner's steps keep the invariant.                                    *)

\* No published version is newer than the pointer, so the base of a revision was
\* published only if it is the current version, whose request is left alone.
LEMMA CommitRevisionSafe == IInv /\ TypeOK' /\ CommitRevision => IInv'
<1> SUFFICES ASSUME IInv, TypeOK', CommitRevision PROVE IInv'
  OBVIOUS
<1>1. /\ TypeOK /\ latest \in Versions /\ latest + 1 \in Versions /\ latest' = latest + 1
      /\ \A v \in Versions : v \in Nat
  BY BoundsAssumption DEF IInv, TypeOK, CommitRevision, InsertDraft, Versions
<1>2. /\ review' = [review EXCEPT ![latest + 1] = "draft"]
      /\ ~withdrawn
      /\ reqState' = IF \/ reqState[latest] = "pending"
                        \/ reqState[latest] = "approved" /\ latest # current
                       THEN [reqState EXCEPT ![latest] = "cancelled"] ELSE reqState
      /\ job' = CancelJobs({latest} \ {current})
      /\ UNCHANGED <<processing, publication, openFinding, steps, current, withdrawn>>
  BY DEF CommitRevision, InsertDraft, OwnerMayAct, docVars
<1>3. \A v \in Versions : v > latest => review[v] = "absent" /\ reqState[v] = "none"
  BY <1>1 DEF IInv, InsertedUpToLatest, RequestAgrees
<1>4. \A v \in Versions : /\ v # latest => reqState'[v] = reqState[v]
                          /\ v # latest + 1 => review'[v] = review[v]
  BY <1>1, <1>2 DEF TypeOK
<1>5. review'[latest + 1] = "draft" /\ reqState'[latest + 1] = "none"
  BY <1>1, <1>2, <1>3, <1>4 DEF TypeOK
<1>6. /\ reqState'[latest] \in {reqState[latest], "cancelled"}
      /\ reqState'[latest] # "pending"
      /\ reqState'[latest] = "none" <=> reqState[latest] = "none"
      /\ reqState[latest] = "approved" /\ latest = current => reqState'[latest] = "approved"
  BY <1>1, <1>2 DEF TypeOK
<1>7. InsertedUpToLatest'
  BY <1>1, <1>4, <1>5 DEF IInv, InsertedUpToLatest
<1>8. RequestAgrees'
  <2> SUFFICES ASSUME NEW v \in Versions
               PROVE  /\ review'[v] \in {"absent", "draft"} <=> reqState'[v] = "none"
                      /\ reqState'[v] = "pending" => review'[v] = "in_review" /\ v = latest'
                      /\ reqState'[v] = "approved" =>
                           review'[v] = "approved" /\ FullyApproved(v)' /\ ~openFinding'[v]
                      /\ review'[v] = "approved" => reqState'[v] \in {"approved", "cancelled"}
    BY DEF RequestAgrees
  <2>1. CASE v = latest + 1
    BY <1>5, <2>1
  <2>2. CASE v # latest + 1
    BY <1>1, <1>2, <1>4, <1>6, <2>2 DEF IInv, RequestAgrees, FullyApproved
  <2> QED
    BY <2>1, <2>2
<1>9. ReviewersAreFit'
  BY <1>2, <1>4, <1>6 DEF IInv, ReviewersAreFit, StepsAreFit
<1>10. PublishedUpToCurrent' /\ PointerAgrees'
  BY <1>1, <1>2, PointerUntouched DEF Versions
<1>11. PublishedStaysApproved'
  <2> SUFFICES ASSUME NEW v \in Versions, publication[v] # "unpublished"
               PROVE  reqState'[v] = "approved"
    BY <1>2 DEF IInv, PublishedStaysApproved
  <2>1. v <= current /\ current <= latest /\ current \in Nat /\ reqState[v] = "approved"
    BY DEF IInv, PublishedUpToCurrent, PublishedStaysApproved, TypeOK, NoVersion, Versions
  <2> QED
    BY <1>1, <1>4, <1>6, <2>1
<1>12. OpenJobIsWanted'
  <2> SUFFICES ASSUME NEW v \in Versions, job'[v].state \in Unsettled
               PROVE  /\ review'[v] = "approved" /\ reqState'[v] = "approved"
                      /\ publication'[v] = "unpublished" /\ ~withdrawn'
    BY DEF OpenJobIsWanted
  <2>1. job[v].state \in Unsettled /\ v \notin {latest} \ {current}
    BY <1>2 DEF CancelJobs, Unsettled, IInv, TypeOK, Jobs
  <2>2. /\ review[v] = "approved" /\ reqState[v] = "approved"
        /\ publication[v] = "unpublished"
    BY <2>1 DEF IInv, OpenJobIsWanted
  <2>3. review'[v] = "approved" /\ reqState'[v] = "approved"
    BY <1>1, <1>3, <1>4, <1>6, <2>1, <2>2
  <2> QED
    BY <1>2, <2>2, <2>3
<1> QED
  BY <1>7, <1>8, <1>9, <1>10, <1>11, <1>12 DEF IInv

\* The latest version is settled, so no request is pending when a copy is inserted.
LEMMA RollbackSafe == IInv /\ TypeOK' /\ Rollback => IInv'
<1> SUFFICES ASSUME IInv, TypeOK', Rollback PROVE IInv'
  OBVIOUS
<1>1. /\ TypeOK /\ latest \in Versions /\ latest + 1 \in Versions /\ latest' = latest + 1
      /\ \A v \in Versions : v \in Nat
  BY BoundsAssumption DEF IInv, TypeOK, Rollback, InsertDraft, Versions
<1>2. /\ review' = [review EXCEPT ![latest + 1] = "draft"]
      /\ review[latest] # "in_review"
      /\ UNCHANGED <<processing, publication, openFinding, reqState, steps, job, current, withdrawn>>
  BY DEF Rollback, InsertDraft, requestVars, docVars
<1>3. \A v \in Versions : v > latest => review[v] = "absent" /\ reqState[v] = "none"
  BY <1>1 DEF IInv, InsertedUpToLatest, RequestAgrees
<1>4. \A v \in Versions : v # latest + 1 => review'[v] = review[v]
  BY <1>1, <1>2 DEF TypeOK
<1>5. review'[latest + 1] = "draft" /\ reqState[latest + 1] = "none"
  BY <1>1, <1>2, <1>3 DEF TypeOK
<1>6. InsertedUpToLatest'
  BY <1>1, <1>4, <1>5 DEF IInv, InsertedUpToLatest
<1>7. RequestAgrees'
  <2> SUFFICES ASSUME NEW v \in Versions
               PROVE  /\ review'[v] \in {"absent", "draft"} <=> reqState'[v] = "none"
                      /\ reqState'[v] = "pending" => review'[v] = "in_review" /\ v = latest'
                      /\ reqState'[v] = "approved" =>
                           review'[v] = "approved" /\ FullyApproved(v)' /\ ~openFinding'[v]
                      /\ review'[v] = "approved" => reqState'[v] \in {"approved", "cancelled"}
    BY DEF RequestAgrees
  <2>1. CASE v = latest + 1
    BY <1>2, <1>5, <2>1
  <2>2. CASE v # latest + 1
    BY <1>1, <1>2, <1>4, <2>2 DEF IInv, RequestAgrees, FullyApproved
  <2> QED
    BY <2>1, <2>2
<1>8. ReviewersAreFit' /\ PublishedStaysApproved'
  BY <1>2 DEF IInv, ReviewersAreFit, StepsAreFit, PublishedStaysApproved
<1>9. PublishedUpToCurrent' /\ PointerAgrees'
  BY <1>1, <1>2, PointerUntouched DEF Versions
<1>10. OpenJobIsWanted'
  BY <1>1, <1>2, <1>3, <1>4 DEF IInv, OpenJobIsWanted
<1> QED
  BY <1>6, <1>7, <1>8, <1>9, <1>10 DEF IInv

LEMMA SubmitSafe ==
  ASSUME IInv, TypeOK', NEW reviewers \in [1..rule -> People], NEW f \in BOOLEAN,
         NEW e \in {"never", "future"}, Submit(reviewers, f, e)
  PROVE  IInv'
<1> DEFINE v == latest
           asked == [i \in 1..rule |-> [reviewer |-> reviewers[i], decision |-> "undecided"]]
<1>1. /\ TypeOK /\ v \in Versions /\ review[v] = "draft" /\ ~withdrawn
      /\ review' = [review EXCEPT ![v] = "in_review"]
      /\ reqState' = [reqState EXCEPT ![v] = "pending"]
      /\ openFinding' = [openFinding EXCEPT ![v] = f]
      /\ steps' = [steps EXCEPT ![v] = asked]
      /\ UNCHANGED <<latest, processing, publication, job, current, withdrawn>>
  BY DEF IInv, TypeOK, Submit, OwnerMayAct, docVars
<1>2. reqState[v] = "none"
  BY <1>1 DEF IInv, RequestAgrees
<1>3. /\ review'[v] = "in_review" /\ reqState'[v] = "pending" /\ steps'[v] = asked
      /\ \A n \in Versions : n # v => /\ review'[n] = review[n] /\ reqState'[n] = reqState[n]
                                      /\ openFinding'[n] = openFinding[n] /\ steps'[n] = steps[n]
  BY <1>1 DEF TypeOK
<1>4. InsertedUpToLatest'
  BY <1>1, <1>3 DEF IInv, InsertedUpToLatest
<1>5. RequestAgrees'
  BY <1>1, <1>3 DEF IInv, RequestAgrees, FullyApproved
<1>6. ReviewersAreFit'
  <2>1. StepsAreFit(v)'
    <3>1. /\ rule \in {1, 2} /\ Len(asked) = rule /\ DOMAIN asked = 1..rule
          /\ \A i \in 1..rule : asked[i].reviewer = reviewers[i]
      BY <1>1 DEF TypeOK
    <3>2. /\ \A i \in 1..rule : reviewers[i] # Owner
          /\ \A i, j \in 1..rule : reviewers[i] = reviewers[j] => i = j
      BY DEF Submit, ReviewerEligible
    <3> HIDE DEF asked
    <3> QED
      BY <1>1, <1>3, <3>1, <3>2 DEF StepsAreFit
  <2>2. \A n \in Versions : n # v /\ reqState'[n] # "none" => StepsAreFit(n)'
    BY <1>3 DEF IInv, ReviewersAreFit, StepsAreFit
  <2> QED
    BY <1>1, <2>1, <2>2 DEF ReviewersAreFit
<1>7. PublishedUpToCurrent' /\ PointerAgrees'
  BY <1>1, PointerUntouched DEF Versions
<1>8. PublishedStaysApproved' /\ OpenJobIsWanted'
  BY <1>1, <1>2, <1>3 DEF IInv, PublishedStaysApproved, OpenJobIsWanted
<1> QED
  BY <1>4, <1>5, <1>6, <1>7, <1>8 DEF IInv

LEMMA RetrySafe == ASSUME IInv, TypeOK', NEW v \in Versions, Retry(v) PROVE IInv'
<1>1. /\ TypeOK /\ job[v].state = "dead"
      /\ job' = [job EXCEPT ![v] = PendingJob]
      /\ processing' = [processing EXCEPT ![v] = "indexing"]
      /\ UNCHANGED <<latest, review, reqState, steps, openFinding, publication, current, withdrawn>>
  BY DEF IInv, Retry, requestVars, docVars
<1>2. job[v].state \in Unsettled
  BY <1>1 DEF Unsettled
<1>3. publication[v] = "unpublished"
  BY <1>2 DEF IInv, OpenJobIsWanted
<1>4. InsertedUpToLatest' /\ RequestAgrees' /\ ReviewersAreFit'
  BY <1>1, RequestsUntouched
<1>5. PublishedUpToCurrent' /\ PointerAgrees'
  BY <1>1, PointerUntouched DEF TypeOK, Versions
<1>6. PublishedStaysApproved'
  BY <1>1, <1>3 DEF IInv, PublishedStaysApproved, TypeOK
<1>7. OpenJobIsWanted'
  BY <1>1, <1>2 DEF IInv, OpenJobIsWanted, TypeOK
<1> QED
  BY <1>4, <1>5, <1>6, <1>7 DEF IInv

\* What a withdrawal writes keeps the invariant, whoever asks for it and even if the
\* document is withdrawn already: the retention pass relies on this.
LEMMA WithdrawEffectSafe ==
  ASSUME IInv, TypeOK', WithdrawEffect,
         UNCHANGED <<latest, review, processing, openFinding, steps, current>>
  PROVE  IInv'
<1>1. /\ TypeOK /\ withdrawn'
      /\ \A v \in Versions :
           /\ publication'[v] = IF publication[v] = "published" THEN "withdrawn" ELSE publication[v]
           /\ reqState'[v] = IF reqState[v] = "pending" THEN "cancelled" ELSE reqState[v]
      /\ job' = CancelJobs(Versions)
      /\ UNCHANGED <<latest, review, processing, openFinding, steps, current>>
  BY DEF IInv, WithdrawEffect
<1>2. InsertedUpToLatest' /\ ReviewersAreFit'
  BY <1>1 DEF IInv, InsertedUpToLatest, ReviewersAreFit, StepsAreFit
<1>3. RequestAgrees'
  BY <1>1 DEF IInv, RequestAgrees, FullyApproved
<1>4. PublishedUpToCurrent' /\ PublishedStaysApproved'
  BY <1>1 DEF IInv, PublishedUpToCurrent, PublishedStaysApproved, TypeOK, NoVersion
<1>5. PointerAgrees'
  BY <1>1 DEF PointerAgrees
<1>6. OpenJobIsWanted'
  BY <1>1 DEF OpenJobIsWanted, CancelJobs, Unsettled, TypeOK, Jobs
<1> QED
  BY <1>2, <1>3, <1>4, <1>5, <1>6 DEF IInv

-----------------------------------------------------------------------------
(* A reviewer's steps keep the invariant.                                   *)

LEMMA ResolveFindingSafe ==
  ASSUME IInv, TypeOK', NEW v \in Versions, NEW p \in People, ResolveFinding(v, p)
  PROVE  IInv'
<1>1. /\ TypeOK
      /\ \A n \in Versions : openFinding'[n] => openFinding[n]
      /\ UNCHANGED <<latest, review, reqState, steps, processing, publication, job,
                     current, withdrawn>>
  BY DEF IInv, TypeOK, ResolveFinding, requestVars, docVars
<1>2. InsertedUpToLatest' /\ ReviewersAreFit'
  BY <1>1 DEF IInv, InsertedUpToLatest, ReviewersAreFit, StepsAreFit
<1>3. RequestAgrees'
  BY <1>1 DEF IInv, RequestAgrees, FullyApproved
<1>4. PublishedUpToCurrent' /\ PointerAgrees'
  BY <1>1, PointerUntouched DEF TypeOK, Versions
<1>5. PublishedStaysApproved' /\ OpenJobIsWanted'
  BY <1>1 DEF IInv, PublishedStaysApproved, OpenJobIsWanted
<1> QED
  BY <1>2, <1>3, <1>4, <1>5 DEF IInv

\* The last approval: every stage before it approved, so the request is fully approved.
LEMMA ApproveSafe ==
  ASSUME IInv, TypeOK', NEW v \in Versions, NEW i \in DOMAIN steps[v], Approve(v, i)
  PROVE  IInv'
<1>1. /\ TypeOK /\ reqState[v] = "pending" /\ review[v] = "in_review" /\ ~withdrawn
      /\ ~openFinding[v] /\ v = latest
      /\ \A k \in 1..(i - 1) : steps[v][k].decision = "approve"
      /\ steps' = [steps EXCEPT ![v][i].decision = "approve"]
      /\ UNCHANGED <<latest, publication, openFinding, current, withdrawn>>
  BY DEF IInv, RequestAgrees, Approve, MayDecide, docVars
<1>2. "approve" \in Decisions
  BY DEF Decisions
<1>3. /\ \A n \in Versions : n # v => steps'[n] = steps[n]
      /\ DOMAIN steps'[v] = DOMAIN steps[v]
      /\ \A k \in DOMAIN steps[v] :
           steps'[v][k].decision = IF k = i THEN "approve" ELSE steps[v][k].decision
  <2> DEFINE d == "approve"
  <2>1. d \in Decisions /\ steps' = [steps EXCEPT ![v][i].decision = d]
    BY <1>1, <1>2
  <2> HIDE DEF d
  <2>2. /\ \A n \in Versions : n # v => steps'[n] = steps[n]
        /\ DOMAIN steps'[v] = DOMAIN steps[v] /\ Len(steps'[v]) = Len(steps[v])
        /\ \A k \in DOMAIN steps[v] :
             /\ steps'[v][k].reviewer = steps[v][k].reviewer
             /\ steps'[v][k].decision = IF k = i THEN d ELSE steps[v][k].decision
    <3>1. TypeOK
      BY <1>1
    <3> QED
      BY <2>1, <3>1, DecisionEffect, Zenon
  <2> QED
    BY <2>2 DEF d
<1>4. publication[v] = "unpublished"
  BY <1>1 DEF IInv, PublishedStaysApproved
<1>5. PublishedUpToCurrent' /\ PointerAgrees'
  BY <1>1, PointerUntouched DEF TypeOK, Versions
<1>6. CASE i # Len(steps[v])
  <2>1. UNCHANGED <<reqState, review, processing, job>>
    BY <1>6 DEF Approve
  <2>2. InsertedUpToLatest' /\ PublishedStaysApproved' /\ OpenJobIsWanted'
    BY <1>1, <2>1 DEF IInv, InsertedUpToLatest, PublishedStaysApproved, OpenJobIsWanted
  <2>3. RequestAgrees'
    BY <1>1, <1>3, <2>1 DEF IInv, RequestAgrees, FullyApproved
  <2>4. ReviewersAreFit'
    BY <1>1, <1>2, <2>1, DecisionKeepsReviewers
  <2> QED
    BY <1>5, <2>2, <2>3, <2>4 DEF IInv
<1>7. CASE i = Len(steps[v])
  <2>1. /\ reqState' = [reqState EXCEPT ![v] = "approved"]
        /\ review' = [review EXCEPT ![v] = "approved"]
        /\ processing' = [processing EXCEPT ![v] = "indexing"]
        /\ job' = IF job[v].state = "none" THEN [job EXCEPT ![v] = PendingJob] ELSE job
    BY <1>7 DEF Approve
  <2>2. /\ reqState'[v] = "approved" /\ review'[v] = "approved" /\ processing'[v] = "indexing"
        /\ \A n \in Versions : n # v => /\ reqState'[n] = reqState[n] /\ review'[n] = review[n]
                                        /\ processing'[n] = processing[n] /\ job'[n] = job[n]
    BY <1>1, <2>1 DEF TypeOK
  <2>3. InsertedUpToLatest'
    BY <1>1, <2>2 DEF IInv, InsertedUpToLatest
  <2>4. FullyApproved(v)'
    <3>1. DOMAIN steps[v] = 1..Len(steps[v]) /\ Len(steps[v]) \in Nat
      BY <1>1 DEF TypeOK
    <3> QED
      BY <1>1, <1>3, <1>7, <3>1 DEF FullyApproved
  <2>5. RequestAgrees'
    BY <1>1, <1>3, <2>2, <2>4 DEF IInv, RequestAgrees, FullyApproved
  <2>6. ReviewersAreFit'
    BY <1>1, <1>2, <2>2, DecisionKeepsReviewers
  <2>7. PublishedStaysApproved'
    BY <1>1, <1>4, <2>2 DEF IInv, PublishedStaysApproved
  <2>8. OpenJobIsWanted'
    BY <1>1, <1>4, <2>2 DEF IInv, OpenJobIsWanted
  <2> QED
    BY <1>5, <2>3, <2>5, <2>6, <2>7, <2>8 DEF IInv
<1> QED
  BY <1>6, <1>7

LEMMA TurnDownSafe ==
  ASSUME IInv, TypeOK', NEW v \in Versions, NEW i \in DOMAIN steps[v],
         NEW d \in Decisions \ {"approve"}, TurnDown(v, i, d)
  PROVE  IInv'
<1> DEFINE outcome == IF d = "reject" THEN "rejected" ELSE "changes_requested"
<1>1. /\ TypeOK /\ reqState[v] = "pending" /\ review[v] = "in_review" /\ v = latest
      /\ steps' = [steps EXCEPT ![v][i].decision = d]
      /\ reqState' = [reqState EXCEPT ![v] = outcome]
      /\ review' = [review EXCEPT ![v] = outcome]
      /\ UNCHANGED <<latest, processing, publication, openFinding, job, current, withdrawn>>
  BY DEF IInv, RequestAgrees, TurnDown, MayDecide, docVars
<1>2. /\ reqState'[v] = outcome /\ review'[v] = outcome
      /\ outcome \in {"rejected", "changes_requested"}
      /\ \A n \in Versions : n # v => reqState'[n] = reqState[n] /\ review'[n] = review[n]
  BY <1>1 DEF TypeOK
<1> HIDE DEF outcome
<1>3. \A n \in Versions : n # v => steps'[n] = steps[n]
  BY <1>1, DecisionEffect
<1>4. InsertedUpToLatest'
  BY <1>1, <1>2 DEF IInv, InsertedUpToLatest
<1>5. RequestAgrees'
  BY <1>1, <1>2, <1>3 DEF IInv, RequestAgrees, FullyApproved
<1>6. ReviewersAreFit'
  BY <1>1, <1>2, DecisionKeepsReviewers
<1>7. PublishedUpToCurrent' /\ PointerAgrees'
  BY <1>1, PointerUntouched DEF TypeOK, Versions
<1>8. PublishedStaysApproved' /\ OpenJobIsWanted'
  BY <1>1, <1>2 DEF IInv, PublishedStaysApproved, OpenJobIsWanted
<1> QED
  BY <1>4, <1>5, <1>6, <1>7, <1>8 DEF IInv

-----------------------------------------------------------------------------
(* The workers' steps keep the invariant.                                   *)

\* Steps that change jobs only, and open no job that was closed.
LEMMA JobStepSafe ==
  ASSUME IInv, TypeOK', UNCHANGED <<versionVars, requestVars, docVars>>,
         \A v \in Versions : job'[v].state \in Unsettled => job[v].state \in Unsettled
  PROVE  IInv'
<1>1. UNCHANGED <<latest, review, processing, publication, openFinding, reqState, steps,
                  current, withdrawn>>
  BY DEF versionVars, requestVars, docVars
<1>2. InsertedUpToLatest' /\ RequestAgrees' /\ ReviewersAreFit'
  BY <1>1, RequestsUntouched
<1>3. PublishedUpToCurrent' /\ PointerAgrees'
  BY <1>1, PointerUntouched DEF IInv, TypeOK, Versions
<1>4. PublishedStaysApproved' /\ OpenJobIsWanted'
  BY <1>1 DEF IInv, PublishedStaysApproved, OpenJobIsWanted
<1> QED
  BY <1>2, <1>3, <1>4 DEF IInv

\* The pointer moves forward: the current version is approved, so a job of an older
\* version is overtaken, and its own job was closed when it was published.
LEMMA PublishMovesForward ==
  ASSUME IInv, NEW w \in Workers, Publish(w)
  PROVE  /\ claim[w] \in Versions /\ claim[w] > current
         /\ publication[claim[w]] = "unpublished" /\ reqState[claim[w]] = "approved"
         /\ ~withdrawn
<1> DEFINE v == claim[w]
<1>1. TypeOK /\ v \in Versions /\ ~withdrawn /\ ~Overtaken(v)
  BY DEF IInv, TypeOK, Publish, ApprovalStands, NoVersion
<1>2. job[v].state \in Unsettled
  BY DEF Publish, HoldsLease, Unsettled
<1>3. publication[v] = "unpublished" /\ reqState[v] = "approved"
  BY <1>1, <1>2 DEF IInv, OpenJobIsWanted
<1>4. CASE current = NoVersion
  BY <1>1, <1>3, <1>4 DEF Versions, NoVersion
<1>5. CASE current # NoVersion
  <2>1. current \in Versions
    BY <1>1, <1>5 DEF TypeOK
  <2>2. publication[current] # "unpublished"
    BY <1>5 DEF IInv, PublishedUpToCurrent
  <2>3. review[current] = "approved"
    BY <2>1, <2>2 DEF IInv, PublishedStaysApproved, RequestAgrees
  <2>4. ~(current > v)
    BY <1>1, <2>1, <2>3 DEF Overtaken
  <2> QED
    BY <1>1, <1>3, <2>1, <2>2, <2>4 DEF Versions
<1> QED
  BY <1>4, <1>5

LEMMA PublishSafe == ASSUME IInv, TypeOK', NEW w \in Workers, Publish(w) PROVE IInv'
<1> DEFINE v == claim[w]
<1>1. /\ TypeOK /\ v \in Versions /\ v > current /\ ~withdrawn
      /\ publication[v] = "unpublished" /\ reqState[v] = "approved"
  BY PublishMovesForward DEF IInv
<1>2. /\ publication' = SwapTo(v)
      /\ processing' = [processing EXCEPT ![v] = "ready"]
      /\ current' = v
      /\ job' = [job EXCEPT ![v].state = "done", ![v].leased = FALSE]
      /\ UNCHANGED <<latest, review, openFinding, reqState, steps, withdrawn>>
  BY DEF Publish, requestVars
<1> HIDE DEF v
<1>3. \A n \in Versions : publication'[n] = IF n = v THEN "published"
                                           ELSE IF n = current THEN "superseded"
                                           ELSE publication[n]
  BY <1>2 DEF SwapTo
<1>4. InsertedUpToLatest' /\ RequestAgrees' /\ ReviewersAreFit'
  BY <1>2, RequestsUntouched
<1>5. current \in Nat /\ latest \in Nat /\ v <= latest /\ \A n \in Versions : n \in Nat
  <2>1. review[v] # "absent"
    BY <1>1 DEF IInv, RequestAgrees
  <2> QED
    BY <1>1, <2>1 DEF IInv, InsertedUpToLatest, TypeOK, Versions, NoVersion
<1>6. PublishedUpToCurrent'
  <2>1. \A n \in Versions : publication'[n] # "unpublished" => n = v \/ n <= current
    BY <1>3, <1>5 DEF IInv, PublishedUpToCurrent
  <2>2. publication'[v] = "published"
    BY <1>1, <1>3
  <2> QED
    BY <1>1, <1>2, <1>5, <2>1, <2>2 DEF PublishedUpToCurrent
<1>7. PointerAgrees'
  BY <1>1, <1>2, <1>3 DEF IInv, PointerAgrees
<1>8. PublishedStaysApproved'
  <2> SUFFICES ASSUME NEW n \in Versions
               PROVE  /\ publication'[n] # "unpublished" <=> processing'[n] = "ready"
                      /\ publication'[n] # "unpublished" => reqState[n] = "approved"
    BY <1>2 DEF PublishedStaysApproved
  <2>1. CASE n = v
    BY <1>1, <1>2, <1>3, <2>1 DEF TypeOK
  <2>2. CASE n # v
    <3>1. processing'[n] = processing[n]
      BY <1>1, <1>2, <2>2 DEF TypeOK
    <3>2. publication'[n] # "unpublished" <=> publication[n] # "unpublished"
      BY <1>3, <2>2 DEF IInv, PublishedUpToCurrent, NoVersion, Versions
    <3> QED
      BY <3>1, <3>2 DEF IInv, PublishedStaysApproved
  <2> QED
    BY <2>1, <2>2
<1>9. OpenJobIsWanted'
  <2> SUFFICES ASSUME NEW n \in Versions, job'[n].state \in Unsettled
               PROVE  /\ review[n] = "approved" /\ reqState[n] = "approved"
                      /\ publication'[n] = "unpublished" /\ ~withdrawn
    BY <1>2 DEF OpenJobIsWanted
  <2>1. n # v /\ job'[n] = job[n]
    <3>1. job'[v].state = "done" /\ \A m \in Versions : m # v => job'[m] = job[m]
      BY <1>1, <1>2 DEF TypeOK, Jobs
    <3> QED
      BY <3>1 DEF Unsettled
  <2>2. /\ review[n] = "approved" /\ reqState[n] = "approved"
        /\ publication[n] = "unpublished" /\ ~withdrawn
    BY <2>1 DEF IInv, OpenJobIsWanted
  <2>3. n # current
    BY <2>2 DEF IInv, PublishedUpToCurrent, NoVersion, Versions
  <2> QED
    BY <1>3, <2>1, <2>2, <2>3
<1> QED
  BY <1>4, <1>6, <1>7, <1>8, <1>9 DEF IInv

\* Giving a job up, by either report, closes it or leaves it open and changes
\* processing_state of an unpublished version only.
LEMMA GivingUpSafe ==
  ASSUME IInv, TypeOK', NEW w \in Workers, PublishStale(w) \/ Fail(w)
  PROVE  IInv'
<1> DEFINE v == claim[w]
<1>1. TypeOK /\ v \in Versions
  BY DEF IInv, TypeOK, PublishStale, Fail, NoVersion
<1>2. UNCHANGED <<latest, review, openFinding, reqState, steps, publication, current, withdrawn>>
  BY DEF PublishStale, Fail, requestVars, docVars
<1>3. \A n \in Versions : processing'[n] # processing[n] =>
        publication[n] = "unpublished" /\ processing'[n] = "failed"
  BY <1>1 DEF TypeOK, PublishStale, Fail, FailUnpublished
<1>4. \A n \in Versions : job'[n].state \in Unsettled => job[n].state \in Unsettled
  <2>1. CASE PublishStale(w)
    <3>1. job' = [job EXCEPT ![v].state = "cancelled"]
      BY <2>1 DEF PublishStale
    <3>2. job'[v].state = "cancelled" /\ \A n \in Versions : n # v => job'[n] = job[n]
      BY <1>1, <3>1 DEF TypeOK, Jobs
    <3> QED
      BY <3>2 DEF Unsettled
  <2>2. CASE Fail(w)
    <3>1. CASE job[v].state = "running" /\ job[v].holder = w
      <4>1. job[v].state \in Unsettled
        BY <3>1 DEF Unsettled
      <4>2. \A n \in Versions : n # v => job'[n] = job[n]
        BY <1>1, <2>2, <3>1 DEF Fail, TypeOK
      <4> QED
        BY <4>1, <4>2
    <3>2. CASE ~(job[v].state = "running" /\ job[v].holder = w)
      BY <2>2, <3>2 DEF Fail
    <3> QED
      BY <3>1, <3>2
  <2> QED
    BY <2>1, <2>2
<1>5. InsertedUpToLatest' /\ RequestAgrees' /\ ReviewersAreFit'
  BY <1>2, RequestsUntouched
<1>6. PublishedUpToCurrent' /\ PointerAgrees'
  BY <1>1, <1>2, PointerUntouched DEF TypeOK, Versions
<1>7. PublishedStaysApproved'
  BY <1>2, <1>3 DEF IInv, PublishedStaysApproved
<1>8. OpenJobIsWanted'
  BY <1>2, <1>4 DEF IInv, OpenJobIsWanted
<1> QED
  BY <1>5, <1>6, <1>7, <1>8 DEF IInv

-----------------------------------------------------------------------------
(* The invariant is inductive.                                              *)

LEMMA NextSafe == IInv /\ [Next]_vars => IInv'
<1> SUFFICES ASSUME IInv, [Next]_vars PROVE IInv'
  OBVIOUS
<1>1. TypeOK /\ TypeOK'
  BY NextTyped DEF IInv
<1>2. CASE OwnerStep
  BY <1>1, <1>2, CommitRevisionSafe, RollbackSafe, SubmitSafe, RetrySafe, WithdrawEffectSafe
     DEF OwnerStep, Withdraw
<1>3. CASE ReviewerStep
  BY <1>1, <1>3, ResolveFindingSafe, ApproveSafe, TurnDownSafe DEF ReviewerStep
<1>4. ASSUME NEW w \in Workers, ClaimStep(w) PROVE IInv'
  <2>1. UNCHANGED <<versionVars, requestVars, docVars>>
    BY <1>4 DEF ClaimStep, ClaimJob, ClaimNothing
  <2>2. \A v \in Versions : Swept[v].state \in Unsettled => job[v].state \in Unsettled
    BY DEF Swept, LeaseLapsed, Unsettled
  <2>3. \A v \in Versions : job'[v].state \in Unsettled => job[v].state \in Unsettled
    <3>1. CASE ClaimNothing(w)
      BY <2>2, <3>1 DEF ClaimNothing
    <3>2. ASSUME NEW v \in Versions, ClaimJob(w, v)
          PROVE  \A n \in Versions : job'[n].state \in Unsettled => job[n].state \in Unsettled
      <4>1. job[v].state \in Unsettled
        BY <3>2 DEF ClaimJob, Claimable, LeaseLapsed, Unsettled
      <4>2. \A n \in Versions : n # v => job'[n] = Swept[n]
        BY <3>2 DEF ClaimJob, Swept
      <4> QED
        BY <2>2, <4>1, <4>2
    <3> QED
      BY <1>4, <3>1, <3>2 DEF ClaimStep
  <2> QED
    BY <1>1, <2>1, <2>3, JobStepSafe
<1>5. ASSUME NEW w \in Workers, FinishStep(w) PROVE IInv'
  <2>1. CASE Crash(w)
    BY <1>1, <2>1, JobStepSafe DEF Crash
  <2> QED
    BY <1>1, <1>5, <2>1, PublishSafe, GivingUpSafe DEF FinishStep
<1>6. CASE ClockStep
  <2>1. ASSUME NEW v \in Versions, LeaseLapses(v) \/ BackoffElapses(v) PROVE IInv'
    <3>1. \A n \in Versions : job'[n].state = job[n].state
      <4>1. \A j \in Jobs : /\ [j EXCEPT !.leased = FALSE].state = j.state
                            /\ [j EXCEPT !.due = TRUE].state = j.state
        BY DEF Jobs
      <4> QED
        BY <1>1, <2>1, <4>1 DEF LeaseLapses, BackoffElapses, TypeOK
    <3> QED
      BY <1>1, <2>1, <3>1, JobStepSafe DEF LeaseLapses, BackoffElapses
  <2>2. ASSUME NEW v \in Versions, Expire(v) PROVE IInv'
    <3>1. UNCHANGED <<latest, review, processing, publication, openFinding, reqState, steps,
                      job, current, withdrawn>>
      BY <2>2 DEF Expire, requestVars, docVars
    <3>2. InsertedUpToLatest' /\ RequestAgrees' /\ ReviewersAreFit'
      BY <3>1, RequestsUntouched
    <3>3. PublishedUpToCurrent' /\ PointerAgrees'
      BY <1>1, <3>1, PointerUntouched DEF TypeOK, Versions
    <3>4. PublishedStaysApproved' /\ OpenJobIsWanted'
      BY <3>1 DEF IInv, PublishedStaysApproved, OpenJobIsWanted
    <3> QED
      BY <1>1, <3>2, <3>3, <3>4 DEF IInv
  <2> QED
    BY <1>6, <2>1, <2>2 DEF ClockStep
<1>7. CASE AdminStep
  BY <1>1, <1>7, JobStepSafe DEF AdminStep, ChangeRule, ChangeAccess
<1>8. CASE UNCHANGED vars
  BY <1>1, <1>8, JobStepSafe DEF vars
<1> QED
  BY <1>2, <1>3, <1>4, <1>5, <1>6, <1>7, <1>8 DEF Next

LEMMA AlwaysSafe == Spec => []IInv
BY InitSafe, NextSafe, PTL DEF Spec

\* What was ever published has a finished index and an approval nobody can take away
\* from it again, by different people, none of them the owner.
THEOREM EverPublishedHolds == Spec => []EverPublished
<1>1. IInv => EverPublished
  BY SafeIsEnough
<1> QED
  BY <1>1, AlwaysSafe, PTL

\* current_version_id and publication_state never disagree.
THEOREM PointerAgreesHolds == Spec => []PointerAgrees
<1>1. IInv => PointerAgrees
  BY SafeIsEnough
<1> QED
  BY <1>1, AlwaysSafe, PTL

\* A job left behind by a revision or a withdrawal can publish nothing.
THEOREM OpenJobIsWantedHolds == Spec => []OpenJobIsWanted
<1>1. IInv => OpenJobIsWanted
  BY SafeIsEnough
<1> QED
  BY <1>1, AlwaysSafe, PTL

=============================================================================
