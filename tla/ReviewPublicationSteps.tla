------------------------ MODULE ReviewPublicationSteps ------------------------
(***************************************************************************)
(* Proofs about the steps of ReviewPublication: what a publication may do   *)
(* to the pointer, what a step may do to the version readers see, and that  *)
(* every step is one of DocumentLifecycle or leaves it alone.  They rest on *)
(* the inductive invariant of ReviewPublicationProofs, which the retention  *)
(* pass keeps too: it writes without the document lock what it chose        *)
(* earlier, breaks nothing of the workflow, and leaves nothing of an        *)
(* archived document to be published or decided.                            *)
(***************************************************************************)
EXTENDS Retention, ReviewPublicationProofs, FiniteSetTheorems

-----------------------------------------------------------------------------
(* The pointer.                                                             *)

\* No other statement of the code writes current_version_id.
LEMMA OnlyPublishMoves ==
  ASSUME [Next]_vars, current' # current
  PROVE  \E w \in Workers : Publish(w)
BY DEF Next, vars, OwnerStep, ReviewerStep, ClaimStep, FinishStep, ClockStep, AdminStep,
       CommitRevision, Rollback, Submit, Retry, Withdraw, ResolveFinding, Approve, TurnDown,
       ClaimJob, ClaimNothing, PublishStale, Fail, Crash, LeaseLapses, BackoffElapses,
       Expire, ChangeRule, ChangeAccess, docVars

\* The pointer only moves to a newer version that was never published: no job is
\* applied twice or out of order, however many jobs and workers there are.
THEOREM PointerMovesForwardHolds == Spec => PointerMovesForward
<1>1. IInv /\ [Next]_vars =>
        [current' # current => /\ current' > current
                               /\ publication[current'] = "unpublished"
                               /\ ~withdrawn']_vars
  <2> SUFFICES ASSUME IInv, [Next]_vars, current' # current
               PROVE  /\ current' > current
                      /\ publication[current'] = "unpublished"
                      /\ ~withdrawn'
    OBVIOUS
  <2>1. PICK w \in Workers : Publish(w)
    BY OnlyPublishMoves
  <2>2. current' = claim[w] /\ withdrawn' = withdrawn
    BY <2>1 DEF Publish
  <2> QED
    BY <2>1, <2>2, PublishMovesForward
<1> QED
  BY <1>1, AlwaysSafe, PTL DEF Spec, PointerMovesForward

\* A request with n steps has n different reviewers.
LEMMA ReviewersCounted ==
  ASSUME TypeOK, NEW v \in Versions, StepsAreFit(v)
  PROVE  IsFiniteSet(StepReviewers(v)) /\ Cardinality(StepReviewers(v)) = Len(steps[v])
<1> DEFINE n == Len(steps[v])
           f == [i \in 1..n |-> steps[v][i].reviewer]
<1>1. n \in Nat /\ DOMAIN steps[v] = 1..n
  BY DEF TypeOK
<1>2. IsFiniteSet(1..n) /\ Cardinality(1..n) = n
  BY <1>1, FS_Interval
<1>3. f \in Bijection(1..n, StepReviewers(v))
  <2>1. f \in [1..n -> StepReviewers(v)]
    BY <1>1 DEF StepReviewers
  <2>2. \A i, j \in 1..n : f[i] = f[j] => i = j
    BY <1>1 DEF StepsAreFit
  <2>3. \A p \in StepReviewers(v) : \E i \in 1..n : f[i] = p
    BY <1>1 DEF StepReviewers
  <2> QED
    BY <2>1, <2>2, <2>3 DEF Bijection, Injection, Surjection, IsInjective
<1> HIDE DEF f
<1> QED
  BY <1>1, <1>2, <1>3, FS_Bijection DEF ExistsBijection

\* Whoever lost access and whatever rule was tightened while the worker was indexing:
\* what is published meets the rules and rights in force at the swap.
THEOREM PublishedUnderRulesInForceHolds == Spec => PublishedUnderRulesInForce
<1>1. IInv /\ [Next]_vars =>
        [current' # current =>
           LET v == current' IN
           /\ Cardinality({p \in StepReviewers(v) : ReviewerEligible(p)}) >= rule
           /\ StepReviewers(v) \subseteq access
           /\ Owner \in access
           /\ expiry[v] # "past"
           /\ ~openFinding[v]]_vars
  <2> SUFFICES ASSUME IInv, [Next]_vars, current' # current
               PROVE  /\ Cardinality({p \in StepReviewers(current') : ReviewerEligible(p)}) >= rule
                      /\ StepReviewers(current') \subseteq access
                      /\ Owner \in access
                      /\ expiry[current'] # "past"
                      /\ ~openFinding[current']
    OBVIOUS
  <2>1. PICK w \in Workers : Publish(w)
    BY OnlyPublishMoves
  <2> DEFINE v == claim[w]
  <2>2. /\ current' = v /\ v \in Versions /\ reqState[v] = "approved"
        /\ ApprovalStands(v)
    BY <2>1, PublishMovesForward DEF Publish
  <2> HIDE DEF v
  <2>3. TypeOK /\ StepsAreFit(v) /\ ~openFinding[v]
    BY <2>2 DEF IInv, ReviewersAreFit, RequestAgrees
  <2>4. {p \in StepReviewers(v) : ReviewerEligible(p)} = StepReviewers(v)
    BY <2>2 DEF ApprovalStands
  <2>5. Cardinality(StepReviewers(v)) >= rule
    BY <2>2, <2>3, ReviewersCounted DEF ApprovalStands
  <2>6. StepReviewers(v) \subseteq access /\ Owner \in access /\ expiry[v] # "past"
    BY <2>2 DEF ApprovalStands, ReviewerEligible
  <2> QED
    BY <2>2, <2>3, <2>4, <2>5, <2>6
<1> QED
  BY <1>1, AlwaysSafe, PTL DEF Spec, PublishedUnderRulesInForce

-----------------------------------------------------------------------------
(* What readers see.                                                        *)

\* Nothing but a swap, a withdrawal and the clock takes from readers what they have:
\* every other statement writes drafts, versions in review and unpublished versions.
LEMMA ReadersKeep ==
  ASSUME IInv, [Next]_vars, NEW v \in Versions, Active(v),
         current' = current, ~withdrawn', expiry'[v] # "past"
  PROVE  Active(v)'
<1>1. /\ TypeOK /\ v = current /\ review[v] = "approved" /\ processing[v] = "ready"
      /\ publication[v] = "published" /\ latest + 1 # v
  BY DEF IInv, Active, InsertedUpToLatest, TypeOK, Versions
<1>2. job[v].state \notin Unsettled
  BY <1>1 DEF IInv, OpenJobIsWanted
<1>3. review'[v] = "approved" /\ processing'[v] = "ready" /\ publication'[v] = "published"
  <2>1. CASE OwnerStep
    <3>1. CASE CommitRevision \/ Rollback
      BY <1>1, <3>1 DEF CommitRevision, Rollback, InsertDraft, TypeOK
    <3>2. ASSUME NEW reviewers \in [1..rule -> People], NEW f \in BOOLEAN,
                 NEW e \in {"never", "future"}, Submit(reviewers, f, e)
          PROVE  review'[v] = "approved" /\ processing'[v] = "ready" /\ publication'[v] = "published"
      BY <1>1, <3>2 DEF Submit, TypeOK
    <3>3. \A n \in Versions : Retry(n) =>
            review'[v] = "approved" /\ processing'[v] = "ready" /\ publication'[v] = "published"
      BY <1>1, <1>2 DEF Retry, Unsettled, TypeOK
    <3>4. ~Withdraw
      BY DEF Withdraw, WithdrawEffect
    <3> QED
      BY <2>1, <3>1, <3>2, <3>3, <3>4 DEF OwnerStep
  <2>2. CASE ReviewerStep
    BY <1>1, <2>2 DEF ReviewerStep, ResolveFinding, Approve, TurnDown, MayDecide, TypeOK
  <2>3. ASSUME NEW w \in Workers, FinishStep(w)
        PROVE  review'[v] = "approved" /\ processing'[v] = "ready" /\ publication'[v] = "published"
    <3>1. CASE Publish(w)
      BY <1>1, <3>1, PublishMovesForward DEF Publish, TypeOK, NoVersion, Versions
    <3>2. CASE PublishStale(w) \/ Fail(w)
      BY <1>1, <3>2 DEF PublishStale, Fail, FailUnpublished, TypeOK
    <3>3. CASE Crash(w)
      BY <1>1, <3>3 DEF Crash, versionVars
    <3> QED
      BY <2>3, <3>1, <3>2, <3>3 DEF FinishStep
  <2>4. CASE \/ \E w \in Workers : ClaimStep(w)
             \/ ClockStep \/ AdminStep \/ UNCHANGED vars
    BY <1>1, <2>4
       DEF ClaimStep, ClaimJob, ClaimNothing, ClockStep, LeaseLapses, BackoffElapses, Expire,
           AdminStep, ChangeRule, ChangeAccess, vars, versionVars
  <2> QED
    BY <2>1, <2>2, <2>3, <2>4 DEF Next
<1> QED
  BY <1>1, <1>3 DEF Active

\* Readers lose a valid version only to its expiry, to a withdrawal, or to a newer version
\* that takes its place in the same step.
THEOREM OldVersionStaysUntilSwapHolds == Spec => OldVersionStaysUntilSwap
<1>1. IInv /\ [Next]_vars =>
        [\A v \in Versions : Active(v) /\ ~Active(v)' =>
           \/ withdrawn'
           \/ expiry'[v] = "past"
           \/ \E n \in Versions \ {v} : Active(n)']_vars
  <2> SUFFICES ASSUME IInv, [Next]_vars, NEW v \in Versions, Active(v), ~Active(v)',
                      ~withdrawn', expiry'[v] # "past"
               PROVE  \E n \in Versions \ {v} : Active(n)'
    OBVIOUS
  <2>1. current' # current
    BY ReadersKeep
  <2>2. PICK w \in Workers : Publish(w)
    BY <2>1, OnlyPublishMoves
  <2>3. PICK n \in Versions : n = claim[w]
    BY <2>2, PublishMovesForward
  <2>4. n # v /\ TypeOK
    BY <2>2, <2>3, PublishMovesForward DEF Active, IInv, TypeOK, Versions, NoVersion
  <2>5. /\ current' = n /\ publication' = SwapTo(n)
        /\ processing' = [processing EXCEPT ![n] = "ready"]
        /\ UNCHANGED <<review, expiry>>
        /\ review[n] = "approved" /\ expiry[n] # "past"
    BY <2>2, <2>3 DEF Publish, ApprovalStands
  <2>6. Active(n)'
    BY <2>4, <2>5 DEF SwapTo, Active, TypeOK
  <2> QED
    BY <2>4, <2>6
<1> QED
  BY <1>1, AlwaysSafe, PTL DEF Spec, OldVersionStaysUntilSwap
-----------------------------------------------------------------------------
(* Leases.                                                                  *)

\* While a lease is in force nobody but its holder settles the job, however many workers
\* there are and however often it was taken over; only the owner may cancel it.
THEOREM LeaseFencesHolds == Spec => LeaseFences
<1>1. IInv /\ [Next]_vars =>
        [\A v \in Versions, w \in Workers : HoldsLease(w, v) /\ job'[v] # job[v] =>
           \/ claim[w] = v /\ claim'[w] = NoVersion
           \/ job'[v] = [job[v] EXCEPT !.leased = FALSE]
           \/ /\ job'[v].state = "cancelled"
              /\ withdrawn' \/ latest' > latest]_vars
  <2> SUFFICES ASSUME IInv, [Next]_vars, NEW v \in Versions, NEW w \in Workers,
                      HoldsLease(w, v), job'[v] # job[v]
               PROVE  \/ claim[w] = v /\ claim'[w] = NoVersion
                      \/ job'[v] = [job[v] EXCEPT !.leased = FALSE]
                      \/ /\ job'[v].state = "cancelled"
                         /\ withdrawn' \/ latest' > latest
    OBVIOUS
  <2>1. /\ TypeOK /\ latest \in Nat
        /\ job[v].state = "running" /\ job[v].holder = w /\ job[v].leased
    BY DEF IInv, TypeOK, HoldsLease, Versions
  <2>2. Swept[v] = job[v] /\ ~Claimable(job[v])
    BY <2>1 DEF Swept, LeaseLapsed, Claimable
  <2>3. \A S : CancelJobs(S)[v] # job[v] => CancelJobs(S)[v].state = "cancelled"
    BY <2>1 DEF CancelJobs, TypeOK, Jobs
  <2>4. CASE OwnerStep
    <3>1. CASE CommitRevision
      BY <2>1, <2>3, <3>1 DEF CommitRevision, InsertDraft
    <3>2. CASE Withdraw
      BY <2>3, <3>2 DEF Withdraw, WithdrawEffect
    <3>3. \A n \in Versions : ~(Retry(n) /\ job'[v] # job[v])
      BY <2>1 DEF Retry, TypeOK
    <3> QED
      BY <2>4, <3>1, <3>2, <3>3 DEF OwnerStep, Rollback, Submit
  <2>5. CASE ReviewerStep
    BY <2>1, <2>5 DEF ReviewerStep, ResolveFinding, Approve, TurnDown, TypeOK
  <2>6. ASSUME NEW u \in Workers, ClaimStep(u) PROVE FALSE
    <3>1. \A n \in Versions : ClaimJob(u, n) => job'[v] = Swept[v]
      BY <2>2 DEF ClaimJob, Swept
    <3> QED
      BY <2>2, <2>6, <3>1 DEF ClaimStep, ClaimNothing
  <2>7. ASSUME NEW u \in Workers, FinishStep(u)
        PROVE  claim[w] = v /\ claim'[w] = NoVersion
    <3>1. claim[u] = v /\ job[v].holder = u
      BY <2>1, <2>7 DEF FinishStep, Publish, PublishStale, Fail, Crash, HoldsLease, TypeOK
    <3>2. claim'[u] = NoVersion
      BY <2>1, <2>7 DEF FinishStep, Publish, PublishStale, Fail, Crash, Release, TypeOK
    <3> QED
      BY <2>1, <3>1, <3>2
  <2>8. CASE ClockStep
    BY <2>1, <2>8 DEF ClockStep, LeaseLapses, BackoffElapses, Expire, TypeOK
  <2>9. CASE AdminStep \/ UNCHANGED vars
    BY <2>9 DEF AdminStep, ChangeRule, ChangeAccess, vars
  <2> QED
    BY <2>4, <2>5, <2>6, <2>7, <2>8, <2>9 DEF Next
<1> QED
  BY <1>1, AlwaysSafe, PTL DEF Spec, LeaseFences
-----------------------------------------------------------------------------
(* The refinement.                                                          *)

\* The abstract stage of every version.
StagesNow == [v \in Versions |-> StageOf(v)]

\* Where review_state and request are untouched, so is every abstract stage.
LEMMA StagesUntouched ==
  ASSUME UNCHANGED <<review, reqState>>
  PROVE  StagesNow' = StagesNow
BY DEF StagesNow, StageOf

\* Versions agree in both modules.
LEMMA SameVersions == Lifecycle!Versions = Versions
BY DEF Lifecycle!Versions, Versions

\* A new document is one whose lifecycle begins.
LEMMA InitMaps == Init => Lifecycle!Init
BY DEF Init, Lifecycle!Init, Lifecycle!Versions, Versions, StageOf, NoVersion

\* A revision opens the next version and calls the one it replaces off if its review is
\* pending, or its approval has not been published.
LEMMA CommitRevisionMaps ==
  ASSUME IInv, IInv', CommitRevision
  PROVE  Lifecycle!Open(latest + 1)
<1>1. PICK last \in Versions, next \in Versions :
        /\ last = latest /\ next = last + 1 /\ next # last /\ next - 1 = last /\ last # 0
        /\ \A v \in Versions : v \in Nat
  BY BoundsAssumption DEF IInv, TypeOK, CommitRevision, InsertDraft, Versions
<1> DEFINE replaced == reqState[last] = "pending" \/ (reqState[last] = "approved" /\ last # current)
<1>2. PICK base : base = IF replaced THEN last ELSE 0
  OBVIOUS
<1>3. /\ review' = [review EXCEPT ![next] = "draft"]
      /\ reqState' = IF replaced THEN [reqState EXCEPT ![last] = "cancelled"] ELSE reqState
      /\ UNCHANGED <<current, withdrawn>>
      /\ TypeOK /\ ~withdrawn
  BY <1>1 DEF CommitRevision, InsertDraft, OwnerMayAct, docVars, IInv
<1>4. StageOf(next) = "absent" /\ reqState[next] = "none" /\ review[last] # "absent"
  <2>1. review[next] = "absent" /\ review[last] # "absent"
    BY <1>1 DEF IInv, InsertedUpToLatest
  <2> QED
    BY <2>1 DEF IInv, RequestAgrees, StageOf
<1>5. \A v \in Versions : v < next => StageOf(v) # "absent"
  BY <1>1 DEF IInv, InsertedUpToLatest, StageOf
<1>6. replaced => last # current /\ StageOf(last) \in {"open", "approved"}
  <2>1. last = current => reqState[last] = "approved"
    BY <1>1 DEF IInv, PublishedUpToCurrent, PublishedStaysApproved, NoVersion
  <2>2. reqState[last] = "pending" => StageOf(last) = "open"
    BY DEF IInv, RequestAgrees, StageOf
  <2>3. reqState[last] = "approved" => StageOf(last) = "approved"
    BY DEF IInv, RequestAgrees, StageOf
  <2> QED
    BY <2>1, <2>2, <2>3
<1>7. StagesNow' = [n \in Versions |-> IF n = next THEN "open"
                                       ELSE IF n = base THEN "called_off" ELSE StagesNow[n]]
  <2>1. StageOf(next)' = "open"
    BY <1>1, <1>3, <1>4 DEF StageOf, TypeOK
  <2>2. replaced => StageOf(last)' = "called_off"
    BY <1>1, <1>3, <1>4 DEF StageOf, TypeOK
  <2>3. \A n \in Versions : n # next /\ n # base => StageOf(n)' = StageOf(n)
    BY <1>1, <1>2, <1>3 DEF StageOf, TypeOK
  <2>4. base \in {0, last} /\ 0 \notin Versions /\ (base = last => replaced)
    BY <1>1, <1>2 DEF Versions
  <2> HIDE DEF replaced
  <2> QED
    BY <1>1, <2>1, <2>2, <2>3, <2>4 DEF StagesNow
<1>8. /\ base \in Versions \cup {0}
      /\ base # 0 => base = next - 1 /\ base # current /\ StageOf(base) \in {"open", "approved"}
  BY <1>1, <1>2, <1>6
<1> HIDE DEF replaced
<1> QED
  BY <1>1, <1>3, <1>4, <1>5, <1>7, <1>8, SameVersions DEF Lifecycle!Open, StagesNow

\* A copy of an older version opens the next one and calls nothing off.
LEMMA RollbackMaps ==
  ASSUME IInv, Rollback
  PROVE  Lifecycle!Open(latest + 1)
<1>1. PICK next \in Versions :
        /\ next = latest + 1 /\ latest \in Nat
        /\ \A v \in Versions : v \in Nat /\ v # 0
  BY BoundsAssumption DEF IInv, TypeOK, Rollback, InsertDraft, Versions
<1>2. /\ review' = [review EXCEPT ![next] = "draft"]
      /\ UNCHANGED <<reqState, current, withdrawn>>
      /\ TypeOK /\ ~withdrawn
  BY <1>1 DEF Rollback, InsertDraft, OwnerMayAct, requestVars, docVars, IInv
<1>3. StageOf(next) = "absent" /\ reqState[next] = "none"
  BY <1>1 DEF IInv, InsertedUpToLatest, RequestAgrees, StageOf
<1>4. \A v \in Versions : v < next => StageOf(v) # "absent"
  BY <1>1 DEF IInv, InsertedUpToLatest, StageOf
<1>5. StagesNow' = [n \in Versions |-> IF n = next THEN "open"
                                       ELSE IF n = 0 THEN "called_off" ELSE StagesNow[n]]
  <2>1. StageOf(next)' = "open"
    BY <1>1, <1>2, <1>3 DEF StageOf, TypeOK
  <2>2. \A n \in Versions : n # next => StageOf(n)' = StageOf(n)
    BY <1>2 DEF StageOf, TypeOK
  <2> QED
    BY <1>1, <2>1, <2>2 DEF StagesNow
<1> QED
  BY <1>1, <1>2, <1>3, <1>4, <1>5, SameVersions DEF Lifecycle!Open, StagesNow

\* The last approval, and any negative decision, judge the version; other approvals and
\* everything that touches neither state nor request leave the lifecycle alone.
LEMMA DecisionMaps ==
  ASSUME IInv, NEW v \in Versions, NEW i \in DOMAIN steps[v]
  PROVE  /\ Approve(v, i) =>
              Lifecycle!Judge(v, "approved") \/ UNCHANGED <<review, reqState, current, withdrawn>>
         /\ \A d \in Decisions \ {"approve"} : TurnDown(v, i, d) => Lifecycle!Judge(v, "closed")
<1>1. TypeOK
  BY DEF IInv
<1>2. ASSUME NEW s \in {"approved", "changes_requested", "rejected"}, NEW verdict,
             verdict = IF s = "approved" THEN "approved" ELSE "closed",
             MayDecide(v, i), UNCHANGED <<current, withdrawn>>,
             review' = [review EXCEPT ![v] = s], reqState' = [reqState EXCEPT ![v] = s]
      PROVE  Lifecycle!Judge(v, verdict)
  <2>1. StageOf(v) = "open" /\ ~withdrawn
    BY <1>2 DEF MayDecide, StageOf
  <2>2. StageOf(v)' = verdict
    BY <1>1, <1>2 DEF StageOf, TypeOK
  <2>3. \A n \in Versions : n # v => StageOf(n)' = StageOf(n)
    BY <1>1, <1>2 DEF StageOf, TypeOK
  <2>4. StagesNow' = [StagesNow EXCEPT ![v] = verdict]
    BY <2>2, <2>3 DEF StagesNow
  <2> QED
    BY <1>2, <2>1, <2>4, SameVersions DEF Lifecycle!Judge, StagesNow
<1>3. Approve(v, i) =>
        Lifecycle!Judge(v, "approved") \/ UNCHANGED <<review, reqState, current, withdrawn>>
  <2> SUFFICES ASSUME Approve(v, i)
               PROVE  Lifecycle!Judge(v, "approved")
                      \/ UNCHANGED <<review, reqState, current, withdrawn>>
    OBVIOUS
  <2>1. MayDecide(v, i) /\ UNCHANGED <<current, withdrawn>>
    BY DEF Approve, docVars
  <2>2. CASE i = Len(steps[v])
    BY <1>2, <2>1, <2>2 DEF Approve
  <2>3. CASE i # Len(steps[v])
    BY <2>1, <2>3 DEF Approve
  <2> QED
    BY <2>2, <2>3
<1>4. ASSUME NEW d \in Decisions \ {"approve"}, TurnDown(v, i, d)
      PROVE  Lifecycle!Judge(v, "closed")
  <2> DEFINE s == IF d = "reject" THEN "rejected" ELSE "changes_requested"
  <2>1. /\ MayDecide(v, i) /\ UNCHANGED <<current, withdrawn>>
        /\ review' = [review EXCEPT ![v] = s] /\ reqState' = [reqState EXCEPT ![v] = s]
    BY <1>4 DEF TurnDown, docVars
  <2>2. s \in {"approved", "changes_requested", "rejected"} /\ s # "approved"
    OBVIOUS
  <2> HIDE DEF s
  <2> QED
    BY <1>2, <2>1, <2>2
<1> QED
  BY <1>3, <1>4
-----------------------------------------------------------------------------
\* A swap of the pointer brings an approved version live: it is newer than the current
\* one, and no approved version is newer than it.
LEMMA PublishMaps ==
  ASSUME IInv, NEW w \in Workers, Publish(w)
  PROVE  Lifecycle!GoLive(claim[w])
<1> DEFINE v == claim[w]
<1>1. /\ v \in Versions /\ v > current /\ ~withdrawn /\ reqState[v] = "approved"
      /\ review[v] = "approved" /\ ~Overtaken(v)
      /\ current' = v /\ UNCHANGED <<review, reqState, withdrawn>>
  BY PublishMovesForward DEF Publish, ApprovalStands, requestVars
<1> HIDE DEF v
<1>2. StageOf(v) = "approved"
  BY <1>1 DEF StageOf
<1>3. \A n \in Versions : n > v => StageOf(n) # "approved"
  BY <1>1 DEF Overtaken, StageOf
<1>4. StagesNow' = StagesNow
  BY <1>1, StagesUntouched
<1>5. Lifecycle!GoLive(v)
  BY <1>1, <1>2, <1>3, <1>4, SameVersions DEF Lifecycle!GoLive, StagesNow
<1> QED
  BY <1>5 DEF v

\* A withdrawal retires the document and calls the pending review off.
LEMMA WithdrawMaps ==
  ASSUME IInv, Withdraw
  PROVE  Lifecycle!Retire
<1> DEFINE pending == {v \in Versions : reqState[v] = "pending"}
<1>1. /\ TypeOK /\ ~withdrawn /\ withdrawn' /\ withdrawn' = TRUE
      /\ reqState' = [v \in Versions |-> IF reqState[v] = "pending"
                                           THEN "cancelled" ELSE reqState[v]]
      /\ UNCHANGED <<review, current>>
  BY DEF IInv, Withdraw, WithdrawEffect, OwnerMayAct
<1>2. \A v \in pending : StageOf(v) = "open" /\ StageOf(v)' = "called_off"
  BY <1>1 DEF IInv, RequestAgrees, StageOf
<1>3. \A v \in Versions : v \notin pending => StageOf(v)' = StageOf(v)
  BY <1>1 DEF StageOf
<1>4. StagesNow' = [v \in Versions |-> IF v \in pending THEN "called_off" ELSE StagesNow[v]]
  BY <1>2, <1>3 DEF StagesNow
<1>5. pending \in SUBSET {v \in Versions : StagesNow[v] = "open"}
  BY <1>2 DEF StagesNow
<1> HIDE DEF pending
<1> QED
  BY <1>1, <1>4, <1>5, SameVersions DEF Lifecycle!Retire, StagesNow

\* Every step of the detailed system is a step of the lifecycle or leaves it alone.
LEMMA NextMaps ==
  ASSUME IInv, IInv', [Next]_vars
  PROVE  [Lifecycle!Next]_<<StagesNow, current, withdrawn>>
<1>1. UNCHANGED <<review, reqState, current, withdrawn>>
        => UNCHANGED <<StagesNow, current, withdrawn>>
  BY StagesUntouched
<1>2. CASE OwnerStep
  <2>1. CASE CommitRevision \/ Rollback
    <3>1. latest + 1 \in Versions
      BY <2>1, BoundsAssumption DEF CommitRevision, Rollback, InsertDraft, IInv, TypeOK, Versions
    <3> QED
      BY <2>1, <3>1, CommitRevisionMaps, RollbackMaps, SameVersions DEF Lifecycle!Next
  <2>2. ASSUME NEW reviewers \in [1..rule -> People], NEW f \in BOOLEAN,
               NEW e \in {"never", "future"}, Submit(reviewers, f, e)
        PROVE  UNCHANGED <<StagesNow, current, withdrawn>>
    <3>1. PICK v \in Versions : v = latest
      BY DEF IInv, TypeOK
    <3>2. /\ review[v] = "draft" /\ review' = [review EXCEPT ![v] = "in_review"]
          /\ reqState' = [reqState EXCEPT ![v] = "pending"]
          /\ UNCHANGED <<current, withdrawn>> /\ TypeOK
      BY <2>2, <3>1 DEF Submit, docVars, IInv
    <3>3. reqState[v] = "none"
      BY <3>2 DEF IInv, RequestAgrees
    <3>4. \A n \in Versions : StageOf(n)' = StageOf(n)
      BY <3>2, <3>3 DEF StageOf, TypeOK
    <3> QED
      BY <3>2, <3>4 DEF StagesNow
  <2>3. ASSUME NEW v \in Versions, Retry(v)
        PROVE  UNCHANGED <<StagesNow, current, withdrawn>>
    BY <1>1, <2>3 DEF Retry, requestVars, docVars
  <2>4. CASE Withdraw
    BY <2>4, WithdrawMaps DEF Lifecycle!Next
  <2> QED
    BY <1>2, <2>1, <2>2, <2>3, <2>4 DEF OwnerStep
<1>3. CASE ReviewerStep
  <2>1. ASSUME NEW v \in Versions, NEW p \in People, ResolveFinding(v, p)
        PROVE  UNCHANGED <<StagesNow, current, withdrawn>>
    BY <1>1, <2>1 DEF ResolveFinding, requestVars, docVars
  <2>2. ASSUME NEW v \in Versions, NEW i \in DOMAIN steps[v], Approve(v, i)
        PROVE  [Lifecycle!Next]_<<StagesNow, current, withdrawn>>
    BY <1>1, <2>2, DecisionMaps, SameVersions DEF Lifecycle!Next
  <2>3. ASSUME NEW v \in Versions, NEW i \in DOMAIN steps[v],
               NEW d \in Decisions \ {"approve"}, TurnDown(v, i, d)
        PROVE  Lifecycle!Next
    BY <2>3, DecisionMaps, SameVersions DEF Lifecycle!Next
  <2> QED
    BY <1>3, <2>1, <2>2, <2>3 DEF ReviewerStep
<1>4. ASSUME NEW w \in Workers, ClaimStep(w) \/ FinishStep(w)
      PROVE  [Lifecycle!Next]_<<StagesNow, current, withdrawn>>
  <2>1. CASE Publish(w)
    <3>1. claim[w] \in Versions
      BY <2>1, PublishMovesForward
    <3> QED
      BY <2>1, <3>1, PublishMaps, SameVersions DEF Lifecycle!Next
  <2>2. CASE ClaimStep(w) \/ PublishStale(w) \/ Fail(w) \/ Crash(w)
    BY <1>1, <2>2 DEF ClaimStep, ClaimJob, ClaimNothing, PublishStale, Fail, Crash,
                      versionVars, requestVars, docVars
  <2> QED
    BY <1>4, <2>1, <2>2 DEF FinishStep
<1>5. CASE ClockStep \/ AdminStep \/ UNCHANGED vars
  BY <1>1, <1>5 DEF ClockStep, LeaseLapses, BackoffElapses, Expire, AdminStep, ChangeRule,
                    ChangeAccess, vars, versionVars, requestVars, docVars
<1> QED
  BY <1>2, <1>3, <1>4, <1>5 DEF Next

\* The review, the queue, the workers and their crashes implement the lifecycle a reader of
\* the portal sees, for any number of people, workers, versions and attempts.
THEOREM ImplementsLifecycleHolds == Spec => ImplementsLifecycle
<1>1. IInv /\ IInv' /\ [Next]_vars
        => [Lifecycle!Next]_<<[v \in Versions |-> StageOf(v)], current, withdrawn>>
  BY NextMaps DEF StagesNow
<1> QED
  BY <1>1, InitMaps, AlwaysSafe, PTL DEF Spec, ImplementsLifecycle, Lifecycle!Spec
-----------------------------------------------------------------------------
(* The retention pass.                                                      *)

\* What the pass is about to write is a version of the document.
ChoiceIsVersion == pass.does # "nothing" => pass.version \in Versions

\* No review is pending on a withdrawn document: what nobody can decide is closed.
PendingIsLive == \A v \in Versions : reqState[v] = "pending" => ~withdrawn

ArchivedIsWithdrawn == archivedBy # {} => withdrawn

RInv ==
  /\ IInv
  /\ RetentionTypeOK
  /\ ChoiceIsVersion
  /\ PendingIsLive
  /\ ArchivedIsWithdrawn

\* Before the first pass nothing is chosen or archived.
LEMMA RetentionInitSafe == RetentionInit => RInv
<1> SUFFICES ASSUME RetentionInit PROVE RInv
  OBVIOUS
<1>1. IInv
  BY InitSafe DEF RetentionInit
<1>2. RetentionTypeOK /\ ChoiceIsVersion
  BY <1>1 DEF IInv, RetentionInit, RetentionTypeOK, ChoiceIsVersion, Passes, Idle, NoVersion
<1>3. PendingIsLive /\ ArchivedIsWithdrawn
  BY DEF RetentionInit, Init, PendingIsLive, ArchivedIsWithdrawn
<1> QED
  BY <1>1, <1>2, <1>3 DEF RInv

\* No step of owner, reviewers, workers, clock or administrators opens a review of a
\* withdrawn document, or brings a withdrawn document back.
LEMMA WithdrawnStays ==
  ASSUME IInv, [Next]_vars
  PROVE  /\ withdrawn => withdrawn'
         /\ PendingIsLive => PendingIsLive'
<1>1. TypeOK
  BY DEF IInv
<1>2. CASE CommitRevision
  BY <1>1, <1>2 DEF CommitRevision, PendingIsLive, docVars, InsertDraft, OwnerMayAct, TypeOK
<1>3. CASE Rollback
  BY <1>3 DEF Rollback, PendingIsLive, requestVars, docVars
<1>4. ASSUME NEW reviewers \in [1..rule -> People], NEW f \in BOOLEAN,
             NEW e \in {"never", "future"}, Submit(reviewers, f, e)
      PROVE  (withdrawn => withdrawn') /\ PendingIsLive'
  BY <1>4 DEF Submit, OwnerMayAct, PendingIsLive, docVars
<1>5. CASE Withdraw
  BY <1>5 DEF Withdraw, WithdrawEffect, PendingIsLive
<1>6. ASSUME NEW v \in Versions, Retry(v)
      PROVE  UNCHANGED <<reqState, withdrawn>>
  BY <1>6 DEF Retry, requestVars, docVars
<1>7. CASE ReviewerStep
  <2>1. UNCHANGED withdrawn /\ \A v \in Versions : reqState'[v] = "pending" => reqState[v] = "pending"
    BY <1>1, <1>7 DEF ReviewerStep, ResolveFinding, Approve, TurnDown, requestVars, docVars, TypeOK
  <2> QED
    BY <2>1 DEF PendingIsLive
<1>8. CASE \/ \E w \in Workers : ClaimStep(w) \/ FinishStep(w)
           \/ ClockStep \/ AdminStep \/ UNCHANGED vars
  <2>1. UNCHANGED <<reqState, withdrawn>>
    BY <1>8 DEF ClaimStep, ClaimJob, ClaimNothing, FinishStep, Publish, PublishStale, Fail, Crash,
                ClockStep, LeaseLapses, BackoffElapses, Expire, AdminStep, ChangeRule,
                ChangeAccess, vars, requestVars, docVars
  <2> QED
    BY <2>1 DEF PendingIsLive
<1> QED
  BY <1>2, <1>3, <1>4, <1>5, <1>6, <1>7, <1>8 DEF Next, OwnerStep, PendingIsLive

\* The write of the pass keeps the invariant of the workflow although it checks nothing.
LEMMA ArchiveSafe == RInv /\ Archive => RInv'
<1> SUFFICES ASSUME RInv, Archive PROVE RInv'
  OBVIOUS
<1>1. IInv /\ TypeOK /\ RetentionTypeOK
  BY DEF RInv, IInv
<1>2. TypeOK'
  <2>1. job' \in [Versions -> Jobs]
    BY <1>1, JobsStayJobs DEF Archive, WithdrawEffect
  <2>2. publication' \in [Versions -> PublicationStates] /\ reqState' \in [Versions -> RequestStates]
    BY <1>1 DEF Archive, WithdrawEffect, TypeOK, PublicationStates, RequestStates
  <2> QED
    BY <1>1, <2>1, <2>2 DEF Archive, WithdrawEffect, TypeOK, adminVars
<1>3. IInv'
  BY <1>1, <1>2, WithdrawEffectSafe DEF Archive
<1>4. PendingIsLive' /\ ArchivedIsWithdrawn'
  BY DEF Archive, WithdrawEffect, PendingIsLive, ArchivedIsWithdrawn
<1>5. RetentionTypeOK' /\ ChoiceIsVersion'
  BY <1>1, <1>2 DEF RInv, Archive, RetentionTypeOK, ChoiceIsVersion, Passes, Idle
<1> QED
  BY <1>3, <1>4, <1>5 DEF RInv

\* Steps of the workflow between those of the pass keep the invariant, and so does every
\* step of the pass.
LEMMA RetentionNextSafe == RInv /\ [RetentionNext]_allVars => RInv'
<1> SUFFICES ASSUME RInv, [RetentionNext]_allVars PROVE RInv'
  OBVIOUS
<1>1. IInv /\ TypeOK /\ RetentionTypeOK
  BY DEF RInv, IInv
<1>2. CASE Archive
  BY <1>2, ArchiveSafe
<1>3. ASSUME [Next]_vars, UNCHANGED retentionVars
      PROVE  RInv'
  <2>1. IInv' /\ TypeOK'
    BY <1>1, <1>3, NextSafe DEF IInv
  <2>2. (withdrawn => withdrawn') /\ PendingIsLive'
    BY <1>1, <1>3, WithdrawnStays DEF RInv
  <2>3. RetentionTypeOK' /\ ChoiceIsVersion' /\ ArchivedIsWithdrawn'
    BY <1>1, <1>3, <2>1, <2>2 DEF RInv, retentionVars, RetentionTypeOK, ChoiceIsVersion, ArchivedIsWithdrawn
  <2> QED
    BY <2>1, <2>2, <2>3 DEF RInv
<1>4. ASSUME UNCHANGED vars, UNCHANGED archivedBy, RetentionTypeOK', ChoiceIsVersion'
      PROVE  RInv'
  <2>1. IInv'
    BY <1>1, <1>4, NextSafe
  <2>2. PendingIsLive' /\ ArchivedIsWithdrawn'
    BY <1>4 DEF RInv, vars, requestVars, docVars, PendingIsLive, ArchivedIsWithdrawn
  <2> QED
    BY <1>4, <2>1, <2>2 DEF RInv
<1>5. UNCHANGED vars => TypeOK'
  BY <1>1, NextTyped
<1>6. CASE ChooseExpired \/ ChooseOverdue
  <2>1. current \in Versions
    BY <1>1, <1>6 DEF ChooseExpired, ChooseOverdue, TypeOK
  <2>2. RetentionTypeOK' /\ ChoiceIsVersion'
    BY <1>1, <1>5, <1>6, <2>1
       DEF ChooseExpired, ChooseOverdue, RetentionTypeOK, ChoiceIsVersion, Passes
  <2> QED
    BY <1>4, <1>6, <2>2 DEF ChooseExpired, ChooseOverdue
<1>7. CASE Escalate
  <2>1. RetentionTypeOK' /\ ChoiceIsVersion'
    BY <1>1, <1>5, <1>7 DEF RInv, Escalate, RetentionTypeOK, ChoiceIsVersion, Passes, Idle, NoVersion
  <2> QED
    BY <1>4, <1>7, <2>1 DEF Escalate
<1>8. CASE Reaffirm
  <2>1. RetentionTypeOK' /\ ChoiceIsVersion'
    BY <1>1, <1>5, <1>8 DEF RInv, Reaffirm, RetentionTypeOK, ChoiceIsVersion
  <2> QED
    BY <1>4, <1>8, <2>1 DEF Reaffirm
<1>9. ASSUME NEW v \in Versions, ReviewNears(v) \/ GraceEnds(v) PROVE RInv'
  <2>1. RetentionTypeOK' /\ ChoiceIsVersion'
    BY <1>1, <1>5, <1>9 DEF RInv, ReviewNears, GraceEnds, RetentionTypeOK, ChoiceIsVersion
  <2> QED
    BY <1>4, <1>9, <2>1 DEF ReviewNears, GraceEnds
<1>10. CASE WorkflowStep \/ AdminBetweenPasses \/ UNCHANGED allVars
  BY <1>3, <1>10 DEF WorkflowStep, AdminBetweenPasses, Next, allVars
<1> QED
  BY <1>2, <1>6, <1>7, <1>8, <1>9, <1>10 DEF RetentionNext, PassStep

\* The invariant of the workflow next to the retention pass.
LEMMA RetentionAlwaysSafe == RetentionSpec => []RInv
BY RetentionInitSafe, RetentionNextSafe, PTL DEF RetentionSpec

-----------------------------------------------------------------------------
\* What the pass chooses and records stays within its type.
THEOREM RetentionTypeCorrect == RetentionSpec => []RetentionTypeOK
<1>1. RInv => RetentionTypeOK
  BY DEF RInv
<1> QED
  BY <1>1, RetentionAlwaysSafe, PTL

\* Whichever steps of owner, reviewers and workers come between the choice of the pass and
\* its write, an archived document has nothing published, queued or pending, for ever after.
THEOREM ArchiveIsCompleteHolds == RetentionSpec => []ArchiveIsComplete
<1>1. RInv => ArchiveIsComplete
  BY DEF RInv, IInv, ArchiveIsComplete, ArchivedIsWithdrawn, PendingIsLive, PointerAgrees,
         OpenJobIsWanted
<1> QED
  BY <1>1, RetentionAlwaysSafe, PTL

\* The pass, which takes no document lock, does not make pointer and publication state
\* disagree.
THEOREM RetentionKeepsPointer == RetentionSpec => []PointerAgrees
<1>1. RInv => PointerAgrees
  BY DEF RInv, IInv
<1> QED
  BY <1>1, RetentionAlwaysSafe, PTL
=============================================================================
