--------------------------- MODULE RagExportProofs ---------------------------
(***************************************************************************)
(* Theorems about the export to WeKnora, for any number of versions,        *)
(* attempts and exporters:                                                  *)
(*   RagTypeCorrect           the type invariant                            *)
(*   QueueTellsTheTruthHolds  no job is closed on a lie, whoever overtook   *)
(*                            whom                                          *)
(*   OneRecordHolds           WeKnora holds one record of a version, but    *)
(*                            for creations whose caller was gone           *)
(* and, for a worker that exports alone,                                    *)
(*   IndexedIsSearchableHolds what counts as indexed is in WeKnora, late    *)
(*                            answers or not                                *)
(***************************************************************************)
EXTENDS RagExport, TLAPS

Busy == Calling \cup {"failed"}

\* An exporter at work has a version at hand.
HandsNameVersions == \A w \in Exporters : at[w] \in Busy => hand[w].version \in Versions

Typed == RagTypeOK /\ HandsNameVersions

-----------------------------------------------------------------------------
(* Types.                                                                   *)

\* What the SQL functions write into a row of the queue keeps it a row of the queue.
LEMMA RowUpdates ==
  ASSUME NEW j \in Jobs
  PROVE  /\ [j EXCEPT !.lapsed = TRUE] \in Jobs
         /\ [j EXCEPT !.state = "done", !.lapsed = FALSE] \in Jobs
         /\ [j EXCEPT !.state = "dead", !.lapsed = FALSE] \in Jobs
         /\ [j EXCEPT !.state = "pending", !.lapsed = FALSE] \in Jobs
         /\ \A w \in Exporters : j.attempts < MaxAttempts =>
              [j EXCEPT !.state = "running", !.attempts = @ + 1, !.holder = w, !.lapsed = FALSE]
                \in Jobs
         /\ GivenUp(j) \in Jobs
<1>1. \A s \in {"done", "dead", "pending", "running"}, l \in BOOLEAN :
        [j EXCEPT !.state = s, !.lapsed = l] \in Jobs
  BY DEF Jobs
<1>2. \A s \in {"dead"} : [j EXCEPT !.state = s] \in Jobs
  BY DEF Jobs
<1>3. [j EXCEPT !.lapsed = TRUE] \in Jobs
  BY DEF Jobs
<1>4. ASSUME NEW w \in Exporters, j.attempts < MaxAttempts
      PROVE  [j EXCEPT !.state = "running", !.attempts = @ + 1, !.holder = w, !.lapsed = FALSE]
               \in Jobs
  <2>1. j.attempts + 1 \in 0..MaxAttempts
    BY <1>4, LimitsAssumption DEF Jobs
  <2> QED
    BY <2>1 DEF Jobs
<1>5. GivenUp(j) \in Jobs
  BY <1>2 DEF GivenUp
<1> QED
  BY <1>1, <1>3, <1>4, <1>5

LEMMA NewRows ==
  /\ NoJob \in Jobs /\ Queued("upsert") \in Jobs /\ Queued("remove") \in Jobs
  /\ NoClaim \in Claims
<1>1. 0 \in 0..MaxAttempts
  BY LimitsAssumption
<1>2. NoJob \in Jobs
  BY <1>1 DEF NoJob, Jobs
<1>3. Queued("upsert") \in Jobs /\ Queued("remove") \in Jobs
  BY <1>2 DEF Queued, Jobs
<1>4. NoClaim \in Claims
  BY DEF NoClaim, Claims
<1> QED
  BY <1>2, <1>3, <1>4

LEMMA FoundIsRecord ==
  ASSUME NEW v, NEW k \in Knowledge, Found(v) = k
  PROVE  k \in Present(v)
BY LimitsAssumption DEF Found, NoKnowledge, Knowledge

LEMMA FoundTyped == ASSUME NEW v PROVE Found(v) \in Knowledge \cup {NoKnowledge}
BY DEF Found

LEMMA RagInitTyped == RagInit => Typed
<1> SUFFICES ASSUME RagInit PROVE Typed
  OBVIOUS
<1>1. stage \in [Versions -> Stages] /\ live \in Versions \cup {0} /\ retired \in BOOLEAN
  BY DEF RagInit, Init, Stages
<1>2. job \in [Versions -> Jobs] /\ hand \in [Exporters -> Claims]
  BY NewRows DEF RagInit
<1>3. /\ expired \in SUBSET Versions
      /\ entry \in [Versions -> Knowledge \cup {NoKnowledge}]
      /\ store \in [Versions -> [Knowledge -> {"never", "stored", "searchable", "deleted"}]]
      /\ late \in [Versions -> Nat] /\ astray \in SUBSET Versions
      /\ at \in [Exporters -> Places]
      /\ known \in [Exporters -> SUBSET Versions]
      /\ doomed \in [Exporters -> SUBSET (Versions \X Knowledge)]
  BY DEF RagInit, Places
<1>4. HandsNameVersions
  BY DEF RagInit, HandsNameVersions, Busy, Calling
<1> QED
  BY <1>1, <1>2, <1>3, <1>4 DEF Typed, RagTypeOK

\* The document's own steps keep its variables typed.
LEMMA DocumentTyped ==
  ASSUME RagTypeOK, Next
  PROVE  stage' \in [Versions -> Stages] /\ live' \in Versions \cup {0} /\ retired' \in BOOLEAN
<1>1. ASSUME NEW v \in Versions, Open(v)
      PROVE  stage' \in [Versions -> Stages] /\ live' = live /\ retired' = retired
  BY <1>1 DEF Open, RagTypeOK, Stages
<1>2. ASSUME NEW v \in Versions, NEW verdict \in {"approved", "closed"}, Judge(v, verdict)
      PROVE  stage' \in [Versions -> Stages] /\ live' = live /\ retired' = retired
  BY <1>2 DEF Judge, RagTypeOK, Stages
<1>3. ASSUME NEW v \in Versions, GoLive(v)
      PROVE  stage' = stage /\ live' = v /\ retired' = retired
  BY <1>3 DEF GoLive
<1>4. ASSUME Retire
      PROVE  stage' \in [Versions -> Stages] /\ live' = live /\ retired' = TRUE
  BY <1>4 DEF Retire, RagTypeOK, Stages
<1> QED
  BY <1>1, <1>2, <1>3, <1>4 DEF Next, RagTypeOK

LEMMA TypedStep == Typed /\ [RagNext]_ragVars => Typed'
<1> SUFFICES ASSUME Typed, [RagNext]_ragVars PROVE Typed'
  OBVIOUS
<1> USE DEF Typed, HandsNameVersions, Busy, Calling, Places
<1>1. CASE DocumentStep
  BY <1>1, DocumentTyped DEF DocumentStep, RagTypeOK, indexVars, sweepVars
<1>2. ASSUME NEW v \in Versions, Expire(v) PROVE Typed'
  BY <1>2 DEF Expire, RagTypeOK, indexVars, sweepVars
<1>3. ASSUME NEW v \in Versions, LeaseLapses(v) PROVE Typed'
  BY <1>3, RowUpdates DEF LeaseLapses, RagTypeOK, documentVars, indexVars, sweepVars
<1>4. ASSUME NEW v \in Versions, CreateLate(v) PROVE Typed'
  BY <1>4 DEF CreateLate, Fresh, RagTypeOK, documentVars, sweepVars
<1>5. ASSUME NEW w \in Exporters, Reconcile(w) PROVE Typed'
  BY <1>5, NewRows DEF Reconcile, RagTypeOK, documentVars, indexVars, sweepVars
<1>6. ASSUME NEW w \in Exporters, ClaimNothing(w) PROVE Typed'
  <2>1. \A v \in Versions : GivenUp(job[v]) \in Jobs
    BY RowUpdates DEF RagTypeOK
  <2> QED
    BY <1>6, <2>1 DEF ClaimNothing, RagTypeOK, documentVars, indexVars, sweepVars
<1>7. ASSUME NEW w \in Exporters, NEW v \in Versions, ClaimJob(w, v) PROVE Typed'
  <2>1. \A n \in Versions : GivenUp(job[n]) \in Jobs
    BY RowUpdates DEF RagTypeOK
  <2>2. job[v].attempts < MaxAttempts
    BY <1>7 DEF ClaimJob, Claimable
  <2>3. job' \in [Versions -> Jobs]
    BY <1>7, <2>1, <2>2, RowUpdates DEF ClaimJob, RagTypeOK
  <2>4. [version |-> v, operation |-> job[v].operation, knowledge |-> entry[v]] \in Claims
    BY DEF RagTypeOK, Claims, Jobs
  <2>5. hand' \in [Exporters -> Claims] /\ hand'[w].version = v
    BY <1>7, <2>4 DEF ClaimJob, RagTypeOK
  <2>6. \A x \in Exporters \ {w} : hand'[x] = hand[x] /\ at'[x] = at[x]
    BY <1>7 DEF ClaimJob, RagTypeOK
  <2>7. at' \in [Exporters -> Places]
    BY <1>7 DEF ClaimJob, RagTypeOK
  <2> QED
    BY <1>7, <2>3, <2>5, <2>6, <2>7 DEF ClaimJob, RagTypeOK, documentVars, indexVars, sweepVars
<1>8. ASSUME NEW w \in Exporters, LookUp(w) PROVE Typed'
  <2>1. [hand[w] EXCEPT !.knowledge = Found(hand[w].version)] \in Claims
    BY FoundTyped DEF RagTypeOK, Claims
  <2>2. hand' \in [Exporters -> Claims]
    BY <1>8, <2>1 DEF LookUp, RagTypeOK
  <2>3. \A x \in Exporters : hand'[x].version = hand[x].version
    <3>1. CASE hand[w].knowledge = NoKnowledge
      <4>1. hand' = [hand EXCEPT ![w] = [@ EXCEPT !.knowledge = Found(hand[w].version)]]
        BY <1>8, <3>1 DEF LookUp
      <4>2. hand \in [Exporters -> Claims] BY DEF RagTypeOK
      <4> QED BY <4>1, <4>2 DEF Claims
    <3>2. CASE hand[w].knowledge # NoKnowledge
      BY <1>8, <3>2 DEF LookUp
    <3> QED BY <3>1, <3>2
  <2> QED
    BY <1>8, <2>2, <2>3 DEF LookUp, RagTypeOK, documentVars, indexVars, sweepVars
<1>9. ASSUME NEW w \in Exporters, Update(w) PROVE Typed'
  BY <1>9 DEF Update, Present, RagTypeOK, documentVars, sweepVars
<1>10. ASSUME NEW w \in Exporters, Create(w) PROVE Typed'
  <2>1. PICK k \in Knowledge : /\ store' = [store EXCEPT ![hand[w].version][k] = "stored"]
                               /\ hand' = [hand EXCEPT ![w] = [@ EXCEPT !.knowledge = k]]
    BY <1>10 DEF Create
  <2>2. [hand[w] EXCEPT !.knowledge = k] \in Claims
    BY DEF RagTypeOK, Claims
  <2>3. hand' \in [Exporters -> Claims]
    BY <2>1, <2>2 DEF RagTypeOK
  <2>4. \A x \in Exporters : hand'[x].version = hand[x].version
    BY <2>1 DEF RagTypeOK, Claims
  <2>5. store' \in [Versions -> [Knowledge -> {"never", "stored", "searchable", "deleted"}]]
    BY <2>1 DEF RagTypeOK
  <2>6. astray' \in SUBSET Versions
    BY <1>10 DEF Create, RagTypeOK
  <2> QED
    BY <1>10, <2>3, <2>4, <2>5, <2>6 DEF Create, RagTypeOK, documentVars, sweepVars
<1>11. ASSUME NEW w \in Exporters, Reparse(w) PROVE Typed'
  BY <1>11 DEF Reparse, Reparsed, Present, RagTypeOK, documentVars, sweepVars
<1>12. ASSUME NEW w \in Exporters, RemoveRecord(w) PROVE Typed'
  BY <1>12 DEF RemoveRecord, Deleted, Present, RagTypeOK, documentVars, sweepVars
<1>13. ASSUME NEW w \in Exporters, Complete(w) PROVE Typed'
  <2>1. hand[w].version \in Versions /\ job[hand[w].version] \in Jobs
    BY <1>13 DEF Complete, RagTypeOK
  <2>2. job' \in [Versions -> Jobs]
    BY <1>13, <2>1, RowUpdates DEF Complete, RagTypeOK
  <2>3. EntryAfter(w, hand[w].version) \in Knowledge \cup {NoKnowledge}
    BY DEF EntryAfter, RagTypeOK, Claims
  <2> QED
    BY <1>13, <2>1, <2>2, <2>3, NewRows DEF Complete, RagTypeOK, documentVars, indexVars, sweepVars
<1>14. ASSUME NEW w \in Exporters, CompleteTooLate(w) PROVE Typed'
  BY <1>14, NewRows DEF CompleteTooLate, RagTypeOK, documentVars, indexVars, sweepVars
<1>15. ASSUME NEW w \in Exporters, Fail(w) PROVE Typed'
  <2>1. hand[w].version \in Versions /\ job[hand[w].version] \in Jobs
    BY <1>15 DEF Fail, RagTypeOK
  <2>2. job' \in [Versions -> Jobs]
    BY <1>15, <2>1, RowUpdates DEF Fail, RagTypeOK
  <2> QED
    BY <1>15, <2>2, NewRows DEF Fail, RagTypeOK, documentVars, indexVars, sweepVars
<1>16. ASSUME NEW w \in Exporters, StartSweep(w) PROVE Typed'
  BY <1>16 DEF StartSweep, KnownVersions, RagTypeOK, documentVars, indexVars
<1>17. ASSUME NEW w \in Exporters, ListRecords(w) PROVE Typed'
  <2>1. PICK page \in SUBSET AllRecords :
          doomed' = [doomed EXCEPT ![w] = {r \in page : r[1] \notin known[w]}]
    BY <1>17 DEF ListRecords
  <2>2. {r \in page : r[1] \notin known[w]} \in SUBSET (Versions \X Knowledge)
    BY DEF AllRecords
  <2> QED
    BY <1>17, <2>1, <2>2 DEF ListRecords, RagTypeOK, documentVars, indexVars
<1>18. ASSUME NEW w \in Exporters, RemoveOrphan(w) PROVE Typed'
  <2>1. PICK r \in doomed[w] : /\ store' = Deleted(r[1], r[2])
                               /\ doomed' = [doomed EXCEPT ![w] = @ \ {r}]
    BY <1>18 DEF RemoveOrphan
  <2>2. r[1] \in Versions /\ r[2] \in Knowledge
    BY DEF RagTypeOK
  <2>3. store' \in [Versions -> [Knowledge -> {"never", "stored", "searchable", "deleted"}]]
    BY <2>1, <2>2 DEF Deleted, RagTypeOK
  <2> QED
    BY <1>18, <2>1, <2>3 DEF RemoveOrphan, RagTypeOK, documentVars
<1>19. ASSUME NEW w \in Exporters, EndSweep(w) PROVE Typed'
  BY <1>19 DEF EndSweep, RagTypeOK, documentVars, indexVars, sweepVars
<1>20. ASSUME NEW w \in Exporters, CreateUnanswered(w) PROVE Typed'
  BY <1>20 DEF CreateUnanswered, RagTypeOK, documentVars, sweepVars
<1>21. ASSUME NEW w \in Exporters, CallFails(w) PROVE Typed'
  BY <1>21 DEF CallFails, RagTypeOK, documentVars, indexVars, sweepVars
<1>22. ASSUME NEW w \in Exporters, Crash(w) PROVE Typed'
  BY <1>22, NewRows DEF Crash, RagTypeOK, documentVars, indexVars
<1>23. CASE UNCHANGED ragVars
  BY <1>23 DEF RagTypeOK, ragVars, documentVars, indexVars, sweepVars
<1> QED
  BY <1>1, <1>2, <1>3, <1>4, <1>5, <1>6, <1>7, <1>8, <1>9, <1>10, <1>11, <1>12, <1>13, <1>14,
     <1>15, <1>16, <1>17, <1>18, <1>19, <1>20, <1>21, <1>22, <1>23
  DEF RagNext, QueueStep, ExportStep, SweepStep, TroubleStep

\* Every variable of the export keeps its type.
THEOREM RagTypeCorrect == RagSpec => []RagTypeOK
<1>1. Typed /\ [RagNext]_ragVars => Typed'
  BY TypedStep
<1>2. Typed => RagTypeOK
  BY DEF Typed
<1> QED
  BY <1>1, <1>2, RagInitTyped, PTL DEF RagSpec

-----------------------------------------------------------------------------
(* The queue.  Jobs are only ever queued for versions that are or were live, and a  *)
(* version that stopped being live never is again: an export that is done, or a     *)
(* removal that is queued, stays right whatever the document does.                  *)

JobsFollowTheDocument ==
  \A v \in Versions :
    /\ job[v].state # "absent" => job[v].operation # "none"
    /\ job[v].operation # "none" => v <= live
    /\ job[v].operation = "remove" => ~Indexable(v)
    /\ entry[v] # NoKnowledge => job[v].operation # "none"

\* The exporter whose token the job carries.
OwnJob(w) == job[hand[w].version].state = "running" /\ job[hand[w].version].holder = w

\* What an exporter does is what its claim says, and what the job says while it is its own.
ClaimsMatchJobs ==
  \A w \in Exporters :
    /\ at[w] \in Calling => hand[w].operation \in {"upsert", "remove"}
    /\ at[w] \in {"lookup", "write", "reparse"} => hand[w].operation = "upsert"
    /\ at[w] = "remove" => hand[w].operation = "remove"
    /\ at[w] \in {"reparse", "report"} /\ hand[w].operation = "upsert"
         => hand[w].knowledge # NoKnowledge
    /\ at[w] \in Calling /\ OwnJob(w) => job[hand[w].version].operation = hand[w].operation

QueueInv == Typed /\ QueueTellsTheTruth /\ JobsFollowTheDocument /\ ClaimsMatchJobs

LEMMA RagInitQueue == RagInit => QueueInv
<1> SUFFICES ASSUME RagInit PROVE QueueInv
  OBVIOUS
<1>1. Typed
  BY RagInitTyped
<1>2. QueueTellsTheTruth /\ JobsFollowTheDocument
  BY DEF RagInit, NoJob, NoKnowledge, QueueTellsTheTruth, JobsFollowTheDocument
<1>3. ClaimsMatchJobs
  BY DEF RagInit, ClaimsMatchJobs, Calling
<1> QED
  BY <1>1, <1>2, <1>3 DEF QueueInv

\* The live version only moves forward, so what was live once and no longer is stays so.
LEMMA LiveMovesForward ==
  ASSUME Typed, [RagNext]_ragVars
  PROVE  \A v \in Versions : v <= live => v <= live' /\ (Indexable(v)' => Indexable(v))
<1>1. CASE DocumentStep
  <2>1. live' = live \/ (live' \in Versions /\ live' > live)
    BY <1>1 DEF DocumentStep, Next, Open, Judge, GoLive, Retire
  <2>2. retired' = FALSE => retired = FALSE
    BY <1>1 DEF DocumentStep, Next, Open, Judge, GoLive, Retire
  <2>3. expired' = expired
    BY <1>1 DEF DocumentStep
  <2>4. retired \in BOOLEAN /\ retired' \in BOOLEAN
    BY TypedStep DEF Typed, RagTypeOK
  <2>5. \A v \in Versions : v <= live => v <= live' /\ (v = live' => v = live)
    BY <2>1, LimitsAssumption DEF Versions, Typed, RagTypeOK
  <2> QED
    BY <2>2, <2>3, <2>4, <2>5 DEF Indexable
<1>2. ASSUME NEW v \in Versions, Expire(v)
      PROVE  live' = live /\ retired' = retired /\ expired \subseteq expired'
  BY <1>2 DEF Expire
<1>3. CASE UNCHANGED documentVars
  BY <1>3 DEF documentVars, Indexable
<1>4. DocumentStep \/ (\E v \in Versions : Expire(v)) \/ UNCHANGED documentVars
  BY DEF RagNext, ragVars, LeaseLapses, CreateLate, QueueStep, ExportStep, SweepStep,
    TroubleStep, Reconcile, ClaimNothing, ClaimJob, LookUp, Update, Create, Reparse,
    RemoveRecord, Complete, CompleteTooLate, Fail, StartSweep, ListRecords, RemoveOrphan,
    EndSweep, CreateUnanswered, CallFails, Crash
<1> QED
  BY <1>1, <1>2, <1>3, <1>4 DEF Indexable

\* A step that writes neither the queue nor the entries leaves both as true as they were.
LEMMA DocumentMoves ==
  ASSUME QueueInv, [RagNext]_ragVars, UNCHANGED <<job, entry>>
  PROVE  QueueTellsTheTruth' /\ JobsFollowTheDocument'
<1>1. \A v \in Versions : v <= live => v <= live' /\ (Indexable(v)' => Indexable(v))
  BY LiveMovesForward DEF QueueInv
<1>2. JobsFollowTheDocument'
  BY <1>1 DEF QueueInv, JobsFollowTheDocument
<1>3. ASSUME NEW v \in Versions, job[v].state = "done"
      PROVE  Indexable(v)' => Indexable(v)
  BY <1>1, <1>3 DEF QueueInv, JobsFollowTheDocument
<1>4. QueueTellsTheTruth'
  BY <1>3 DEF QueueInv, QueueTellsTheTruth
<1> QED
  BY <1>2, <1>4

\* Rewriting jobs: what each new row must satisfy for the queue to stay true, when
\* entries and document stay.
LEMMA QueueMoves ==
  ASSUME QueueInv, UNCHANGED <<documentVars, entry>>,
         \A v \in Versions :
           \/ job'[v] = job[v]
           \/ /\ job'[v].operation = job[v].operation
              /\ job'[v].state \notin {"absent", "done"}
              /\ job[v].state \notin {"absent", "done"}
           \/ /\ job'[v].operation = "upsert" /\ job'[v].state = "pending"
              /\ Indexable(v) /\ entry[v] = NoKnowledge
           \/ /\ job'[v].operation = "remove" /\ job'[v].state = "pending"
              /\ ~Indexable(v) /\ entry[v] # NoKnowledge
  PROVE  QueueTellsTheTruth' /\ JobsFollowTheDocument'
<1>1. \A v \in Versions : Indexable(v)' = Indexable(v) /\ (Indexable(v) => v <= live)
  BY LimitsAssumption DEF Indexable, documentVars, Versions
<1>2. live' = live /\ entry' = entry
  BY DEF documentVars
<1>3. QueueTellsTheTruth'
  BY <1>1, <1>2 DEF QueueInv, QueueTellsTheTruth
<1>4. JobsFollowTheDocument'
  BY <1>1, <1>2 DEF QueueInv, JobsFollowTheDocument
<1> QED
  BY <1>3, <1>4

\* A step that leaves exporters where they are and does not touch running jobs, but to
\* let a lease lapse, keeps every claim in step with its job.
LEMMA ClaimsStand ==
  ASSUME QueueInv, UNCHANGED <<at, hand>>,
         \A v \in Versions :
           job'[v].state = "running" => /\ job[v].state = "running"
                                        /\ job'[v].holder = job[v].holder
                                        /\ job'[v].operation = job[v].operation
  PROVE  ClaimsMatchJobs'
BY DEF QueueInv, Typed, HandsNameVersions, Busy, ClaimsMatchJobs, OwnJob

\* An exporter that moves on within an export, or leaves it, with the queue as it is.
LEMMA ClaimMovesOn ==
  ASSUME QueueInv, UNCHANGED job, NEW w \in Exporters,
         at' = [at EXCEPT ![w] = at'[w]],
         \A x \in Exporters \ {w} : hand'[x] = hand[x],
         at'[w] \in Calling =>
           /\ at[w] \in Calling
           /\ hand'[w].version = hand[w].version /\ hand'[w].operation = hand[w].operation
           /\ at'[w] \in {"lookup", "write", "reparse"} => hand[w].operation = "upsert"
           /\ at'[w] = "remove" => hand[w].operation = "remove"
           /\ at'[w] \in {"reparse", "report"} /\ hand[w].operation = "upsert"
                => hand'[w].knowledge # NoKnowledge
  PROVE  ClaimsMatchJobs'
<1>1. at'[w] = at'[w] /\ \A x \in Exporters \ {w} : at'[x] = at[x]
  BY DEF QueueInv, Typed, RagTypeOK
<1>2. ASSUME NEW x \in Exporters \ {w}
      PROVE  at'[x] = at[x] /\ hand'[x] = hand[x]
  BY <1>1
<1> QED
  BY <1>2 DEF QueueInv, ClaimsMatchJobs, OwnJob, Calling

LEMMA QueueStepInv == QueueInv /\ [RagNext]_ragVars => QueueInv'
<1> SUFFICES ASSUME QueueInv, [RagNext]_ragVars PROVE QueueInv'
  OBVIOUS
<1>0. Typed' /\ RagTypeOK
  BY TypedStep DEF QueueInv, Typed
<1> SUFFICES (QueueTellsTheTruth /\ JobsFollowTheDocument /\ ClaimsMatchJobs)'
  BY <1>0 DEF QueueInv
<1>1. CASE DocumentStep \/ \E v \in Versions : Expire(v) \/ CreateLate(v)
  <2>1. UNCHANGED <<job, entry, at, hand>>
    BY <1>1 DEF DocumentStep, Expire, CreateLate
  <2> QED
    BY <2>1, DocumentMoves, ClaimsStand
<1>2. ASSUME NEW v \in Versions, LeaseLapses(v)
      PROVE  (QueueTellsTheTruth /\ JobsFollowTheDocument /\ ClaimsMatchJobs)'
  <2>1. UNCHANGED <<documentVars, entry, at, hand>>
    BY <1>2 DEF LeaseLapses
  <2>2. \A n \in Versions : /\ job'[n].operation = job[n].operation
                            /\ job'[n].state = job[n].state
                            /\ job'[n].holder = job[n].holder
    BY <1>0, <1>2 DEF LeaseLapses, RagTypeOK, Jobs
  <2>3. \A n \in Versions : job'[n] = job[n] \/ job[n].state = "running"
    BY <1>0, <1>2 DEF LeaseLapses, RagTypeOK
  <2> QED
    BY <2>1, <2>2, <2>3, QueueMoves, ClaimsStand
<1>3. ASSUME NEW w \in Exporters, Reconcile(w)
      PROVE  (QueueTellsTheTruth /\ JobsFollowTheDocument /\ ClaimsMatchJobs)'
  <2>1. UNCHANGED <<documentVars, entry, at, hand>>
    BY <1>3 DEF Reconcile
  <2>2. \A v \in Versions :
          \/ job'[v] = job[v]
          \/ /\ job'[v].operation = "upsert" /\ job'[v].state = "pending"
             /\ Indexable(v) /\ entry[v] = NoKnowledge
          \/ /\ job'[v].operation = "remove" /\ job'[v].state = "pending"
             /\ ~Indexable(v) /\ entry[v] # NoKnowledge
    BY <1>3 DEF Reconcile, Queued, NoJob
  <2>3. QueueTellsTheTruth' /\ JobsFollowTheDocument'
    BY <2>1, <2>2, QueueMoves
  <2>4. ClaimsMatchJobs'
    BY <2>1, <2>2, ClaimsStand
  <2> QED
    BY <2>3, <2>4
<1>4. \A v \in Versions : \/ GivenUp(job[v]) = job[v]
                          \/ /\ GivenUp(job[v]).operation = job[v].operation
                             /\ GivenUp(job[v]).state = "dead" /\ job[v].state = "running"
  BY <1>0 DEF GivenUp, RagTypeOK, Jobs
<1>5. ASSUME NEW w \in Exporters, ClaimNothing(w)
      PROVE  (QueueTellsTheTruth /\ JobsFollowTheDocument /\ ClaimsMatchJobs)'
  <2>1. UNCHANGED <<documentVars, entry, at, hand>>
    BY <1>5 DEF ClaimNothing
  <2>2. \A v \in Versions : job'[v] = GivenUp(job[v])
    BY <1>5 DEF ClaimNothing
  <2>3. QueueTellsTheTruth' /\ JobsFollowTheDocument'
    BY <1>4, <2>1, <2>2, QueueMoves
  <2>4. ClaimsMatchJobs'
    BY <1>4, <2>1, <2>2, ClaimsStand
  <2> QED
    BY <2>3, <2>4
<1>6. ASSUME NEW w \in Exporters, NEW v \in Versions, ClaimJob(w, v)
      PROVE  (QueueTellsTheTruth /\ JobsFollowTheDocument /\ ClaimsMatchJobs)'
  <2>1. UNCHANGED <<documentVars, entry>> /\ at[w] = "idle"
    BY <1>6 DEF ClaimJob
  <2>2. /\ job[v].state \in {"pending", "running"}
        /\ job'[v].operation = job[v].operation /\ job'[v].state = "running"
        /\ job'[v].holder = w
    BY <1>0, <1>6 DEF ClaimJob, Claimable, RagTypeOK, Jobs
  <2>3. \A n \in Versions \ {v} : job'[n] = GivenUp(job[n])
    BY <1>6 DEF ClaimJob
  <2>4. QueueTellsTheTruth' /\ JobsFollowTheDocument'
    BY <1>4, <2>1, <2>2, <2>3, QueueMoves
  <2>5. job[v].operation \in {"upsert", "remove"}
    BY <1>0, <2>2 DEF QueueInv, JobsFollowTheDocument, RagTypeOK, Jobs
  <2>6. hand'[w].version = v /\ hand'[w].operation = job[v].operation
    BY <1>0, <1>6 DEF ClaimJob, RagTypeOK
  <2>7. at'[w] = IF job[v].operation = "remove" THEN "remove" ELSE "lookup"
    BY <1>0, <1>6 DEF ClaimJob, RagTypeOK
  <2>8. ASSUME NEW x \in Exporters \ {w}
        PROVE  at'[x] = at[x] /\ hand'[x] = hand[x]
    BY <1>0, <1>6 DEF ClaimJob, RagTypeOK
  <2>9. ASSUME NEW x \in Exporters \ {w}, at[x] \in Calling, OwnJob(x)'
        PROVE  OwnJob(x) /\ job'[hand[x].version].operation = job[hand[x].version].operation
    <3>1. hand[x].version \in Versions
      BY <2>9 DEF QueueInv, Typed, HandsNameVersions, Busy
    <3>2. hand[x].version # v
      BY <2>2, <2>8, <2>9 DEF OwnJob
    <3>3. job'[hand[x].version] = job[hand[x].version]
      BY <1>4, <2>3, <2>8, <2>9, <3>1, <3>2 DEF OwnJob
    <3> QED
      BY <2>8, <2>9, <3>3 DEF OwnJob
  <2>10. ClaimsMatchJobs'
    <3>1. ASSUME NEW x \in Exporters, x # w
          PROVE  /\ at'[x] \in Calling => hand'[x].operation \in {"upsert", "remove"}
                 /\ at'[x] \in {"lookup", "write", "reparse"} => hand'[x].operation = "upsert"
                 /\ at'[x] = "remove" => hand'[x].operation = "remove"
                 /\ at'[x] \in {"reparse", "report"} /\ hand'[x].operation = "upsert"
                      => hand'[x].knowledge # NoKnowledge
                 /\ at'[x] \in Calling /\ OwnJob(x)'
                      => job'[hand'[x].version].operation = hand'[x].operation
      BY <2>8, <2>9, <3>1 DEF QueueInv, ClaimsMatchJobs
    <3>2. /\ hand'[w].operation \in {"upsert", "remove"}
          /\ at'[w] \in {"lookup", "write", "reparse"} => hand'[w].operation = "upsert"
          /\ at'[w] = "remove" => hand'[w].operation = "remove"
          /\ at'[w] \notin {"reparse", "report"}
          /\ job'[hand'[w].version].operation = hand'[w].operation
      BY <2>2, <2>5, <2>6, <2>7
    <3> QED
      BY <3>1, <3>2 DEF ClaimsMatchJobs
  <2> QED
    BY <2>4, <2>10
<1>7. ASSUME NEW w \in Exporters,
             LookUp(w) \/ Update(w) \/ Create(w) \/ Reparse(w) \/ RemoveRecord(w)
      PROVE  (QueueTellsTheTruth /\ JobsFollowTheDocument /\ ClaimsMatchJobs)'
  <2>1. UNCHANGED <<job, entry>>
    BY <1>7 DEF LookUp, Update, Create, Reparse, RemoveRecord
  <2>2. /\ at' = [at EXCEPT ![w] = at'[w]]
        /\ \A x \in Exporters \ {w} : hand'[x] = hand[x]
    BY <1>0, <1>7 DEF LookUp, Update, Create, Reparse, RemoveRecord, RagTypeOK
  <2> DEFINE SameClaim == /\ hand'[w].version = hand[w].version
                          /\ hand'[w].operation = hand[w].operation
  <2>3. \/ at[w] = "lookup" /\ at'[w] = "write" /\ SameClaim
        \/ at[w] = "write" /\ at'[w] = "reparse" /\ SameClaim /\ hand'[w].knowledge \in Knowledge
        \/ at[w] = "reparse" /\ at'[w] = "report" /\ hand'[w] = hand[w]
        \/ at[w] = "remove" /\ at'[w] = "report" /\ SameClaim
    <3>1. CASE LookUp(w)
      BY <1>0, <3>1 DEF LookUp, RagTypeOK, Claims
    <3>2. CASE Update(w)
      BY <1>0, <3>2 DEF Update, RagTypeOK, Present
    <3>3. CASE Create(w)
      <4>1. PICK k \in Knowledge : hand' = [hand EXCEPT ![w] = [@ EXCEPT !.knowledge = k]]
        BY <3>3 DEF Create
      <4> QED
        BY <1>0, <3>3, <4>1 DEF Create, RagTypeOK, Claims
    <3>4. CASE Reparse(w)
      BY <1>0, <3>4 DEF Reparse, RagTypeOK
    <3>5. CASE RemoveRecord(w)
      BY <1>0, <3>5 DEF RemoveRecord, RagTypeOK
    <3> QED
      BY <1>7, <3>1, <3>2, <3>3, <3>4, <3>5
  <2>4. at[w] \in Calling /\ SameClaim
    BY <2>3 DEF Calling
  <2>5. NoKnowledge \notin Knowledge
    BY LimitsAssumption DEF Knowledge, NoKnowledge
  <2>6. ClaimsMatchJobs'
    <3>1. /\ at'[w] \in {"lookup", "write", "reparse"} => hand[w].operation = "upsert"
          /\ at'[w] # "remove"
          /\ at'[w] \in {"reparse", "report"} /\ hand[w].operation = "upsert"
               => hand'[w].knowledge # NoKnowledge
      BY <2>3, <2>5 DEF QueueInv, ClaimsMatchJobs
    <3> QED
      BY <2>1, <2>2, <2>4, <3>1, ClaimMovesOn
  <2> QED
    BY <2>1, <2>6, DocumentMoves
<1>8. ASSUME NEW w \in Exporters, Complete(w)
      PROVE  (QueueTellsTheTruth /\ JobsFollowTheDocument /\ ClaimsMatchJobs)'
  <2> DEFINE v == hand[w].version
  <2>1. v \in Versions /\ OwnJob(w) /\ at[w] = "report"
    BY <1>8 DEF Complete, HoldsLease, OwnJob, QueueInv, Typed, HandsNameVersions, Busy, Calling
  <2>2. /\ job'[v].state = "done" /\ job'[v].operation = job[v].operation
        /\ entry'[v] = EntryAfter(w, v)
        /\ \A n \in Versions \ {v} : job'[n] = job[n] /\ entry'[n] = entry[n]
    BY <1>0, <1>8, <2>1 DEF Complete, RagTypeOK, Jobs
  <2>3. live' = live /\ \A n \in Versions : Indexable(n)' = Indexable(n)
    BY <1>8 DEF Complete, documentVars, Indexable
  <2>4. job[v].operation = hand[w].operation /\ hand[w].operation \in {"upsert", "remove"}
    BY <2>1 DEF QueueInv, ClaimsMatchJobs, Calling
  <2>5. hand[w].operation = "upsert" => hand[w].knowledge # NoKnowledge
    BY <2>1 DEF QueueInv, ClaimsMatchJobs
  <2>6. /\ Indexable(v) => entry'[v] # NoKnowledge
        /\ job[v].operation = "remove" => entry'[v] = NoKnowledge
    BY <2>1, <2>2, <2>4, <2>5 DEF EntryAfter, QueueInv, JobsFollowTheDocument
  <2>7. QueueTellsTheTruth'
    BY <2>2, <2>3, <2>6 DEF QueueInv, QueueTellsTheTruth
  <2>8. JobsFollowTheDocument'
    BY <2>1, <2>2, <2>3, <2>4 DEF QueueInv, JobsFollowTheDocument
  <2>9. ASSUME NEW x \in Exporters \ {w}
        PROVE  at'[x] = at[x] /\ hand'[x] = hand[x]
    BY <1>0, <1>8 DEF Complete, RagTypeOK
  <2>10. at'[w] = "idle"
    BY <1>0, <1>8 DEF Complete, RagTypeOK
  <2>11. ASSUME NEW x \in Exporters \ {w}, at[x] \in Calling, OwnJob(x)'
        PROVE  OwnJob(x) /\ job'[hand[x].version].operation = job[hand[x].version].operation
    <3>1. hand[x].version \in Versions
      BY <2>11 DEF QueueInv, Typed, HandsNameVersions, Busy
    <3>2. hand[x].version # v
      BY <2>2, <2>9, <2>11 DEF OwnJob
    <3> QED
      BY <2>2, <2>9, <2>11, <3>1, <3>2 DEF OwnJob
  <2>12. ClaimsMatchJobs'
    BY <2>9, <2>10, <2>11 DEF QueueInv, ClaimsMatchJobs, Calling
  <2> QED
    BY <2>7, <2>8, <2>12
<1>9. ASSUME NEW w \in Exporters,
             \/ CompleteTooLate(w) \/ CallFails(w) \/ Crash(w) \/ CreateUnanswered(w)
             \/ SweepStep(w)
      PROVE  (QueueTellsTheTruth /\ JobsFollowTheDocument /\ ClaimsMatchJobs)'
  <2>1. UNCHANGED <<job, entry>>
    BY <1>9 DEF CompleteTooLate, CallFails, Crash, CreateUnanswered, SweepStep, StartSweep,
                ListRecords, RemoveOrphan, EndSweep
  <2>2. /\ at' = [at EXCEPT ![w] = at'[w]]
        /\ \A x \in Exporters \ {w} : hand'[x] = hand[x]
        /\ at'[w] \notin Calling
    BY <1>0, <1>9 DEF CompleteTooLate, CallFails, Crash, CreateUnanswered, SweepStep, StartSweep,
                ListRecords, RemoveOrphan, EndSweep, RagTypeOK, Calling
  <2> QED
    BY <2>1, <2>2, DocumentMoves, ClaimMovesOn
<1>10. ASSUME NEW w \in Exporters, Fail(w)
       PROVE  (QueueTellsTheTruth /\ JobsFollowTheDocument /\ ClaimsMatchJobs)'
  <2> DEFINE v == hand[w].version
  <2>1. v \in Versions
    BY <1>10 DEF Fail, QueueInv, Typed, HandsNameVersions, Busy
  <2>2. \A n \in Versions :
          \/ job'[n] = job[n]
          \/ /\ job'[n].operation = job[n].operation
             /\ job'[n].state \in {"dead", "pending"} /\ job[n].state = "running"
    BY <1>0, <1>10, <2>1 DEF Fail, FailCounts, StillOwns, RagTypeOK, Jobs
  <2>3. UNCHANGED <<documentVars, entry>>
    BY <1>10 DEF Fail
  <2>4. QueueTellsTheTruth' /\ JobsFollowTheDocument'
    BY <2>2, <2>3, QueueMoves
  <2>5. at'[w] = "idle" /\ \A x \in Exporters \ {w} : at'[x] = at[x] /\ hand'[x] = hand[x]
    BY <1>0, <1>10 DEF Fail, RagTypeOK
  <2>6. \A x \in Exporters : at[x] \in Calling => hand[x].version \in Versions
    BY DEF QueueInv, Typed, HandsNameVersions, Busy
  <2>7. ASSUME NEW x \in Exporters \ {w}, at[x] \in Calling, OwnJob(x)'
        PROVE  OwnJob(x) /\ job'[hand[x].version].operation = job[hand[x].version].operation
    BY <2>2, <2>5, <2>6, <2>7 DEF OwnJob
  <2>8. ClaimsMatchJobs'
    BY <2>5, <2>7 DEF QueueInv, ClaimsMatchJobs, Calling
  <2> QED
    BY <2>4, <2>8
<1>11. CASE UNCHANGED ragVars
  BY <1>11, DocumentMoves, ClaimsStand DEF ragVars
<1> QED
  BY <1>1, <1>2, <1>3, <1>5, <1>6, <1>7, <1>8, <1>9, <1>10, <1>11
  DEF RagNext, QueueStep, ExportStep, TroubleStep

\* For any number of exporters, versions and attempts, no job is closed on a lie.
THEOREM QueueTellsTheTruthHolds == RagSpec => []QueueTellsTheTruth
<1>1. QueueInv => QueueTellsTheTruth
  BY DEF QueueInv
<1> QED
  BY <1>1, RagInitQueue, QueueStepInv, PTL DEF RagSpec

-----------------------------------------------------------------------------
(* A worker that exports alone.  Whatever fails, dies or comes late, the job it     *)
(* works on stays its own, so the record it writes belongs to a version without an  *)
(* entry; and nobody records anything while it sweeps.                              *)

WorkIsOwn(w) ==
  /\ at[w] \in Busy => OwnJob(w)
  /\ at[w] \in {"reparse", "report"} /\ hand[w].operation = "upsert"
       => hand[w].knowledge \in Present(hand[w].version)
  /\ at[w] = "report" /\ hand[w].operation = "upsert"
       => store[hand[w].version][hand[w].knowledge] = "searchable"

SweepSparesEntries(w) ==
  /\ at[w] = "list" => KnownVersions \subseteq known[w]
  /\ at[w] = "sweep" => \A r \in doomed[w] : entry[r[1]] = NoKnowledge

AloneInv(w) == QueueInv /\ WorkIsOwn(w) /\ SweepSparesEntries(w) /\ IndexedIsSearchable

LEMMA RagInitAlone ==
  ASSUME NEW w \in Exporters PROVE RagInit => AloneInv(w)
<1> SUFFICES ASSUME RagInit PROVE AloneInv(w)
  OBVIOUS
<1>1. WorkIsOwn(w) /\ SweepSparesEntries(w)
  BY DEF RagInit, WorkIsOwn, SweepSparesEntries, Busy, Calling
<1>2. IndexedIsSearchable
  BY DEF RagInit, IndexedIsSearchable
<1> QED
  BY <1>1, <1>2, RagInitQueue DEF AloneInv

\* The version a worker exports has no entry yet: an entry would have closed its job.
LEMMA ExportedHasNoEntry ==
  ASSUME NEW w \in Exporters, QueueInv, WorkIsOwn(w), at[w] \in {"lookup", "write", "reparse"}
  PROVE  hand[w].version \in Versions /\ entry[hand[w].version] = NoKnowledge
<1>1. OwnJob(w) /\ hand[w].version \in Versions /\ hand[w].operation = "upsert"
  BY DEF WorkIsOwn, Busy, Calling, QueueInv, Typed, HandsNameVersions, ClaimsMatchJobs
<1>2. job[hand[w].version].operation = "upsert"
  BY <1>1 DEF QueueInv, ClaimsMatchJobs, Calling
<1> QED
  BY <1>1, <1>2 DEF OwnJob, QueueInv, QueueTellsTheTruth

\* A step that leaves the entries and the records they name alone.
LEMMA IndexedStays ==
  ASSUME QueueInv, IndexedIsSearchable, [RagNext]_ragVars, UNCHANGED entry,
         \A v \in Versions : entry[v] # NoKnowledge /\ Indexable(v)
           => store'[v][entry[v]] = store[v][entry[v]]
  PROVE  IndexedIsSearchable'
<1>1. \A v \in Versions : entry[v] # NoKnowledge => (Indexable(v)' => Indexable(v))
  BY LiveMovesForward DEF QueueInv, JobsFollowTheDocument
<1> QED
  BY <1>1 DEF IndexedIsSearchable

LEMMA AloneStep ==
  ASSUME NEW w, Exporters = {w}
  PROVE  AloneInv(w) /\ [RagNext]_ragVars => AloneInv(w)'
<1> SUFFICES ASSUME AloneInv(w), [RagNext]_ragVars PROVE AloneInv(w)'
  OBVIOUS
<1> DEFINE v == hand[w].version
           k == hand[w].knowledge
<1>0. /\ w \in Exporters /\ RagTypeOK /\ QueueInv /\ IndexedIsSearchable
      /\ WorkIsOwn(w) /\ SweepSparesEntries(w)
  BY DEF AloneInv, QueueInv, Typed
<1> SUFFICES (WorkIsOwn(w) /\ SweepSparesEntries(w) /\ IndexedIsSearchable)'
  BY <1>0, QueueStepInv DEF AloneInv
<1>1. CASE \/ DocumentStep \/ (\E n \in Versions : Expire(n) \/ LeaseLapses(n))
           \/ UNCHANGED ragVars
  <2>1. UNCHANGED <<at, hand, entry, store, known, doomed>>
    BY <1>1 DEF DocumentStep, Expire, LeaseLapses, ragVars, indexVars, sweepVars
  <2>2. \A n \in Versions : job'[n].state = job[n].state /\ job'[n].holder = job[n].holder
    <3>1. CASE UNCHANGED job
      BY <3>1
    <3>2. CASE \E m \in Versions : LeaseLapses(m)
      BY <1>0, <3>2 DEF LeaseLapses, RagTypeOK, Jobs
    <3> QED
      BY <1>1, <3>1, <3>2 DEF DocumentStep, Expire, ragVars
  <2>3. at[w] \in Busy => v \in Versions
    BY <1>0 DEF QueueInv, Typed, HandsNameVersions
  <2>4. WorkIsOwn(w)'
    BY <1>0, <2>1, <2>2, <2>3 DEF WorkIsOwn, OwnJob, Present
  <2>5. SweepSparesEntries(w)'
    BY <1>0, <2>1 DEF SweepSparesEntries, KnownVersions
  <2> QED
    BY <1>0, <2>1, <2>4, <2>5, IndexedStays
<1>2. ASSUME NEW n \in Versions, CreateLate(n)
      PROVE  (WorkIsOwn(w) /\ SweepSparesEntries(w) /\ IndexedIsSearchable)'
  <2>1. PICK j \in Knowledge : store[n][j] = "never" /\ store' = [store EXCEPT ![n][j] = "stored"]
    BY <1>2 DEF CreateLate, Fresh
  <2>2. UNCHANGED <<at, hand, job, entry, known, doomed>>
    BY <1>2 DEF CreateLate, sweepVars
  <2>3. \A m \in Versions, i \in Knowledge : store[m][i] # "never" => store'[m][i] = store[m][i]
    BY <1>0, <2>1 DEF RagTypeOK
  <2>4. at[w] \in Busy => v \in Versions
    BY <1>0 DEF QueueInv, Typed, HandsNameVersions
  <2>5. k \in Knowledge \cup {NoKnowledge}
    BY <1>0 DEF RagTypeOK, Claims
  <2>6. WorkIsOwn(w)'
    BY <1>0, <2>2, <2>3, <2>4, <2>5 DEF WorkIsOwn, OwnJob, Present, Busy, Calling
  <2>7. SweepSparesEntries(w)'
    BY <1>0, <2>2 DEF SweepSparesEntries, KnownVersions
  <2>8. \A m \in Versions : entry[m] # NoKnowledge /\ Indexable(m)
          => store'[m][entry[m]] = store[m][entry[m]]
    BY <1>0, <2>3 DEF IndexedIsSearchable, RagTypeOK
  <2> QED
    BY <1>0, <2>2, <2>6, <2>7, <2>8, IndexedStays
<1>3. ASSUME Reconcile(w) \/ ClaimNothing(w) \/ CallFails(w) \/ CompleteTooLate(w) \/ Fail(w)
               \/ Crash(w) \/ StartSweep(w) \/ EndSweep(w) \/ CreateUnanswered(w)
      PROVE  (WorkIsOwn(w) /\ SweepSparesEntries(w) /\ IndexedIsSearchable)'
  <2>1. UNCHANGED <<entry, store>>
    BY <1>3 DEF Reconcile, ClaimNothing, CallFails, CompleteTooLate, Fail, Crash, StartSweep,
                EndSweep, CreateUnanswered, indexVars
  <2>2. \/ at'[w] = "idle"
        \/ at[w] \in Calling /\ at'[w] = "failed" /\ UNCHANGED job /\ hand'[w] = hand[w]
        \/ at'[w] = "list" /\ known'[w] = KnownVersions
    BY <1>0, <1>3 DEF Reconcile, ClaimNothing, CallFails, CompleteTooLate, Fail, Crash, StartSweep,
                EndSweep, CreateUnanswered, RagTypeOK, Calling
  <2>3. WorkIsOwn(w)'
    BY <1>0, <2>2 DEF WorkIsOwn, OwnJob, Busy, Calling
  <2>4. SweepSparesEntries(w)'
    BY <2>1, <2>2 DEF SweepSparesEntries, KnownVersions
  <2> QED
    BY <1>0, <2>1, <2>3, <2>4, IndexedStays
<1>4. ASSUME NEW n \in Versions, ClaimJob(w, n)
      PROVE  (WorkIsOwn(w) /\ SweepSparesEntries(w) /\ IndexedIsSearchable)'
  <2>1. UNCHANGED <<entry, store>>
    BY <1>4 DEF ClaimJob, indexVars
  <2>2. at'[w] \in {"lookup", "remove"} /\ hand'[w].version = n
    BY <1>0, <1>4 DEF ClaimJob, RagTypeOK
  <2>3. job'[n].state = "running" /\ job'[n].holder = w
    <3>1. job'[n] = [job[n] EXCEPT !.state = "running", !.attempts = @ + 1,
                                   !.holder = w, !.lapsed = FALSE]
      BY <1>4 DEF ClaimJob
    <3> QED
      BY <1>0, <3>1 DEF RagTypeOK, Jobs
  <2>4. WorkIsOwn(w)' /\ SweepSparesEntries(w)'
    BY <2>2, <2>3 DEF WorkIsOwn, OwnJob, SweepSparesEntries
  <2> QED
    BY <1>0, <2>1, <2>4, IndexedStays
<1>5. CASE LookUp(w)
  <2>1. UNCHANGED <<entry, store, job>> /\ at[w] = "lookup"
    BY <1>5 DEF LookUp, indexVars
  <2>2. at'[w] = "write" /\ hand'[w].version = v
    BY <1>0, <1>5 DEF LookUp, RagTypeOK, Claims
  <2>3. WorkIsOwn(w)' /\ SweepSparesEntries(w)'
    BY <1>0, <2>1, <2>2 DEF WorkIsOwn, OwnJob, SweepSparesEntries, Busy, Calling
  <2> QED
    BY <1>0, <2>1, <2>3, IndexedStays
<1>6. ASSUME Update(w) \/ Create(w)
      PROVE  (WorkIsOwn(w) /\ SweepSparesEntries(w) /\ IndexedIsSearchable)'
  <2>1. UNCHANGED <<entry, job>> /\ at[w] = "write"
    BY <1>6 DEF Update, Create
  <2>2. v \in Versions /\ entry[v] = NoKnowledge
    BY <1>0, <2>1, ExportedHasNoEntry
  <2>3. PICK j \in Knowledge : /\ store' = [store EXCEPT ![v][j] = "stored"]
                               /\ hand'[w].knowledge = j
                               /\ hand'[w].version = v
    <3>1. CASE Update(w)
      BY <1>0, <3>1 DEF Update, Present, RagTypeOK
    <3>2. CASE Create(w)
      <4>1. PICK j \in Knowledge : /\ store' = [store EXCEPT ![v][j] = "stored"]
                                   /\ hand' = [hand EXCEPT ![w] = [@ EXCEPT !.knowledge = j]]
        BY <3>2 DEF Create
      <4> QED
        BY <1>0, <4>1 DEF RagTypeOK, Claims
    <3> QED
      BY <1>6, <3>1, <3>2
  <2>4. at'[w] = "reparse"
    BY <1>0, <1>6 DEF Update, Create, RagTypeOK
  <2>5. PICK m \in Versions : m = v
    BY <2>2
  <2>6. /\ store'[m][j] = "stored"
        /\ \A n \in Versions \ {m}, i \in Knowledge : store'[n][i] = store[n][i]
    <3>1. store' = [store EXCEPT ![m][j] = "stored"]
      BY <2>3, <2>5
    <3> QED
      BY <1>0, <3>1 DEF RagTypeOK
  <2>7. WorkIsOwn(w)' /\ SweepSparesEntries(w)'
    BY <1>0, <2>1, <2>3, <2>4, <2>5, <2>6
    DEF Present, WorkIsOwn, OwnJob, SweepSparesEntries, Busy, Calling
  <2>8. \A n \in Versions : entry[n] # NoKnowledge => store'[n][entry[n]] = store[n][entry[n]]
    BY <1>0, <2>2, <2>5, <2>6 DEF RagTypeOK
  <2> QED
    BY <1>0, <2>1, <2>7, <2>8, IndexedStays
<1>7. CASE Reparse(w)
  <2>1. UNCHANGED <<entry, job, hand>> /\ at[w] = "reparse" /\ at'[w] = "report"
    BY <1>0, <1>7 DEF Reparse, RagTypeOK
  <2>2. v \in Versions /\ entry[v] = NoKnowledge /\ hand[w].operation = "upsert"
    BY <1>0, <2>1, ExportedHasNoEntry DEF QueueInv, ClaimsMatchJobs
  <2>3. k \in Present(v) /\ k \in Knowledge
    BY <1>0, <2>1, <2>2 DEF WorkIsOwn, Present
  <2>4. store' = [store EXCEPT ![v][k] = "searchable"]
    BY <1>7, <2>3 DEF Reparse, Reparsed
  <2>5. PICK m \in Versions, j \in Knowledge : m = v /\ j = k
    BY <2>2, <2>3
  <2>6. /\ store'[m][j] = "searchable"
        /\ \A n \in Versions \ {m}, i \in Knowledge : store'[n][i] = store[n][i]
    <3>1. store' = [store EXCEPT ![m][j] = "searchable"]
      BY <2>4, <2>5
    <3> QED
      BY <1>0, <3>1 DEF RagTypeOK
  <2>7. WorkIsOwn(w)' /\ SweepSparesEntries(w)'
    BY <1>0, <2>1, <2>5, <2>6 DEF WorkIsOwn, OwnJob, SweepSparesEntries, Busy, Calling, Present
  <2>8. \A n \in Versions : entry[n] # NoKnowledge => store'[n][entry[n]] = store[n][entry[n]]
    BY <1>0, <2>2, <2>5, <2>6 DEF RagTypeOK
  <2> QED
    BY <1>0, <2>1, <2>7, <2>8, IndexedStays
<1>8. CASE RemoveRecord(w)
  <2>1. UNCHANGED <<entry, job, hand>> /\ at[w] = "remove" /\ at'[w] = "report"
    BY <1>0, <1>8 DEF RemoveRecord, RagTypeOK
  <2>2. v \in Versions /\ hand[w].operation = "remove" /\ OwnJob(w)
    BY <1>0, <2>1 DEF QueueInv, Typed, HandsNameVersions, Busy, Calling, ClaimsMatchJobs, WorkIsOwn
  <2>3. ~Indexable(v)
    BY <1>0, <2>1, <2>2 DEF QueueInv, ClaimsMatchJobs, JobsFollowTheDocument, Calling
  <2>4. \A n \in Versions \ {v} : store'[n] = store[n]
    BY <1>0, <1>8, <2>2 DEF RemoveRecord, Deleted, RagTypeOK
  <2>5. WorkIsOwn(w)' /\ SweepSparesEntries(w)'
    BY <1>0, <2>1, <2>2 DEF WorkIsOwn, OwnJob, SweepSparesEntries, Busy, Calling
  <2>6. \A n \in Versions : entry[n] # NoKnowledge /\ Indexable(n)
          => store'[n][entry[n]] = store[n][entry[n]]
    BY <2>3, <2>4
  <2> QED
    BY <1>0, <2>1, <2>5, <2>6, IndexedStays
<1>9. CASE Complete(w)
  <2>1. at'[w] = "idle" /\ UNCHANGED <<store, documentVars>> /\ at[w] = "report"
    BY <1>0, <1>9 DEF Complete, RagTypeOK, indexVars
  <2>2. v \in Versions /\ OwnJob(w) /\ hand[w].operation \in {"upsert", "remove"}
    BY <1>0, <2>1 DEF QueueInv, Typed, HandsNameVersions, Busy, Calling, ClaimsMatchJobs, WorkIsOwn
  <2>3. job[v].operation = hand[w].operation
    BY <1>0, <2>1, <2>2 DEF QueueInv, ClaimsMatchJobs, Calling
  <2>4. entry' = [entry EXCEPT ![v] = EntryAfter(w, v)]
    BY <1>9 DEF Complete
  <2>5. EntryAfter(w, v) # NoKnowledge => store[v][EntryAfter(w, v)] = "searchable"
    BY <1>0, <2>1, <2>2, <2>3 DEF EntryAfter, WorkIsOwn
  <2>6. \A n \in Versions : Indexable(n)' = Indexable(n)
    BY <2>1 DEF documentVars, Indexable
  <2>7. IndexedIsSearchable'
    BY <1>0, <2>1, <2>2, <2>4, <2>5, <2>6 DEF IndexedIsSearchable, RagTypeOK
  <2> QED
    BY <2>1, <2>7 DEF WorkIsOwn, SweepSparesEntries, Busy, Calling
<1>10. CASE ListRecords(w)
  <2>1. UNCHANGED <<entry, store>> /\ at[w] = "list" /\ at'[w] = "sweep"
    BY <1>0, <1>10 DEF ListRecords, RagTypeOK, indexVars
  <2>2. PICK page \in SUBSET AllRecords :
          doomed' = [doomed EXCEPT ![w] = {r \in page : r[1] \notin known[w]}]
    BY <1>10 DEF ListRecords
  <2>3. \A r \in doomed'[w] : r[1] \in Versions /\ r[1] \notin known[w]
    BY <1>0, <2>2 DEF AllRecords, RagTypeOK
  <2>4. SweepSparesEntries(w)'
    BY <1>0, <2>1, <2>3 DEF SweepSparesEntries, KnownVersions
  <2>5. WorkIsOwn(w)'
    BY <2>1 DEF WorkIsOwn, Busy, Calling
  <2> QED
    BY <1>0, <2>1, <2>4, <2>5, IndexedStays
<1>11. CASE RemoveOrphan(w)
  <2>1. UNCHANGED <<entry, at>> /\ at[w] = "sweep"
    BY <1>11 DEF RemoveOrphan
  <2>2. PICK r \in doomed[w] : /\ store' = Deleted(r[1], r[2])
                               /\ doomed' = [doomed EXCEPT ![w] = @ \ {r}]
    BY <1>11 DEF RemoveOrphan
  <2>3. r[1] \in Versions /\ r[2] \in Knowledge /\ entry[r[1]] = NoKnowledge
    BY <1>0, <2>1 DEF RagTypeOK, SweepSparesEntries
  <2>4. \A n \in Versions \ {r[1]} : store'[n] = store[n]
    BY <1>0, <2>2, <2>3 DEF Deleted, RagTypeOK
  <2>5. doomed'[w] \subseteq doomed[w]
    BY <1>0, <2>2 DEF RagTypeOK
  <2>6. WorkIsOwn(w)' /\ SweepSparesEntries(w)'
    BY <1>0, <2>1, <2>5 DEF WorkIsOwn, SweepSparesEntries, Busy, Calling
  <2>7. \A n \in Versions : entry[n] # NoKnowledge => store'[n][entry[n]] = store[n][entry[n]]
    BY <2>3, <2>4
  <2> QED
    BY <1>0, <2>1, <2>6, <2>7, IndexedStays
<1> QED
  BY <1>1, <1>2, <1>3, <1>4, <1>5, <1>6, <1>7, <1>8, <1>9, <1>10, <1>11
  DEF RagNext, QueueStep, ExportStep, SweepStep, TroubleStep

\* When the worker exports alone, a live version that counts as indexed is in WeKnora and
\* searchable, for any number of versions and attempts, late answers included.
THEOREM IndexedIsSearchableHolds ==
  ASSUME NEW w, Exporters = {w}
  PROVE  RagSpec => []IndexedIsSearchable
<1>1. RagInit => AloneInv(w)
  BY RagInitAlone
<1>2. AloneInv(w) /\ [RagNext]_ragVars => AloneInv(w)'
  BY AloneStep
<1>3. AloneInv(w) => IndexedIsSearchable
  BY DEF AloneInv
<1> QED
  BY <1>1, <1>2, <1>3, PTL DEF RagSpec

-----------------------------------------------------------------------------
(* One record.  Between the lookup and the creation nobody else creates who still   *)
(* owns the job: a job changes hands only by a claim, and whoever claims it looks   *)
(* up first.  What the others create, and what comes late, counts as astray.        *)

LookupStands(w) ==
  at[w] = "write" /\ hand[w].knowledge = NoKnowledge /\ OwnJob(w) /\ hand[w].version \notin astray
    => Present(hand[w].version) = {}

OneRecordInv == Typed /\ OneRecordPerVersion /\ \A w \in Exporters : LookupStands(w)

Held == {"stored", "searchable"}

\* A job that is somebody's was already his, or he has just claimed it.
LEMMA OwnershipIsClaimed ==
  ASSUME Typed, [RagNext]_ragVars, NEW w \in Exporters, NEW n \in Versions,
         StillOwns(w, n)', at'[w] = "write"
  PROVE  StillOwns(w, n)
<1>0. RagTypeOK
  BY DEF Typed
<1>1. ASSUME NEW x \in Exporters, NEW m \in Versions, ClaimJob(x, m) PROVE StillOwns(w, n)
  <2>1. x # w
    BY <1>0, <1>1 DEF ClaimJob, RagTypeOK
  <2>2. CASE n = m
    <3>1. job'[n] = [job[n] EXCEPT !.state = "running", !.attempts = @ + 1,
                                   !.holder = x, !.lapsed = FALSE]
      BY <1>1, <2>2 DEF ClaimJob
    <3>2. job'[n].holder = x
      BY <1>0, <3>1 DEF RagTypeOK, Jobs
    <3> QED
      BY <2>1, <3>2 DEF StillOwns
  <2>3. CASE n # m
    <3>1. job'[n] = GivenUp(job[n])
      BY <1>1, <2>3 DEF ClaimJob
    <3> QED
      BY <1>0, <3>1 DEF StillOwns, GivenUp, RagTypeOK, Jobs
  <2> QED
    BY <2>2, <2>3
<1>2. ASSUME NEW x \in Exporters, Reconcile(x) PROVE StillOwns(w, n)
  BY <1>0, <1>2 DEF Reconcile, Queued, NoJob, StillOwns, RagTypeOK
<1>3. ASSUME NEW x \in Exporters, ClaimNothing(x) PROVE StillOwns(w, n)
  BY <1>0, <1>3 DEF ClaimNothing, GivenUp, StillOwns, RagTypeOK, Jobs
<1>4. ASSUME NEW m \in Versions, LeaseLapses(m) PROVE StillOwns(w, n)
  BY <1>0, <1>4 DEF LeaseLapses, StillOwns, RagTypeOK, Jobs
<1>5. ASSUME NEW x \in Exporters, Complete(x) PROVE StillOwns(w, n)
  BY <1>0, <1>5 DEF Complete, StillOwns, RagTypeOK, Jobs
<1>6. ASSUME NEW x \in Exporters, Fail(x) PROVE StillOwns(w, n)
  BY <1>0, <1>6 DEF Fail, FailCounts, StillOwns, RagTypeOK, Jobs
<1>7. CASE UNCHANGED job
  BY <1>7 DEF StillOwns
<1> QED
  BY <1>1, <1>2, <1>3, <1>4, <1>5, <1>6, <1>7
  DEF RagNext, ragVars, DocumentStep, Expire, CreateLate, QueueStep, ExportStep, SweepStep,
      TroubleStep, LookUp, Update, Create, Reparse, RemoveRecord, CompleteTooLate, StartSweep,
      ListRecords, RemoveOrphan, EndSweep, CreateUnanswered, CallFails, Crash

\* An exporter comes to the place where it writes by its lookup only.
LEMMA WritesWhatItLookedUp ==
  ASSUME Typed, [RagNext]_ragVars, NEW w \in Exporters, at'[w] = "write"
  PROVE  \/ LookUp(w)
         \/ at[w] = "write" /\ hand'[w] = hand[w]
<1>0. RagTypeOK
  BY DEF Typed
<1>1. ASSUME NEW x \in Exporters, QueueStep(x) PROVE at[w] = "write" /\ hand'[w] = hand[w]
  BY <1>0, <1>1 DEF QueueStep, Reconcile, ClaimNothing, ClaimJob, RagTypeOK
<1>2. ASSUME NEW x \in Exporters, ExportStep(x)
      PROVE  LookUp(w) \/ (at[w] = "write" /\ hand'[w] = hand[w])
  <2>1. CASE LookUp(x)
    BY <1>0, <2>1 DEF LookUp, RagTypeOK
  <2>2. CASE Create(x)
    BY <1>0, <2>2 DEF Create, RagTypeOK
  <2>3. CASE Update(x) \/ Reparse(x) \/ RemoveRecord(x)
    BY <1>0, <2>3 DEF Update, Reparse, RemoveRecord, RagTypeOK
  <2>4. CASE Complete(x) \/ CompleteTooLate(x) \/ Fail(x)
    BY <1>0, <2>4 DEF Complete, CompleteTooLate, Fail, RagTypeOK
  <2> QED
    BY <1>2, <2>1, <2>2, <2>3, <2>4 DEF ExportStep
<1>3. ASSUME NEW x \in Exporters, SweepStep(x) \/ TroubleStep(x)
      PROVE  at[w] = "write" /\ hand'[w] = hand[w]
  BY <1>0, <1>3
  DEF SweepStep, TroubleStep, StartSweep, ListRecords, RemoveOrphan, EndSweep, CreateUnanswered,
      CallFails, Crash, RagTypeOK
<1>4. CASE UNCHANGED <<at, hand>>
  BY <1>4
<1> QED
  BY <1>1, <1>2, <1>3, <1>4
  DEF RagNext, ragVars, DocumentStep, Expire, LeaseLapses, CreateLate

\* What a step adds to WeKnora, if it adds anything.
LEMMA RecordsAdded ==
  ASSUME Typed, [RagNext]_ragVars
  PROVE  /\ astray \subseteq astray'
         /\ \/ \A n \in Versions, j \in Knowledge :
                 store'[n][j] \in Held => store[n][j] \in Held
            \/ \E n \in Versions, k \in Knowledge :
                 /\ store' = [store EXCEPT ![n][k] = "stored"]
                 /\ \/ n \in astray'
                    \/ \E w \in Exporters :
                         /\ at[w] = "write" /\ hand[w].knowledge = NoKnowledge
                         /\ hand[w].version = n /\ StillOwns(w, n) /\ at'[w] # "write"
<1>0. RagTypeOK
  BY DEF Typed
<1>1. ASSUME NEW m \in Versions, CreateLate(m)
      PROVE  /\ m \in astray' /\ astray \subseteq astray'
             /\ \E k \in Knowledge : store' = [store EXCEPT ![m][k] = "stored"]
  BY <1>1 DEF CreateLate
<1>2. ASSUME NEW x \in Exporters, Create(x)
      PROVE  /\ astray \subseteq astray'
             /\ \E n \in Versions, k \in Knowledge :
                  /\ store' = [store EXCEPT ![n][k] = "stored"]
                  /\ \/ n \in astray'
                     \/ /\ at[x] = "write" /\ hand[x].knowledge = NoKnowledge
                        /\ hand[x].version = n /\ StillOwns(x, n) /\ at'[x] # "write"
  <2>1. hand[x].version \in Versions
    BY <1>2 DEF Create, Typed, HandsNameVersions, Busy, Calling
  <2>2. PICK k \in Knowledge : store' = [store EXCEPT ![hand[x].version][k] = "stored"]
    BY <1>2 DEF Create
  <2>3. at[x] = "write" /\ hand[x].knowledge = NoKnowledge /\ at'[x] # "write"
    BY <1>0, <1>2 DEF Create, RagTypeOK
  <2>4. astray' = IF StillOwns(x, hand[x].version) THEN astray ELSE astray \cup {hand[x].version}
    BY <1>2 DEF Create
  <2> QED
    BY <2>1, <2>2, <2>3, <2>4
<1>3. ASSUME NEW x \in Exporters,
             Update(x) \/ Reparse(x) \/ RemoveRecord(x) \/ RemoveOrphan(x)
      PROVE  /\ astray' = astray
             /\ \A n \in Versions, j \in Knowledge :
                  store'[n][j] \in Held => store[n][j] \in Held
  <2>1. PICK m, i, s : /\ store' = store \/ store' = [store EXCEPT ![m][i] = s]
                       /\ i \in Present(m) \/ s = "deleted"
    BY <1>3 DEF Update, Reparse, Reparsed, RemoveRecord, RemoveOrphan, Deleted
  <2>2. ASSUME NEW n \in Versions, NEW j \in Knowledge, store'[n][j] \in Held
        PROVE  store[n][j] \in Held
    <3>1. CASE store' = store
      BY <2>2, <3>1
    <3>2. CASE store' = [store EXCEPT ![m][i] = s] /\ n = m /\ i = j
      <4>1. store'[n][j] = s
        BY <1>0, <3>2 DEF RagTypeOK
      <4> QED
        BY <2>1, <2>2, <3>2, <4>1 DEF Present, Held
    <3>3. CASE store' = [store EXCEPT ![m][i] = s] /\ ~(n = m /\ i = j)
      <4>1. store'[n][j] = store[n][j]
        BY <1>0, <3>3 DEF RagTypeOK
      <4> QED
        BY <2>2, <4>1
    <3> QED
      BY <2>1, <3>1, <3>2, <3>3
  <2> QED
    BY <1>3, <2>2 DEF Update, Reparse, RemoveRecord, RemoveOrphan
<1>4. ASSUME UNCHANGED <<store, astray>>
      PROVE  /\ astray' = astray
             /\ \A n \in Versions, j \in Knowledge :
                  store'[n][j] \in Held => store[n][j] \in Held
  BY <1>4
<1>5. \/ \E m \in Versions : CreateLate(m)
      \/ \E x \in Exporters :
           \/ Create(x)
           \/ Update(x) \/ Reparse(x) \/ RemoveRecord(x) \/ RemoveOrphan(x)
      \/ UNCHANGED <<store, astray>>
  BY DEF RagNext, ragVars, indexVars, DocumentStep, Expire, LeaseLapses, QueueStep, ExportStep,
      SweepStep, TroubleStep, Reconcile, ClaimNothing, ClaimJob, LookUp, Complete,
      CompleteTooLate, Fail, StartSweep, ListRecords, EndSweep, CreateUnanswered, CallFails, Crash
<1>6. CASE \E m \in Versions : CreateLate(m)
  BY <1>1, <1>6
<1>7. CASE \E x \in Exporters : Create(x)
  BY <1>2, <1>7
<1> QED
  BY <1>3, <1>4, <1>5, <1>6, <1>7

\* A lookup that finds nothing, of a version with one record at most, means there is none.
LEMMA NothingFound ==
  ASSUME OneRecordPerVersion, NEW n \in Versions \ astray, Found(n) = NoKnowledge
  PROVE  Present(n) = {}
<1>1. NoKnowledge \notin Knowledge
  BY LimitsAssumption DEF Knowledge, NoKnowledge
<1>2. \A j \in Knowledge : Present(n) # {j}
  BY <1>1 DEF Found
<1> QED
  BY <1>2 DEF OneRecordPerVersion, Present

LEMMA OneRecordStep == OneRecordInv /\ [RagNext]_ragVars => OneRecordInv'
<1> SUFFICES ASSUME OneRecordInv, [RagNext]_ragVars PROVE OneRecordInv'
  OBVIOUS
<1>0. Typed /\ RagTypeOK /\ OneRecordPerVersion /\ Typed'
  BY TypedStep DEF OneRecordInv, Typed
<1>1. OneRecordPerVersion'
  <2>1. CASE \A n \in Versions, j \in Knowledge : store'[n][j] \in Held => store[n][j] \in Held
    BY <1>0, <2>1, RecordsAdded DEF OneRecordPerVersion, Present, Held
  <2>2. ASSUME NEW n \in Versions, NEW k \in Knowledge,
               store' = [store EXCEPT ![n][k] = "stored"],
               n \in astray' \/ Present(n) = {}
        PROVE  OneRecordPerVersion'
    <3>1. \A m \in Versions \ {n} : store'[m] = store[m]
      BY <1>0, <2>2 DEF RagTypeOK
    <3>2. Present(n) = {} => \A j \in Knowledge : store'[n][j] \in Held => j = k
      BY <1>0, <2>2 DEF RagTypeOK, Present, Held
    <3> QED
      BY <1>0, <2>2, <3>1, <3>2, RecordsAdded DEF OneRecordPerVersion, Present, Held
  <2>3. ASSUME NEW n \in Versions, NEW w \in Exporters, n \notin astray',
               at[w] = "write", hand[w].knowledge = NoKnowledge, hand[w].version = n,
               StillOwns(w, n)
        PROVE  Present(n) = {}
    BY <1>0, <2>3, RecordsAdded DEF OneRecordInv, LookupStands, OwnJob, StillOwns
  <2> QED
    BY <1>0, <2>1, <2>2, <2>3, RecordsAdded
<1>2. ASSUME NEW w \in Exporters, NEW v \in Versions, at'[w] = "write", v = hand'[w].version,
             hand'[w].knowledge = NoKnowledge, StillOwns(w, v)', v \notin astray'
      PROVE  Present(v)' = {}
  <2>1. hand[w].version = v /\ StillOwns(w, v) /\ v \notin astray
    <3>1. CASE LookUp(w)
      BY <1>0, <1>2, <3>1, OwnershipIsClaimed, RecordsAdded DEF LookUp, RagTypeOK, Claims
    <3> QED
      BY <1>0, <1>2, <3>1, WritesWhatItLookedUp, OwnershipIsClaimed, RecordsAdded
  <2>2. Present(v) = {}
    <3>1. CASE LookUp(w)
      <4>1. Found(v) = NoKnowledge
        BY <1>0, <1>2, <2>1, <3>1 DEF LookUp, RagTypeOK, Claims
      <4> QED
        BY <1>0, <2>1, <4>1, NothingFound
    <3>2. CASE at[w] = "write" /\ hand'[w] = hand[w]
      BY <1>2, <2>1, <3>2 DEF OneRecordInv, LookupStands, OwnJob, StillOwns
    <3> QED
      BY <1>0, <1>2, <3>1, <3>2, WritesWhatItLookedUp
  <2>3. \A j \in Knowledge : store'[v][j] \in Held => store[v][j] \in Held
    <3>1. ASSUME NEW n \in Versions, NEW x \in Exporters, StillOwns(x, n), at'[x] # "write"
          PROVE  n # v
      BY <1>2, <2>1, <3>1 DEF StillOwns
    <3>2. ASSUME NEW n \in Versions, NEW k \in Knowledge,
                 store' = [store EXCEPT ![n][k] = "stored"], n # v
          PROVE  store'[v] = store[v]
      BY <1>0, <3>2 DEF RagTypeOK
    <3> QED
      BY <1>0, <1>2, <3>1, <3>2, RecordsAdded
  <2> QED
    BY <2>2, <2>3 DEF Present, Held
<1>3. ASSUME NEW w \in Exporters PROVE LookupStands(w)'
  <2> SUFFICES ASSUME (at[w] = "write" /\ hand[w].knowledge = NoKnowledge /\ OwnJob(w)
                         /\ hand[w].version \notin astray)'
               PROVE  (Present(hand[w].version) = {})'
    BY DEF LookupStands
  <2>1. PICK v \in Versions : v = hand'[w].version
    BY <1>0 DEF Typed, HandsNameVersions, Busy, Calling
  <2>2. StillOwns(w, v)'
    BY <2>1 DEF OwnJob, StillOwns
  <2>3. Present(v)' = {}
    BY <1>2, <2>1, <2>2
  <2> QED
    BY <2>1, <2>3 DEF Present
<1> QED
  BY <1>0, <1>1, <1>3 DEF OneRecordInv

\* For any number of exporters, versions and attempts, whatever fails, dies, comes late or
\* is taken over: WeKnora holds at most one record of a version, unless a creation of it
\* was carried out after its caller had given up or had been overtaken.
THEOREM OneRecordHolds == RagSpec => []OneRecordPerVersion
<1>1. RagInit => OneRecordInv
  <2> SUFFICES ASSUME RagInit PROVE OneRecordInv
    OBVIOUS
  <2>1. \A n \in Versions : Present(n) = {}
    BY DEF RagInit, Present
  <2>2. \A w \in Exporters : at[w] = "idle"
    BY DEF RagInit
  <2> QED
    BY <2>1, <2>2, RagInitTyped DEF OneRecordInv, OneRecordPerVersion, LookupStands
<1>2. OneRecordInv /\ [RagNext]_ragVars => OneRecordInv'
  BY OneRecordStep
<1>3. OneRecordInv => OneRecordPerVersion
  BY DEF OneRecordInv
<1> QED
  BY <1>1, <1>2, <1>3, PTL DEF RagSpec
=============================================================================
