------------------------------ MODULE RagExport ------------------------------
(***************************************************************************)
(* The export of published versions to WeKnora, the external search index:  *)
(* the queue rag_export_queue, the record of what was indexed               *)
(* (rag_index_entries), the exporters that drain the queue, and the sweep   *)
(* that deletes external records nothing points at.                         *)
(*                                                                          *)
(* IntraDocs follows its own publication: the document moves by the steps   *)
(* of DocumentLifecycle, which ReviewPublication is shown to implement, and *)
(* nothing below changes it.  Every SQL function is one action; every call  *)
(* to WeKnora is another, because an exporter may fail, die or be overtaken *)
(* between any two.  Two exporters may run at once: the worker and          *)
(* "pnpm weknora:sync".                                                     *)
(*                                                                          *)
(* Left out: hashes (markdown_sha256 is immutable, so the hash of an entry  *)
(* is always the version's), the order of claims, and back-off times.       *)
(***************************************************************************)
EXTENDS DocumentLifecycle, FiniteSets

CONSTANTS
  Exporters,      \* processes that export: the worker, weknora:sync
  NoExporter,     \* "lease_token is null"
  MaxAttempts,    \* attempts of an export job before it is dead (5)
  ListLimit,      \* records a listing of the index returns at most (1000)
  LateAnswers     \* may WeKnora carry out a request after the caller gave it up?

ASSUME ExportersAssumption == NoExporter \notin Exporters
ASSUME LimitsAssumption == /\ MaxVersions \in Nat /\ MaxAttempts \in Nat /\ ListLimit \in Nat
                           /\ LateAnswers \in BOOLEAN

VARIABLES
  expired,        \* versions whose expires_at has passed
  job,            \* the rag_export_queue row of each version
  entry,          \* the knowledge_id of its rag_index_entries row, NoKnowledge without one
  store,          \* WeKnora: what became of each record titled with the version
  late,           \* creations WeKnora was asked for and has not carried out yet
  astray,         \* (history) versions created for a caller that was overtaken or gave up
  at,             \* where each exporter is
  hand,           \* the claim an exporter works on
  known,          \* the versions a sweep took for known
  doomed          \* the records a sweep has still to delete

documentVars == <<stage, live, retired, expired>>
indexVars    == <<store, late, astray>>
sweepVars    == <<known, doomed>>
ragVars == <<documentVars, job, entry, indexVars, at, hand, sweepVars>>

\* A record is one per attempt at most; WeKnora never gives an id out twice.
Knowledge   == 1..MaxAttempts
NoKnowledge == 0

Jobs == [operation: {"none", "upsert", "remove"},
         state: {"absent", "pending", "running", "done", "dead"},
         attempts: 0..MaxAttempts, holder: Exporters \cup {NoExporter}, lapsed: BOOLEAN]
NoJob == [operation |-> "none", state |-> "absent", attempts |-> 0,
          holder |-> NoExporter, lapsed |-> FALSE]

Claims  == [version: Versions \cup {0}, operation: {"none", "upsert", "remove"},
            knowledge: Knowledge \cup {NoKnowledge}]
NoClaim == [version |-> 0, operation |-> "none", knowledge |-> NoKnowledge]

Places  == {"idle", "lookup", "write", "reparse", "remove", "report", "failed",
            "list", "sweep"}
\* Places at which the next thing an exporter does is a call that may fail.
Calling == {"lookup", "write", "reparse", "remove", "report"}

RagInit ==
  /\ Init
  /\ expired = {}
  /\ job = [v \in Versions |-> NoJob]
  /\ entry = [v \in Versions |-> NoKnowledge]
  /\ store = [v \in Versions |-> [k \in Knowledge |-> "never"]]
  /\ late = [v \in Versions |-> 0]
  /\ astray = {}
  /\ at = [w \in Exporters |-> "idle"]
  /\ hand = [w \in Exporters |-> NoClaim]
  /\ known = [w \in Exporters |-> {}]
  /\ doomed = [w \in Exporters |-> {}]

\* app.is_indexable_version.
Indexable(v) == v = live /\ ~retired /\ v \notin expired

Present(v) == {k \in Knowledge : store[v][k] \in {"stored", "searchable"}}

-----------------------------------------------------------------------------
(* The document: publication never waits for the index. *)

DocumentStep ==
  /\ Next
  /\ live' # live => live' \notin expired
  /\ UNCHANGED <<expired, job, entry, indexVars, at, hand, sweepVars>>

Expire(v) ==
  /\ stage[v] = "approved" /\ v \notin expired
  /\ expired' = expired \cup {v}
  /\ UNCHANGED <<stage, live, retired, job, entry, indexVars, at, hand, sweepVars>>

-----------------------------------------------------------------------------
(* The queue. *)

\* A job changes hands only when the work is new: another operation, or the same one
\* again after it was done.  A running job is never disturbed.
Reopens(v, operation) ==
  /\ job[v].state # "running"
  /\ job[v].operation # operation \/ job[v].state = "done"

Queued(operation) == [NoJob EXCEPT !.operation = operation, !.state = "pending"]

\* app.reconcile_rag_exports.
Reconcile(w) ==
  /\ at[w] = "idle"
  /\ job' = [v \in Versions |->
       IF Indexable(v) /\ entry[v] = NoKnowledge /\ Reopens(v, "upsert") THEN Queued("upsert")
       ELSE IF ~Indexable(v) /\ entry[v] # NoKnowledge /\ Reopens(v, "remove")
         THEN Queued("remove")
       ELSE job[v]]
  /\ UNCHANGED <<documentVars, entry, indexVars, at, hand, sweepVars>>

\* A lease that lapsed on the last attempt.
GivenUp(j) ==
  IF j.state = "running" /\ j.lapsed /\ j.attempts >= MaxAttempts
    THEN [j EXCEPT !.state = "dead"] ELSE j

\* Mutants: the attempts are not counted, a lapsed lease is not taken over.
ClaimableForever(v) == job[v].state = "pending" \/ (job[v].state = "running" /\ job[v].lapsed)
ClaimablePending(v) == job[v].state = "pending" /\ job[v].attempts < MaxAttempts

Claimable(v) ==
  /\ job[v].state = "pending" \/ (job[v].state = "running" /\ job[v].lapsed)
  /\ job[v].attempts < MaxAttempts

\* app.claim_rag_export: the operation is the one that was queued.
ClaimJob(w, v) ==
  /\ at[w] = "idle"
  /\ Claimable(v)
  /\ job' = [n \in Versions |->
       IF n = v THEN [job[v] EXCEPT !.state = "running", !.attempts = @ + 1,
                                    !.holder = w, !.lapsed = FALSE]
       ELSE GivenUp(job[n])]
  /\ hand' = [hand EXCEPT ![w] = [version |-> v, operation |-> job[v].operation,
                                  knowledge |-> entry[v]]]
  /\ at' = [at EXCEPT ![w] = IF job[v].operation = "remove" THEN "remove" ELSE "lookup"]
  /\ UNCHANGED <<documentVars, entry, indexVars, sweepVars>>

ClaimNothing(w) ==
  /\ at[w] = "idle"
  /\ \A v \in Versions : ~Claimable(v)
  /\ job' = [v \in Versions |-> GivenUp(job[v])]
  /\ UNCHANGED <<documentVars, entry, indexVars, at, hand, sweepVars>>

LeaseLapses(v) ==
  /\ job[v].state = "running" /\ ~job[v].lapsed
  /\ job' = [job EXCEPT ![v] = [@ EXCEPT !.lapsed = TRUE]]
  /\ UNCHANGED <<documentVars, entry, indexVars, at, hand, sweepVars>>

-----------------------------------------------------------------------------
(* One export, call by call. *)

\* Mutant: no lookup before a creation.
FoundNothing(v) == NoKnowledge

\* findByTitle: the record titled with the version, if there is exactly one.
Found(v) == IF \E k \in Knowledge : Present(v) = {k}
              THEN CHOOSE k \in Knowledge : Present(v) = {k} ELSE NoKnowledge

LookUp(w) ==
  /\ at[w] = "lookup"
  /\ hand[w].knowledge = NoKnowledge
       => hand' = [hand EXCEPT ![w] = [@ EXCEPT !.knowledge = Found(hand[w].version)]]
  /\ hand[w].knowledge # NoKnowledge => UNCHANGED hand
  /\ at' = [at EXCEPT ![w] = "write"]
  /\ UNCHANGED <<documentVars, job, entry, indexVars, sweepVars>>

\* Updating a record that is gone is an error: CallFails.
Update(w) ==
  LET v == hand[w].version  k == hand[w].knowledge IN
  /\ at[w] = "write"
  /\ k \in Present(v)
  /\ store' = [store EXCEPT ![v][k] = "stored"]
  /\ at' = [at EXCEPT ![w] = "reparse"]
  /\ UNCHANGED <<documentVars, job, entry, late, astray, hand, sweepVars>>

\* Nobody else has claimed the job since, and it was not given up.
StillOwns(w, v) == job[v].state = "running" /\ job[v].holder = w

Fresh(v, k) == store[v][k] = "never" /\ \A n \in 1..(k - 1) : store[v][n] # "never"

Create(w) ==
  LET v == hand[w].version IN
  /\ at[w] = "write"
  /\ hand[w].knowledge = NoKnowledge
  /\ \E k \in Knowledge :
       /\ Fresh(v, k)
       /\ store' = [store EXCEPT ![v][k] = "stored"]
       /\ hand' = [hand EXCEPT ![w] = [@ EXCEPT !.knowledge = k]]
  /\ astray' = IF StillOwns(w, v) THEN astray ELSE astray \cup {v}
  /\ at' = [at EXCEPT ![w] = "reparse"]
  /\ UNCHANGED <<documentVars, job, entry, late, sweepVars>>

\* The request timed out or the exporter died, and WeKnora creates the record later.
CreateUnanswered(w) ==
  /\ LateAnswers
  /\ at[w] = "write"
  /\ hand[w].knowledge = NoKnowledge
  /\ late' = [late EXCEPT ![hand[w].version] = @ + 1]
  /\ at' = [at EXCEPT ![w] = "failed"]
  /\ UNCHANGED <<documentVars, job, entry, store, astray, hand, sweepVars>>

CreateLate(v) ==
  /\ late[v] > 0
  /\ \E k \in Knowledge : Fresh(v, k) /\ store' = [store EXCEPT ![v][k] = "stored"]
  /\ late' = [late EXCEPT ![v] = @ - 1]
  /\ astray' = astray \cup {v}
  /\ UNCHANGED <<documentVars, job, entry, at, hand, sweepVars>>

\* Mutant: the record is stored and reported, and never parsed.
ReparseNothing(v, k) == store

\* What is stored is searchable only after a reparse.
Reparsed(v, k) ==
  IF k \in Present(v) THEN [store EXCEPT ![v][k] = "searchable"] ELSE store

Reparse(w) ==
  /\ at[w] = "reparse"
  /\ store' = Reparsed(hand[w].version, hand[w].knowledge)
  /\ at' = [at EXCEPT ![w] = "report"]
  /\ UNCHANGED <<documentVars, job, entry, late, astray, hand, sweepVars>>

Deleted(v, k) == IF k \in Present(v) THEN [store EXCEPT ![v][k] = "deleted"] ELSE store

RemoveRecord(w) ==
  /\ at[w] = "remove"
  /\ store' = Deleted(hand[w].version, hand[w].knowledge)
  /\ at' = [at EXCEPT ![w] = "report"]
  /\ UNCHANGED <<documentVars, job, entry, late, astray, hand, sweepVars>>

-----------------------------------------------------------------------------
(* How an export ends. *)

HoldsLease(w, v) == job[v].state = "running" /\ job[v].holder = w /\ ~job[v].lapsed

\* What app.complete_rag_export leaves in rag_index_entries.
EntryAfter(w, v) ==
  IF job[v].operation = "remove" \/ ~Indexable(v) THEN NoKnowledge ELSE hand[w].knowledge

\* app.complete_rag_export by the exporter that holds the lease.
Complete(w) ==
  LET v == hand[w].version IN
  /\ at[w] = "report"
  /\ HoldsLease(w, v)
  /\ entry' = [entry EXCEPT ![v] = EntryAfter(w, v)]
  /\ job' = [job EXCEPT ![v] = [@ EXCEPT !.state = "done", !.lapsed = FALSE]]
  /\ at' = [at EXCEPT ![w] = "idle"]
  /\ hand' = [hand EXCEPT ![w] = NoClaim]
  /\ UNCHANGED <<documentVars, indexVars, sweepVars>>

\* ... by one that does not: nothing happens if the job is done, else "Stale lease".
CompleteTooLate(w) ==
  LET v == hand[w].version IN
  /\ at[w] = "report"
  /\ ~HoldsLease(w, v)
  /\ at' = [at EXCEPT ![w] = IF job[v].state = "done" THEN "idle" ELSE "failed"]
  /\ hand' = [hand EXCEPT ![w] = IF job[v].state = "done" THEN NoClaim ELSE @]
  /\ UNCHANGED <<documentVars, job, entry, indexVars, sweepVars>>

\* Mutant: the failure of an attempt that was overtaken counts.
FailsAlways(w, v) == job[v].holder \in Exporters

\* The lease need not be in force, only the exporter's own.
FailCounts(w, v) == StillOwns(w, v)

\* app.fail_rag_export.
Fail(w) ==
  LET v == hand[w].version IN
  /\ at[w] = "failed"
  /\ job' = IF FailCounts(w, v)
              THEN [job EXCEPT ![v] = [@ EXCEPT
                      !.state = IF job[v].attempts >= MaxAttempts THEN "dead" ELSE "pending",
                      !.lapsed = FALSE]]
              ELSE job
  /\ at' = [at EXCEPT ![w] = "idle"]
  /\ hand' = [hand EXCEPT ![w] = NoClaim]
  /\ UNCHANGED <<documentVars, entry, indexVars, sweepVars>>

\* A text that cannot be read, a WeKnora error or time-out, a lost connection.
CallFails(w) ==
  /\ at[w] \in Calling
  /\ at' = [at EXCEPT ![w] = "failed"]
  /\ UNCHANGED <<documentVars, job, entry, indexVars, hand, sweepVars>>

\* The process dies, or the round is abandoned by an exception.
Crash(w) ==
  /\ at[w] # "idle"
  /\ at' = [at EXCEPT ![w] = "idle"]
  /\ hand' = [hand EXCEPT ![w] = NoClaim]
  /\ known' = [known EXCEPT ![w] = {}]
  /\ doomed' = [doomed EXCEPT ![w] = {}]
  /\ UNCHANGED <<documentVars, job, entry, indexVars>>

-----------------------------------------------------------------------------
(* sweepRagOrphans. *)

\* Mutant: a version that was ever queued counts as known.
QueuedVersions == {v \in Versions : job[v].state # "absent"}

KnownVersions == {v \in Versions : entry[v] # NoKnowledge}

StartSweep(w) ==
  /\ at[w] = "idle"
  /\ known' = [known EXCEPT ![w] = KnownVersions]
  /\ at' = [at EXCEPT ![w] = "list"]
  /\ UNCHANGED <<documentVars, job, entry, indexVars, hand, doomed>>

AllRecords == {r \in Versions \X Knowledge : r[2] \in Present(r[1])}

\* The order of the pages is WeKnora's; the listing stops at its limit.
Listing(page) ==
  /\ Cardinality(page) <= ListLimit
  /\ page = AllRecords \/ Cardinality(page) = ListLimit

ListRecords(w) ==
  /\ at[w] = "list"
  /\ \E page \in SUBSET AllRecords :
       /\ Listing(page)
       /\ doomed' = [doomed EXCEPT ![w] = {r \in page : r[1] \notin known[w]}]
  /\ known' = [known EXCEPT ![w] = {}]
  /\ at' = [at EXCEPT ![w] = "sweep"]
  /\ UNCHANGED <<documentVars, job, entry, indexVars, hand>>

RemoveOrphan(w) ==
  /\ at[w] = "sweep"
  /\ \E r \in doomed[w] :
       /\ store' = Deleted(r[1], r[2])
       /\ doomed' = [doomed EXCEPT ![w] = @ \ {r}]
  /\ UNCHANGED <<documentVars, job, entry, late, astray, at, hand, known>>

EndSweep(w) ==
  /\ at[w] = "sweep" /\ doomed[w] = {}
  /\ at' = [at EXCEPT ![w] = "idle"]
  /\ UNCHANGED <<documentVars, job, entry, indexVars, hand, sweepVars>>

-----------------------------------------------------------------------------
QueueStep(w) == Reconcile(w) \/ ClaimNothing(w) \/ \E v \in Versions : ClaimJob(w, v)

ExportStep(w) ==
  \/ LookUp(w) \/ Update(w) \/ Create(w) \/ Reparse(w) \/ RemoveRecord(w)
  \/ Complete(w) \/ CompleteTooLate(w) \/ Fail(w)

SweepStep(w) == StartSweep(w) \/ ListRecords(w) \/ RemoveOrphan(w) \/ EndSweep(w)

TroubleStep(w) == CreateUnanswered(w) \/ CallFails(w) \/ Crash(w)

RagNext ==
  \/ DocumentStep
  \/ \E v \in Versions : Expire(v) \/ LeaseLapses(v) \/ CreateLate(v)
  \/ \E w \in Exporters : QueueStep(w) \/ ExportStep(w) \/ SweepStep(w) \/ TroubleStep(w)

RagSpec == RagInit /\ [][RagNext]_ragVars

\* The tick comes round again and again; a claim takes the oldest job, so none starves;
\* leases lapse, requests that are under way arrive, and an exporter that is in the
\* middle of something goes on, fails or dies.  Only the sweep is assumed to get through
\* now and then: exports may fail every time, and are then dead.
RagFairness ==
  /\ \A v \in Versions :
       /\ SF_ragVars(\E w \in Exporters : ClaimJob(w, v))
       /\ WF_ragVars(LeaseLapses(v)) /\ WF_ragVars(CreateLate(v))
  /\ \A w \in Exporters :
       /\ SF_ragVars(Reconcile(w)) /\ SF_ragVars(ClaimNothing(w))
       /\ SF_ragVars(StartSweep(w)) /\ SF_ragVars(ListRecords(w))
       /\ SF_ragVars(RemoveOrphan(w)) /\ SF_ragVars(EndSweep(w))
       /\ WF_ragVars(ExportStep(w))

FairRag == RagSpec /\ RagFairness

-----------------------------------------------------------------------------
RagTypeOK ==
  /\ stage \in [Versions -> Stages] /\ live \in Versions \cup {0} /\ retired \in BOOLEAN
  /\ expired \in SUBSET Versions
  /\ job \in [Versions -> Jobs]
  /\ entry \in [Versions -> Knowledge \cup {NoKnowledge}]
  /\ store \in [Versions -> [Knowledge -> {"never", "stored", "searchable", "deleted"}]]
  /\ late \in [Versions -> Nat]
  /\ astray \in SUBSET Versions
  /\ at \in [Exporters -> Places]
  /\ hand \in [Exporters -> Claims]
  /\ known \in [Exporters -> SUBSET Versions]
  /\ doomed \in [Exporters -> SUBSET (Versions \X Knowledge)]

\* No job is closed on a lie, whoever overtook whom: when the job of a live version is
\* done the version is indexed, an indexed version is not waiting for an export that
\* would send it again, and a removal that is done has removed the entry.
QueueTellsTheTruth ==
  \A v \in Versions :
    /\ job[v].state = "done" /\ Indexable(v) => entry[v] # NoKnowledge
    /\ job[v].operation = "upsert" /\ entry[v] # NoKnowledge => job[v].state = "done"
    /\ job[v].operation = "remove" /\ job[v].state = "done" => entry[v] = NoKnowledge

\* A live version that counts as indexed can be found: its record is in WeKnora and was
\* parsed after it was last written.  Nothing would ever send it again.
IndexedIsSearchable ==
  \A v \in Versions : Indexable(v) /\ entry[v] # NoKnowledge
    => store[v][entry[v]] = "searchable"

\* WeKnora holds one record of a version, however often its export failed, died or was
\* taken over, unless a creation was carried out after its caller had given up or been
\* overtaken: between the lookup by title and the creation nobody else creates.
OneRecordPerVersion == \A v \in Versions \ astray : \A j, k \in Present(v) : j = k

\* The records of indexed versions fill a listing, so that it may show nothing else.
Crowded == Cardinality({r \in AllRecords : entry[r[1]] # NoKnowledge}) >= ListLimit

\* A version that is not or no longer live leaves WeKnora for good, the records of failed
\* and forgotten attempts included, unless its removal used up its attempts. (What is over
\* stays over, so that nothing of it is left from some time on.)
Over(v) == retired \/ v < live \/ v \in expired
NothingIsLeft == \A v \in Versions : Over(v) =>
  Present(v) = {} \/ (job[v].operation = "remove" /\ job[v].state = "dead")

\* This is so as long as the indexed versions leave room in a listing, however many records
\* there are (sweepRagOrphans).
OverLeavesTheIndex == <>[]~Crowded => <>[]NothingIsLeft

\* A live version gets indexed or its export is given up after its attempts: again and
\* again this is so of the version that is live.
LiveIsIndexed ==
  []<>(\A v \in Versions : Indexable(v) => entry[v] # NoKnowledge \/ job[v].state = "dead")
=============================================================================
