# IntraDocs, specified and checked in TLA+

IntraDocs is an internal document portal: people upload documents, reviewers approve
versions, a worker indexes and publishes them, readers search and read, and an external
knowledge base (WeKnora) answers questions about them. The program is TypeScript around a
PostgreSQL database, and nearly all of its state machines are PL/pgSQL functions in
`src/packages/db/migrations/001…045`. This directory holds TLA+ modules of those state
machines, TLC runs over small instances, and TLAPS proofs of what matters most.

## 1. Inventory

| Component | State | Operations | Talks to |
|---|---|---|---|
| Review and publication (`004`, `008`, `009`, `019`, `027`, `037`; `packages/db/src/workflow.ts`) | versions (review / processing / publication state, expiry), findings, approval request and its steps, `publication_outbox`, `documents.current_version_id`, `withdrawn` | commit_revision, rollback_version, submit_version, decide_version, resolve_finding, retry_publication, withdraw_document(s), claim / publish / fail | worker (outbox), access rights, taxonomy (rules), retention, RAG export (what is indexable) |
| Publication worker (`apps/worker/src/index.ts`, `publication.ts`, `packages/core/src/workflow.ts`) | the claim it is working on | a 2 s tick: ≤10 claims, each indexed and reported | the outbox, object storage |
| Retention and reaffirmation (`042`) | `review_at`, `expires_at`, reminders, archive audit events | hourly apply_retention, reaffirm_version | review and publication |
| RAG export (`010`, `012`, `013`, `017`, `018`; `packages/core/src/rag.ts`) | `rag_export_queue`, `rag_index_entries`, the external index | reconcile, claim, complete, fail, orphan sweep | WeKnora, review and publication |
| Uploads and drafts (`003`, `005`; `db/src/uploads.ts`, `core/src/draft-ingestion.ts`, `upload-form.tsx`) | the form with its request id, upload requests with leases and attempts, versions | save, change, stop waiting; reserve, complete, fail | ClamAV, converter, storage, taxonomy |
| Object storage, GC and backups (`core/src/storage.ts`, `orphan-cleanup.ts`, `scripts/storage-gc.ts`, `scripts/ops.ts`) | the directories of versions, the maintenance lock, backups | put, plan and delete orphans, backup, verify, restore | uploads, restored versions |
| Notifications and digests (`038`, `041`; `core/src/mail.ts`) | notifications with age and attempts, the digest a worker holds | claim, send, settle, retire | SMTP |
| Invitations and custom roles (`032`, `039`; `db/src/invitations.ts`, `custom-roles.tsx`) | invitations, roles with revisions, profiles, sign-in rows, the pool of auth connections | invite, accept, revoke, expire, assign, save and archive roles | authentication, access rights |
| Taxonomy and labels (`006`, `024`, `025`, `031`; `db/src/taxonomy.ts`) | category tree, floors, approval steps, labels and aliases | add, change, move, delete, merge | uploads, approval rules |
| Access and row-level security (`001`, `008`, `026`) | memberships, clearances, grants | assign_user, set_document_access, access requests | everything |
| Technology architecture (`045`; `db/src/ta.ts`, `worker/src/ta-index.ts`) | proposals, elements, relations, history; cards in the search index | propose, approve (four eyes), turn down; index pass | worker, WeKnora |
| Assistant (`029`, `033`; `web/src/lib/rag.ts`, `db/src/assistant.ts`, `assistant-chat.tsx`) | conversations, turns and their citations, the session in WeKnora, the page | ask, answer, store, remember and forget sessions, delete | WeKnora, access rights |
| Required reading (`028`), access requests (`026`), feedback (`030`) | small tables | record, acknowledge, decide | access rights |
| Search and insights (`020`, `023`, `queries.ts`) | counters | read | – |
| Converter, knowledge runtime | none | bytes to text | uploads |
| Web portal (`apps/web`), authentication, scripts | the upload form, the assistant's page and the role dialog; elsewhere none | validate a request and call one function of `packages/db` | everything |

### What is hard here

* *Work outside transactions.* Each SQL function is atomic under the row lock of the
  document; a worker's job is not. It claims under a 90 s lease, reads and indexes outside
  any transaction, and reports. Everything may change in between, the lease may lapse, a
  second worker may take over, and the process may die.
* *State written twice.* An approval lives in `review_state`, in `approval_requests.state`
  and in the outbox; what readers get lives in the pointer, in `withdrawn` and in
  `publication_state`. Separate statements write them, and some operations write only one
  of the copies on purpose (a revision cancels a request and leaves `review_state` alone).
* *Snapshots without locks.* `apply_retention` takes no document lock: it decides on the
  snapshot of a loop and writes afterwards.
* *At-least-once deliveries* to WeKnora and SMTP, with crash recovery by looking again.
* *Files and rows.* Files are written before the row that names them, so a cleanup, a copy
  of a version and a backup meet files nobody refers to yet.
* *Statements of one transaction on several connections.* An acceptance sends `BEGIN`, its
  `INSERT`s and `COMMIT` through a pool that other requests use.
* *State in the browser.* Forms and pages wait for answers that come late or never, and keep
  ids and revisions meanwhile.
* *Rules that move.* Access rights and approval rules change while reviews and jobs run.

### What makes each component correct

* Review and publication: nothing is published without a complete approval that still
  stands at the swap; readers never lose a valid version; two jobs of one document never
  apply out of order; redundant state agrees; every job ends.
* Retention: an abandoned expired document is archived, nothing else is, and nothing of an
  archived document can be published.
* RAG export: at most one external record per version, unless one was created for a caller
  that was gone; a version that stops being indexable disappears from the external index in
  the end.
* Uploads: one content becomes at most one version whatever is retried, what the form shows
  is what was saved, and the limits hold although they are looked at before the work.
* Storage: every version the database knows has its files; a backup restores.
* Assistant: the model remembers one conversation, nothing that its person was known to have
  lost, and only sessions that exist; the page shows the conversation it continues.
* Accounts: who was told that the account is ready can sign in; who was refused leaves
  nothing behind; a role never contradicts its base role.
* Taxonomy: a forest of at most three levels with documents on leaves; no edit of the tree
  changes who reads a document. Labels: a merge needs one look.
* Architecture: the history says what an import really replaced; once the index is settled
  it says what the model says and can be searched, but for what a broken-off pass left.
* Digests: nothing counts as mailed without a mail, and repeats are accounted for.

`PROJECT.json` lists every component with its status, and every hazard at its line with
the properties that cover it.

## 2. Modules

| Module | What it is |
|---|---|
| `DocumentLifecycle` | Abstract specification: what the portal promises about the versions of a document, without reviewers, queues, leases or workers. |
| `ReviewPublication` | The detailed model of one document: versions, review, outbox, workers, clock, administrators. Implements `DocumentLifecycle`. |
| `Retention` | Composes the hourly retention pass and reaffirmation with `ReviewPublication`. |
| `RagExport` | The export to WeKnora: queue, exporters, the external index, the orphan sweep. Composed with `DocumentLifecycle`. |
| `Uploads` | One owner's uploads: the form with its request id, the lease, the attempts and limits. |
| `StorageMaintenance` | The files of versions: writers, the cleanup, backup and restore. |
| `AssistantConversations` | One person's conversations: page, questions at work, turns, sessions in WeKnora. |
| `Accounts` | Invitations, custom roles, and the acceptance over the pool of auth connections. |
| `Taxonomy`, `Labels` | The category tree with the drafts on it; the labels of one category. |
| `Architecture`, `ArchitectureIndex` | Import proposals and their history; the index pass of the worker. |
| `Digests` | Notifications as mail. |
| `MCReviewPublication`, `MCRetention`, `MCRagExport`, `MCUploads`, `MCStorageMaintenance`, `MCAssistantConversations`, `MCAccounts` | Small instances for TLC. |
| `MCAdministration` | The sum of `Accounts`, `Taxonomy`, `Labels`, `Architecture`, `ArchitectureIndex` and `Digests`, which share nothing: each behaviour takes the steps of one of them. |
| `ReviewPublicationProofs` | The inductive invariant of `ReviewPublication` and the proofs of its safety invariants. |
| `ReviewPublicationSteps` | Proofs of its action properties, of the refinement of `DocumentLifecycle`, and of the composition with the retention pass. |
| `RagExportProofs` | The invariants of the export, for any number of exporters and for one. |
| `UploadsProofs` | Why a content is saved once, and why the limits hold. |
| `StorageProofs` | Why registered versions keep their files and backups restore. |
| `AssistantProofs` | Why sessions, conversations and the page stay together. |
| `CatalogueProofs` | The invariants of `Taxonomy`, `Labels`, `Architecture` and `ArchitectureIndex`. |
| `AdministrationProofs` | The invariants of `Accounts` and `Digests`, and the types of the whole sum. |

### How `ReviewPublication` corresponds to the code

The model is one document; documents share nothing but the queue and the advisory locks.

* `review`, `processing`, `publication`: the three state columns of `document_versions`,
  with `latest` the highest version number. `expiry` is `expires_at` seen from now.
* `reqState`, `steps`: `approval_requests` and `approval_steps` in stage order.
* `job`: the outbox row. `leased` says `lease_until` is in the future, `due` that
  `available_at` has come. The lease token, fresh on every claim, is known to one worker,
  which forgets it before it claims again: the worker's name stands for it. A retried job
  (token reset) has no holder, as in the code.
* `current`, `withdrawn`: the `documents` row.
* `access`: who is an active member, in scope, cleared for the document and in a role that
  may review. `reviewer_eligible` is this minus the owner, who authors every version.
  All the ways of losing or regaining access are one action, `ChangeAccess`. `rule` is
  `app.rule_steps`, one approval or two.
* `claim`: what a worker holds between its SQL calls.

Each SQL function is one action that contains all its statements. The one exception is a
worker's job: `ClaimJob`, then `Publish`, `PublishStale`, `Fail` or `Crash`, with anything
in between. `publish_lexical` checks the approval again; `ApprovalStands` is that check and
`PublishStale` what it does when the check fails. `Fail` also stands for every way a call
can end in `fail_publication` (unreadable object, wrong checksum, stale lease).

Abstracted: text, hashes, metadata and category of a version (the columns that
`publish_lexical` compares are immutable once submitted), the wording of findings (one
flag), several findings (one flag: open or not), dates (seen from now), idempotency of
repeated requests. Documents seeded as published without a request are not modelled.

### How `Retention` corresponds to the code

`apply_retention` runs two loops. `ChooseExpired` and `ChooseOverdue` are their SELECTs,
`Archive` and `Escalate` their writes, and every step of owner, reviewers and workers may
come in between, because the pass locks no document before it writes. Administrators may
not: the pass holds the shared advisory lock they take exclusively. The escalation is
chosen under a date and waits, through its foreign key, for a concurrent reaffirmation.

### How `RagExport` corresponds to the code

To the export a document is what `DocumentLifecycle` says it is: `Indexable` reads the live
version, the withdrawal and the expiry, and nothing in the export changes them. Because
`ReviewPublication` implements `DocumentLifecycle`, the export needs to be checked only
against that.

* `job`: the row of `rag_export_queue` of a version; `lapsed` says that `lease_until` has
  passed. `entry`: its row of `rag_index_entries`.
* `store`: WeKnora, seen from the title that `indexTitle` gives the records of a version. A
  record is `stored` when created or updated and `searchable` after a reparse. `late`:
  creations that timed out at the caller and may still be carried out (`LateAnswers`).
* `astray` is history: the versions for which a record was created late, or by an exporter
  whose job another had claimed since or which was given up (`StillOwns`).
* `at`, `hand`: where an exporter is in `processRagExport` and what `claim_rag_export` gave
  it; `known`, `doomed`: what it holds in `sweepRagOrphans`.

Exporters are processes: the worker's tick (reconcile, up to its limit of claims, a sweep
now and then) and `pnpm weknora:sync` (`src/scripts/weknora.ts`), which runs the same
functions next to a running worker. Each SQL function is one action, each WeKnora request
another, and `CallFails`, `CreateUnanswered` and `Crash` may come at any of them. A token is
fresh on every claim and forgotten before the next, so an exporter's name stands for it.

Abstracted: hashes (a version's Markdown never changes, so neither does the hash an entry
is compared with), the order of claims, backoff times (a pending job may be claimed at
once), the batch limits. An upsert that is dead never has an entry, so the case that `012`
reopens for a changed hash does not arise. Not modelled: late updates and deletions, the
cap of 100 removals per sweep, `weknora:rebuild`, the deletion of versions by an operator
(`017`), and the state `cancelled`, which nothing sets.

### How `Uploads` corresponds to the code

`forms` is what `upload-form.tsx` keeps: the content it would send, `requestId`, the call it
waits for, what it shows as saved. Save makes an id if there is none, a change drops it
(`Changed`), cancelling or the 290 s time-out leaves the call running (`StopWaiting`). `rows` is
`app.upload_requests`: state, content (its fingerprint), the version and lease token of the
attempt, the end of the lease, attempts. `Reserve` is one transaction under the owner's lock,
with the tests in the order of the code (`Refused`); `Complete` checks lease, revision and
maintenance again. What happens between them (scan, conversion, files) fails (`Fail`) or loses
its process (`Die`). A call's number stands for the version id and the lease token it
reserves. Time is counted in ticks, because leases, the hourly limit and the reset of the
attempts compare times. Left out: the periodic maintenance seen from the storage (next module),
the category (see `Taxonomy`), the limit of storage.

### How `StorageMaintenance` corresponds to the code

A version has a directory with the parts written so far. Uploads write under a lease and
refuse while the cleanup holds its lock; a restored version (`versions.ts`) copies under
neither. `storage:gc` plans, and for each candidate reads the references again
(`ReadReferences`), inspects the directory (`Inspect`: it must be as planned and old enough)
and unlinks file by file, with writers in between. `ops:backup` dumps, hashes, packs and
counts in that order (`Dump`, `Hash`, `Pack`, `Count`), all next to running writers; the drill
(`VerifyBackup`) and the restore compare the same things (`Agrees`). Two timing assumptions
stand in `Tick`: a request that copies a version does not last the 24 h of
`ORPHAN_RETENTION_MS`, and the comparison at the end of a restore comes right after unpacking.
Nothing is assumed of how long an upload takes.

### How `AssistantConversations` corresponds to the code

`calls` are the questions sent to `POST /api/rag/chat` with their place in `answerQuestion`:
every query and every call to WeKnora is one step, and the person's rights (`readable`) may
change between any two. `conversations` holds `weknora_session_id`; a session's `history` is
what the model remembers of it. `barred` notes, for the properties only, the cited versions
that were unreadable when a question read its context. `page` is `assistant-chat.tsx`; `mixed`
marks a page on which a question was asked while another conversation was still being opened,
which `ask` does not prevent. Other tabs only ask.

### How `Accounts` corresponds to the code

Roles, invitations and profiles change in one SQL function each. The acceptance is taken
apart: `acceptInvitation` calls `auth.query` on a *pool*, so each statement takes whatever
connection is idle (`Take`: the one that became idle last, as `pg-pool` does), or opens one.
`pool` says for each connection whether a transaction is open there and what it has written;
row locks, foreign keys and `COMMIT` or `ROLLBACK` without a transaction are modelled by what
PostgreSQL does. Other requests take connections (`OtherTakes`) while an acceptance is in
progress; before that they make no difference. `disturbed` says that they, a restart or a
closed connection came in between. A dialog keeps the revision it was drawn with, and what it
saves late is refused by it. Left out: what a knowledge admin may not do, mail and links.

### How `Taxonomy` and `Labels` correspond to the code

Every change of the tree holds one exclusive advisory lock, so each function is one step and
what is checked is what sequences of them do. An upload checks leaf and floor twice
(`TakesDraft` in `Reserve` and `StoreDraft`), with anything in between. `Branch` is the walk up
the tree, to one level more than allowed, so that a fourth level or a cycle would be seen.
A label is known by its name, and `Carry` stores a version with any words.

### How `Architecture` and `ArchitectureIndex` correspond to the code

A proposal is made in two steps, because the diff is read in a transaction of its own, and
decided by another administrator, maybe after other imports; `Approve` computes the
difference again, as `ta_decide_import` does. `changes` is the latest update in
`ta_element_changes`. The index pass works on a snapshot (`pass`): it writes a card to WeKnora
(`WriteCard`), records its hash (`RecordCard`), has all it has written parsed when its loop is
over (`ParseWritten`, the call of `reparseKnowledge`), and ends (`EndPass`); it may fail or die
between any two (`PassFails`). `parsed` are the elements a search can find: a write takes an
element out of it, and only the parse puts it back. `torn` marks a knowledge that was rewritten
and not recorded, `cut` a card that was recorded by a pass that ended before the parse; both
are history.

### How `Digests` corresponds to the code

`Claim` is `claim_email_digest`, which hands out everything unsent of one person and marks
nothing; `Send` is the relay taking the mail, whatever it answers; `SettleSent` and
`SettleFailed` are `settle_email_digest`. Two workers may hold the same notices. Ages replace
times: younger than two minutes, older, and older than seven days. Left out: which events
notify whom, and the bell in the page.

## 3. Runs

| Run | Instance | What it shows |
|---|---|---|
| `review_rules` | owner, two reviewers, all of them losing and regaining access; rules 1↔2; 2 versions; 1 worker; 1 attempt | What is published was approved and the approval still stood at the swap; readers lose a valid version only to expiry, withdrawal or its successor; leftover jobs can publish nothing. |
| `rollback_order` | 3 versions, 1 reviewer, 1 worker, 1 attempt | A rollback can leave two live jobs; whichever ends first, the pointer only moves forward, and the whole system implements `DocumentLifecycle`. |
| `two_workers` | 2 workers, 2 versions, 2 attempts, fairness | A lease in force keeps every other worker away from the job, through take-overs, late reports and retries; every queued publication ends done, cancelled or dead. |
| `retention` | 2 versions, 1 worker, fairness | An archive leaves nothing published, queued or pending, whatever came between choice and write; an expired document that nobody has touched since is archived. |
| `export_overtaken` | 1 version, 2 exporters, 3 attempts, late creations | No job is closed and no entry written by an exporter that was overtaken; the lookup by title finds what a lost attempt left, so a version has one record unless one was created for a caller that was gone. |
| `export_settles` | 2 versions, 1 exporter, 2 attempts, a late creation, two records per listing, fairness | What counts as indexed is in WeKnora and searchable; a live version is indexed or its export dead; a version that was superseded, expired or was withdrawn leaves WeKnora for good unless its removal is dead, as long as indexed versions do not fill the listing. |
| `uploads` | 1 form, 2 new contents and 1 revision, 3 requests, 4 ticks | One content becomes one version through retries, take-overs, conflicts and lost answers; the form shows what it holds; the limits hold. |
| `storage` | 1 registered, 1 uploaded, 1 copied version, 2 files each, 3 ticks | Nothing the database knows loses a file to the cleanup; a backup made while all go on restores, and one that passed the drill is not refused. |
| `assistant` | 3 questions from 2 tabs, 1 version | A session's memory is one conversation's, holds nothing that was known to be revoked, and is remembered only while it lives; the page shows the conversation it continues. |
| `administration` | six components next to each other, two of most things | The properties of `Accounts`, `Taxonomy`, `Labels`, `Architecture`, `ArchitectureIndex` and `Digests`. |

Two more are expected to be violated, each by something the code does against its own words;
*Findings* explains them.

| Run | Instance | What is violated |
|---|---|---|
| `accounts_half` | 2 acceptances, 2 connections | Who was told that the account is ready can sign in. |
| `index_unparsed` | 1 element, 2 facts | What a broken-off pass left is tried again. |

*Bounds.* `MaxVersions` and `MaxAttempts` are guards; `ReviewPublication` has no other bound.
Two versions are the least in which an approval can be overtaken, three the least in which a
rollback leaves two approved versions with live jobs below a newer one. With one attempt a
failure is final at once, which is what the properties of the swap need; the run about leases
uses two, so that a job is taken over and the last attempt, too, can lapse (a retry by the owner
makes more claims of it). The rule is one or two approvals because those are the only values
`save_category` allows. Two reviewers make a second stage, and a loss of access between the
stages, possible. The two reviewers are interchangeable: symmetry is used in `review_rules`,
which checks no liveness property. Deadlock is checked everywhere but in `administration`
and `accounts_half`: a document always has a step left, if only of the clock or
of a worker that finds nothing to claim. In `Accounts` nobody is obliged to do anything, and
when the one invitation is used up and the one role archived the instance stops.

In `RagExport` a creation uses up an attempt, so `MaxAttempts` identifiers per version are
all that WeKnora can give out. Two attempts are the least in which a second attempt finds
what a first left behind; with three, an exporter that took a job over is overtaken itself.
Records of different versions meet only in a listing of the sweep, which shows
`ListLimit` of them, whichever WeKnora lists first; so one version is enough for the run about
who overtakes whom. `OverLeavesTheIndex` is about the listing and promises something only if in
the end indexed versions leave room in it (`Crowded`): behind a full page of their records an
orphan is never seen. In `export_settles` there may be three records, two
of the superseded version and one of its indexed successor, and a listing shows two: a
sweep may find one orphan and miss the other, and the known record takes up room in every
page. To keep liveness within reach of TLC (`OldestEndsOnce`) the older version expires, is
withdrawn, or is superseded while it is live, but no two of these happen in one behaviour, and
it alone has a creation that comes late. `RagExport` itself has no such restriction.

In `uploads` a lease is one tick, an hour two, and the limits (two attempts an hour, two of a
content, one unpublished document) are all reached within three requests and four ticks.
Three requests are the least in which a retry takes over a lapsed attempt and something else is
sent as well. In `storage` an upload's lease is one tick and the retention two: the cleanup
meets running, lapsed and failed writers, and two files per version let it stop halfway. In
`assistant` three questions let two run beside each other in a conversation that a third
began. In `administration` four categories can make four levels, were they allowed, and four
labels a chain of three; one invitation, two acceptances and two connections let statements go
astray; two proposals of one category overtake each other; one card per pass makes a pass end
with work left; two workers hold the same two notices. `MaxRevision`, `MaxLost`, `MaxCalls` and
`MaxTime` are guards that only bound the instance. The six components of `administration`
start from the same state and share the values of their sets, so that one small symmetry
serves all of them; the run checks no liveness property.

*Fairness.* `Fairness` in `ReviewPublication`: the worker's timer fires every 2 s
(`apps/worker/src/index.ts`), so a worker that holds a claim finishes it or dies
(`WF(FinishStep)`); the claim query serves the queue oldest first (`ORDER BY
available_at`), so a job that is claimable again and again is claimed (`SF`, because
workers are busy in between); leases and backoffs are dates (`WF`). Nobody is obliged to
decide, revise, retry or behave well, and `Fail` and `Crash` may be chosen every time. In
`Retention`, the pass runs hourly and finishes what it chose; a chosen write inside a
transaction that keeps failing is not modelled.

`RagFairness`: ticks come round again and again, claims take the oldest job first so that
none starves (`SF` per version), leases are dates, an exporter in the middle of something
goes on, fails or dies (`WF`), and what WeKnora still has to carry out is carried out. Exports
may fail every time and are then dead. Only the sweep, which has no attempts to use up, is
assumed to get through now and then (`SF`): if it never did, nothing could be promised.

## 4. Proofs

For every set of people and workers and every positive number of versions and attempts
(assumptions `PeopleAssumption`, `WorkersAssumption`, `BoundsAssumption`) TLAPS proves
that `ReviewPublication!Spec` implies

* `TypeCorrect`: `[]TypeOK`;
* `EverPublishedHolds`, `PointerAgreesHolds`, `OpenJobIsWantedHolds`: the three safety
  invariants of the runs;
* `PointerMovesForwardHolds`, `PublishedUnderRulesInForceHolds`,
  `OldVersionStaysUntilSwapHolds`, `LeaseFencesHolds`: the four action properties;
* `ImplementsLifecycleHolds`: the refinement of `DocumentLifecycle`;

and that `Retention!RetentionSpec` implies `RetentionTypeCorrect`, `ArchiveIsCompleteHolds`
and `RetentionKeepsPointer`.

The safety invariants are not inductive, not even together. A revision cancels the request
of the version it replaces unless that is the current one; that this never strikes a
version that was published needs: *what was published is not newer than the pointer*. And
that the job of an overtaken approval is refused needs: *`review_state` and request agree,
except that requests may have been cancelled*. `IInv` adds these (`RequestAgrees`,
`PublishedUpToCurrent`, `InsertedUpToLatest`, `ReviewersAreFit`); `InitSafe` and `NextSafe`
show that it is inductive, with one lemma per action that writes what it speaks of and
`JobStepSafe` for those that only move the job. `PublishMovesForward` is the heart of the
pointer's argument: an approval that is not overtaken and unpublished is newer than
anything published. `ReviewersCounted` turns "as many steps as the rule asks for" into "as
many different people".

`ReadersKeep` shows that every step but a swap, a withdrawal and the
clock writes only drafts, versions in review and unpublished versions. For the refinement,
`CommitRevisionMaps` needs that the version a revision calls off is not the live one, which
is again the invariant. The invariant of `Retention` (`RInv`) adds to `IInv` that no review is
pending on a withdrawn document (`PendingIsLive`) and reuses `NextSafe` for every step but the archive,
whose write keeps `IInv` although nothing is checked before it (`WithdrawEffectSafe`).

For any number of versions, attempts and exporters (assumptions `ExportersAssumption`,
`LimitsAssumption`) `RagExport!RagSpec` implies `RagTypeCorrect` and
`QueueTellsTheTruthHolds`. The latter needs that the operation of a job fits the document
(a removal is queued only for what is over, and what is over never comes back:
`JobsFollowTheDocument`) and that an exporter which holds the lease works on the operation
of the job (`ClaimsMatchJobs`): whoever is overtaken does not hold the lease and changes
nothing.

`OneRecordHolds` has no further hypothesis either, neither on the number of exporters nor on
late answers: a version of which no record was created late or by an exporter that no longer
owned the job has one record at most. The argument is that an exporter which is about to create
and still owns the job looked the title up and found nothing, and that nothing has been created
since (`LookupStands`). A job changes hands only by a claim, so nobody else owns it
(`OwnershipIsClaimed`); whoever claims it looks up before it writes (`NothingFound`); and a
creation by anybody else, or a late one, puts the version among those that are `astray`
(`RecordsAdded`). Without that exception the claim is false (see *Findings*).

For one exporter more is true. `IndexedIsSearchableHolds` needs that the job it works on
stays its own (`WorkIsOwn`), hence that the version it writes has no entry yet
(`ExportedHasNoEntry`), and that its sweep dooms no version with an entry
(`SweepSparesEntries`). It has the number of exporters as a hypothesis, and late answers are
allowed; with two exporters it is false, because the sweep of one deletes what the other has
just indexed (see *Findings*).

For any vocabulary (`LabelsAssumption`) `Labels!LabelsSpec` implies `LabelsMergeOnce`. The
invariant adds that a word outside the vocabulary is merged into nothing
(`StrangersAreUnmerged`), or a new label would inherit a merge; a removal keeps it only
because the foreign key refuses to remove what receives merges.

`Architecture!ArchitectureSpec` implies `HistoryExplains` with no more than type correctness,
because the difference is computed again. `ArchitectureIndex!IndexSpec` implies
`SettledIndexIsCurrent` (`IndexAssumption`, `NoCardAssumption`). Its invariant says that the
pass's copy of the entries is the table, as nobody else writes it, that a snapshot that was not
overtaken is the model (`SnapshotIsFresh`), that what WeKnora says differs from what is recorded
only where a pass died in between (`RecordedOrTorn`), and that what is recorded and intact is
parsed, or was recorded by the pass at work and is still in its batch, or was cut off by the end
of an earlier one (`ParsedOrCut`, `NothingToWrite`). The theorem promises nothing of what was
torn or cut off: that a later pass would repair it is false, which is the finding
`index_unparsed`.

For any forms, contents, calls and limits (`UploadsAssumption`) `Uploads!UploadSpec` implies
`UploadsTypeCorrect`, `SavedOnceHolds`, `ShownIsSavedHolds` and `LimitsHoldAlways`. `SavedInv`
says that the call which claimed a row has the content of the row for ever, also after it lost
the row to a take-over (`ClaimsHaveRows`), that a content has one row (`ContentsHaveOneRow`) and
a row at most one version (`VersionsAreSingle`): two versions of one content would come from
one row. The limits are looked at only when an attempt starts. They hold because at most one
lease is live and while it is there is room for its document (`OneLease`, `DraftsFit`), and
because the attempts of the last hour can be numbered such that those of one row differ and
none exceeds what its row has counted (`AttemptsAreCounted`); the count may be reset after an
hour, and then only older attempts lose their number.

For any versions, files, lease and retention (`StorageAssumption`)
`StorageMaintenance!StorageSpec` implies `StorageTypeCorrect`, `RegisteredIsStoredHolds` and
`BackupsRestoreHolds`. The invariant says of the cleanup that whatever it plans to remove can
never be registered any more (`PlanIsSound`): its writer has failed or lost its lease, and a
copy at work is younger than anything that is old enough to be planned, which is where the first
timing assumption of `Tick` is used. Nothing else is needed of the order in which it reads,
inspects and unlinks. A backup is whole because it is packed after the dump and what is dumped
stays registered (`BackupIsSound`); a restore leaves in the database what was dumped, and what
it compares is what the drill compared (`RestoreIsSound`); the second timing assumption keeps
the cleanup from what was just unpacked.

For any number of questions (`AssistantAssumption`) `AssistantConversations!AssistantSpec` implies
`AssistantTypeCorrect`, `HistoriesStayApart`, `RememberedSessionsLive`, `RevokedStaysForgotten` and
`PageShowsOneConversation`. A session is named after the question that made it. Until that
question's turn is stored nobody else knows the session; from then on only questions of its
conversation do (`CallIsSound`, `HistoriesAreSound`), and a session is given up for good before it
is deleted. `StepOf` says once what any step of a question may do to the server, and
`StepKeepsServer` and `StepKeepsPage` show that this keeps the invariant; each action is then shown
to be such a step.

For any finite set of categories and any floors (`TaxonomyAssumption`) `Taxonomy!TaxonomySpec`
implies `TreeStaysWholeHolds` and `DocumentsKeepTheirReadersHolds`. The invariant is that three
steps up from anywhere lead out of the tree (`Forest`) and that documents, stored or on the way,
hang on leaves that exist. A category is moved only with what hangs below it still within three
levels and free of documents, so a category with documents keeps its whole path
(`BranchWithDocuments`), and a floor on it only rises. The strictest floor is a `CHOOSE` of a
maximum; `FloorNeverSinks` compares two of them. The assumption says, besides what the code
fixes, that a row is something else than NULL; `Digests` and `Accounts` assume the same of
theirs.

`Accounts!AccountsSpec` implies `RolesAreWholeHolds` and `WholeWhenAloneHolds` for any number of
roles, people, invitations, acceptances and connections (`AccountsAssumption`). The pool hands out
last what was given back last. While nothing is disturbed there is at most one acceptance at
work and its own connection is the next one (`Alone`, `Turn`), so all its statements meet
their transaction. Disturbed or not, a credential has its user (`accounts \subseteq users`, the
foreign key): rows are taken back only by a call that has failed, and these rows are written
by no other connection (`ConnectionsAreSound`). That an acceptance *next to others* can sign in is
false; that is the finding `accounts_half`.

`Digests!DigestsSpec` implies `MailsAreAccountedForHolds` for any number of workers, notices and
attempts (`DigestsAssumption`). While a notice is unsent, the mails already sent and those that
workers are about to send are at most its attempts, the digests that were lost and the workers
that hold it (`NoticeIsSound`). The proof counts sets of workers before and after one of them
takes up or puts down its digest (`OneDigestChanges`); what a worker does with it is stated
once, as `WorkerStep`.

`MCAdministration!AdministrationSpec` implies `AdministrationTypeCorrect`: in the sum of the six
components each keeps its own invariant while it is the one that takes steps.

The invariants that carry these proofs were run through TLC before they were proved, and two
definitions were rephrased so that they could be reasoned about: the recent attempts of an owner
are counted as pairs of a row and a number, and the connection that `CloseIdle` closes is named
by its place in the list of idle ones.

Every invariant and every safety step property of the passing runs is now stated by a theorem. Only
model-checked, because liveness under fairness is beyond the prover: `JobsSettle`,
`UntouchedIsArchived`, `OverLeavesTheIndex` and `LiveIsIndexed`.

## 5. Findings

Two are runs that TLC shows violated; `PROJECT.json` quotes the lines.

* `accounts_half`: an acceptance sends `BEGIN`, two `INSERT`s and `COMMIT` through a pool, so
  two acceptances of one invitation can have their statements mixed on the connections. One
  person is then told that the account is ready while the rows of the account were rolled back
  by the other call, against "a half-made account never exists" (`invitations.ts`). The same
  can come from other requests that use the pool at that moment.
* `index_unparsed`: the cards of an index pass are recorded one by one and parsed together at
  its end (`ta-index.ts:60`). A failure between record and parse leaves cards whose hash
  matches and which no later pass has parsed, so no search finds them, although the worker
  logs that it will try again.

Met while modelling; each was seen in the model or follows from the code, and has no run:

*Publication and retention*

* The retention policy is held off by any newer version that is a draft or `in_review`, because
  "the owner is already doing the work" (`042_retention.sql:65`). A revision cancels the request
  of its base and leaves the base `in_review`; when the revision is then sent back nothing is
  under way that would change the base again, and the expired document is not archived, however
  long nobody touches it. TLC reaches this with three versions. (`UntouchedIsArchived` speaks of
  documents without such leftovers.)
* A replacement published between the choice and the write of the retention pass is withdrawn
  with the document, although readers could read it.
* Rollback refuses while a draft is open, "matching the revision rules"
  (`037_version_labels_follow_document.sql:54`), but revising a draft leaves two open.
* To the retention pass an approved newer version waiting for its index is no replacement
  (`042_retention.sql:67`): the document is archived and the publication cancelled.
* A reaffirmation between the choice and the write of the escalation is followed by a
  reminder for a review that is not due (`042_retention.sql:81`).

*Export*

* Since `013`, a claim no longer asks whether the version is eligible, although comment and
  `WEKNORA.md` say so: a version that was superseded, withdrawn or expired after the
  reconciliation is still written to WeKnora, until the sweep.

* "The SQL lease admits a single worker" (`rag.ts:839`), but the lease is looked at only when an
  export is reported. An exporter that outlives its lease creates a record next to the one of its
  successor; a creation that is carried out after its caller gave up does the same with one
  exporter. TLC finds both as soon as `OneRecordPerVersion` no longer excepts `astray` versions.
* The sweep deletes records "whose IntraDocs version no longer has an index row" (`rag.ts:803`),
  but reads the known versions before it lists and deletes. It deletes what another exporter
  records in between, and the version counts as indexed for ever: with two exporters
  `IndexedIsSearchable` does not hold.
* A listing of WeKnora stops at 1000 records (`weknora.ts:375`), although it is described as every
  record of the knowledge base. Orphans behind a thousand records of indexed versions are
  never swept; `OverLeavesTheIndex` without its condition is violated by two versions and one
  record per listing.

*Assistant*

* A session is left behind in WeKnora when a first turn fails, when its conversation is deleted
  meanwhile, or when remembering it fails; `WEKNORA.md:1159` describes only the normal end.
* A session may hold the text of a version that was revoked later without that being seen, if
  the turn that cited it was never stored: only stored citations are looked at
  (`db/src/assistant.ts:363`, against `033_ai_conversation_session.sql:9`).
* The answers of later turns may derive from a document hidden since
  (`ARCHITECTURE.md:82` speaks of the citations).
* `ask` does not look at `loadingConversation`: a question asked while another conversation
  is being opened is answered on a page that shows the other one (`page.mixed`).

*Accounts*

* An open invitation whose custom role has changed its base can never be accepted, although
  `039` lets archived roles fall back; nor can one that names a deleted category
  (`category_ids uuid[]` has no foreign key).
* A crash between `COMMIT` and `app.accept_invitation` leaves the sign-in rows: every later
  acceptance for that address fails with 23505.

*Taxonomy and labels*

* A move is refused while documents hang below (`006_taxonomy_assignments.sql:27`, because it
  changes who may read). Architecture elements are read by category as well and are not
  looked at: a move changes who reads them.
* Filtering by a label looks for the words a version carries (`db/src/discovery.ts:22`,
  `db/src/queries.ts:208`). Outside the tests nothing calls `app.label_names`, so filtering by
  the label that survived a merge does not find documents approved under the merged name
  (`025_label_merge_as_alias.sql:9`, `:47`).
* An upload request that failed keeps its category from being deleted.

*Architecture*

* The difference that an approver is shown is the one stored with the proposal; what is
  applied is computed again, and may differ.
* A crash between creating and recording a card leaves a duplicate in WeKnora. A crash between
  rewriting and recording, followed by an import that takes the change back, leaves an entry
  whose hash fits a knowledge that says something else (`torn`).
* A card that fails every time keeps those behind it from being written.

*Digests*

* A mail may be sent twice after a crash, a failed settlement, an error after the relay took
  it, or by two workers. Somebody who is notified every two minutes gets no mail, and after
  seven days the items are retired.

## 6. Not modelled, and the plan

* Access requests (`026`) and required reading (`028`): every operation is one guarded
  statement on one row; a property could only repeat the guard. What a granted request changes
  is `access` in `ReviewPublication` and `readable` in `AssistantConversations`.
* Search, discovery, insights and the hygiene report only read. Row-level security is a set of
  query predicates; its effect on the protocols is `access`.
* Conversion, the file parsers of the architecture import, the diff, the version labels, the
  chunking and the ranking are pure functions of text with unit tests of their own; the
  protocols depend only on whether they succeed.
* The rest of the portal keeps no state over several requests: a handler validates its input
  and calls one function of `packages/db`. Sign-in and sessions are a library.
* Scripts other than `storage:gc`, `weknora:sync` and the backups set up, seed or measure.
* Of modelled components: the S3 store (on which `storage:gc` refuses to run), the deletion of
  versions by an operator (`017`), streaming and feedback of the assistant, the events that
  notify somebody, the files of architecture imports.

The mapped code is a small part of the TypeScript because most of the state machines are SQL
functions and most of the TypeScript is pages, formatting, parsing and configuration.

Planned: proofs of what makes the liveness properties possible (that a queued job which
has attempts left is always due, leased or about to be), an abstract specification of the
uploads (a set of saved contents) and of the digests, with their refinements proved from the
invariants above, and models of more of the retrieval in `web/src/lib/rag.ts`.
