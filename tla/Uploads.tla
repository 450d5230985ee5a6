------------------------------ MODULE Uploads ------------------------------
(* One owner's uploads: the form in the browser, which keeps a request id   *)
(* over its retries, and the ingestion of a draft under a lease. What an    *)
(* ingestion stores is the business of StorageMaintenance. Requests of          *)
(* different owners share nothing but the maintenance of the storage.       *)
EXTENDS Integers, FiniteSets

CONSTANTS
  Forms,          \* browser tabs with the upload form open
  NewPayloads,    \* contents that make a new document
  Revisions,      \* contents that revise one document's latest version
  MaxCalls,       \* bound: requests sent
  MaxTime,        \* bound: ticks of the clock
  Lease, Hour,                       \* durations, in ticks
  PerHour, MaxAttempts, OwnedDrafts  \* UPLOAD_LIMITS

ASSUME UploadsAssumption ==
  /\ NewPayloads \cap Revisions = {}
  /\ {MaxCalls, Lease, Hour, PerHour, MaxAttempts, OwnedDrafts} \subseteq Nat \ {0}
  /\ MaxTime \in Nat

VARIABLES
  now,
  forms,        \* what each form would send, and what it waits for or shows
  calls,        \* the requests sent to POST /api/documents/drafts
  rows,         \* app.upload_requests of this owner, by request id
  versions,     \* the versions recorded by a complete ingestion
  published,    \* those of new documents that were published since
  maintenance   \* storage:gc holds its lock

uploadVars == <<now, forms, calls, rows, versions, published, maintenance>>

\* A call's number also stands for the version id and the lease token that it
\* reserves, and for the request id of a form that had none when it sent it.
Payloads == NewPayloads \cup Revisions
Calls    == 1 .. MaxCalls
None     == 0

FormStates == [payload : Payloads \cup {None}, request : {None} \cup Calls,
               waiting : {None} \cup Calls, shown : {None} \cup Calls]
CallStates == [place : {"unsent", "sent", "working", "done", "failed"},
               payload : Payloads \cup {None}, request : {None} \cup Calls,
               claim : {None} \cup Calls, start : 0 .. MaxTime, result : {None} \cup Calls]
RowStates  == [state : {"processing", "failed", "complete"}, payload : Payloads,
               version : Calls, until : 0 .. MaxTime + Lease,
               attempts : 1 .. MaxAttempts, updated : 0 .. MaxTime]
Blank  == [payload |-> None, request |-> None, waiting |-> None, shown |-> None]
Unsent == [place |-> "unsent", payload |-> None, request |-> None, claim |-> None,
           start |-> 0, result |-> None]
NoRow  == [state |-> "none"]

UploadTypeOK ==
  /\ now \in 0 .. MaxTime
  /\ forms \in [Forms -> FormStates]
  /\ calls \in [Calls -> CallStates]
  /\ rows \in [Calls -> RowStates \cup {NoRow}]
  /\ versions \subseteq Calls /\ published \subseteq versions
  /\ maintenance \in BOOLEAN

UploadInit ==
  /\ now = 0
  /\ forms = [f \in Forms |-> Blank]
  /\ calls = [c \in Calls |-> Unsent]
  /\ rows = [r \in Calls |-> NoRow]
  /\ versions = {} /\ published = {}
  /\ maintenance = FALSE

------------------------------------------------------------------------------
(* The form *)

\* Mutant: the fields stay open to changes while the form waits.
ChangedWaiting(f) ==
  /\ forms[f] # Blank
  /\ forms' = [forms EXCEPT ![f] = [@ EXCEPT !.payload = None, !.request = None, !.shown = None]]
  /\ UNCHANGED <<now, calls, rows, versions, published, maintenance>>

\* What would be sent changes, or the page is loaded again: the id is dropped.
Changed(f) ==
  /\ forms[f].waiting = None /\ forms[f] # Blank
  /\ forms' = [forms EXCEPT ![f] = Blank]
  /\ UNCHANGED <<now, calls, rows, versions, published, maintenance>>

NextCall(c) == calls[c].place = "unsent" /\ \A d \in 1 .. c - 1 : calls[d].place # "unsent"

RequestId(f, c) == IF forms[f].request = None THEN c ELSE forms[f].request

Save(f, c, p) ==
  /\ forms[f].waiting = None /\ forms[f].shown = None
  /\ forms[f].payload \in {None, p}
  /\ NextCall(c)
  /\ calls' = [calls EXCEPT ![c] = [Unsent EXCEPT !.place = "sent", !.payload = p,
                                                  !.request = RequestId(f, c)]]
  /\ forms' = [forms EXCEPT ![f] = [Blank EXCEPT !.payload = p, !.waiting = c,
                                                 !.request = RequestId(f, c)]]
  /\ UNCHANGED <<now, rows, versions, published, maintenance>>

Answer(f) ==
  /\ forms[f].waiting # None
  /\ calls[forms[f].waiting].place \in {"done", "failed"}
  /\ forms' = [forms EXCEPT ![f].waiting = None, ![f].shown = calls[forms[f].waiting].result]
  /\ UNCHANGED <<now, calls, rows, versions, published, maintenance>>

\* The user cancels, 290 seconds are over or the connection breaks. The request
\* may be on its way, at work or done, and goes on.
StopWaiting(f) ==
  /\ forms[f].waiting # None
  /\ forms' = [forms EXCEPT ![f].waiting = None]
  /\ UNCHANGED <<now, calls, rows, versions, published, maintenance>>

------------------------------------------------------------------------------
(* reserve: one transaction, alone under the owner's lock                   *)

\* Mutant: only by request id.
MatchingById(c) == IF rows[calls[c].request] # NoRow THEN {calls[c].request} ELSE {}

\* The row of this request id, else the row of this content: at most one, for
\* both are unique in the table.
Matching(c) ==
  IF rows[calls[c].request] # NoRow THEN {calls[c].request}
  ELSE {r \in Calls : rows[r] # NoRow /\ rows[r].payload = calls[c].payload}

IdempotencyConflict(c) ==
  LET row == rows[calls[c].request] IN row # NoRow /\ row.payload # calls[c].payload

Reusable(c) == {r \in Matching(c) : rows[r].state = "complete"}

RevisionConflict(c) ==
  calls[c].payload \in Revisions /\ \E v \in versions : calls[v].payload \in Revisions

Busy == \E r \in Calls : rows[r].state = "processing" /\ rows[r].until > now

\* The sum of the attempts of the rows of the last hour, each attempt counted by itself.
RecentAttempts == Cardinality({attempt \in Calls \X (1 .. MaxAttempts) :
  LET row == rows[attempt[1]]
  IN  row # NoRow /\ row.updated > now - Hour /\ attempt[2] <= row.attempts})

NewDocuments == {v \in versions \ published : calls[v].payload \in NewPayloads}

\* Attempts are counted anew after an hour without any. An attempt too many is
\* refused by the code, at exactly one hour by the CHECK of the table.
NextAttempt(r) == IF rows[r] = NoRow \/ rows[r].updated < now - Hour THEN 1
                  ELSE rows[r].attempts + 1

\* Mutant: without the limit of attempts.
RefusedRetryable(c) ==
  \/ maintenance
  \/ IdempotencyConflict(c)
  \/ /\ Reusable(c) = {}
     /\ \/ RevisionConflict(c) \/ Busy
        \/ RecentAttempts >= PerHour \/ Cardinality(NewDocuments) >= OwnedDrafts

Refused(c) ==
  \/ maintenance
  \/ IdempotencyConflict(c)
  \/ /\ Reusable(c) = {}
     /\ \/ RevisionConflict(c)
        \/ Busy
        \/ RecentAttempts >= PerHour
        \/ Cardinality(NewDocuments) >= OwnedDrafts
        \/ \E r \in Matching(c) : NextAttempt(r) > MaxAttempts

Reserve(c) ==
  /\ calls[c].place = "sent"
  /\ ~Refused(c) /\ Reusable(c) = {}
  /\ \E r \in IF Matching(c) = {} THEN {calls[c].request} ELSE Matching(c) :
       /\ rows' = [rows EXCEPT ![r] =
            [state |-> "processing", payload |-> calls[c].payload, version |-> c,
             until |-> now + Lease, attempts |-> NextAttempt(r), updated |-> now]]
       /\ calls' = [calls EXCEPT ![c].place = "working", ![c].claim = r, ![c].start = now]
  /\ UNCHANGED <<now, forms, versions, published, maintenance>>

ReserveReuses(c) ==
  /\ calls[c].place = "sent"
  /\ ~Refused(c)
  /\ \E r \in Reusable(c) :
       calls' = [calls EXCEPT ![c].place = "done", ![c].result = rows[r].version]
  /\ UNCHANGED <<now, forms, rows, versions, published, maintenance>>

\* Refused, or the owner may not upload to the category, or the caller is gone:
\* rights and classification rules change at any time.
ReserveRefuses(c) ==
  /\ calls[c].place = "sent"
  /\ calls' = [calls EXCEPT ![c].place = "failed"]
  /\ UNCHANGED <<now, forms, rows, versions, published, maintenance>>

------------------------------------------------------------------------------
(* ingestDraft after its reservation: scan, convert, store, complete.       *)

\* Mutant: the row is still the caller's, lapsed or not.
HoldsRow(c) ==
  LET row == rows[calls[c].claim] IN row.state = "processing" /\ row.version = c

HoldsLease(c) ==
  LET row == rows[calls[c].claim]
  IN  row.state = "processing" /\ row.version = c /\ row.until > now

\* A row keeps its document id over its attempts, and documents.id is unique.
DocumentTaken(c) ==
  calls[c].payload \in NewPayloads /\ \E v \in versions : calls[v].claim = calls[c].claim

\* The transaction commits, but its answer may be lost: ingestDraft then calls
\* fail, which finds no processing row, and answers with an error.
Complete(c) ==
  /\ calls[c].place = "working"
  /\ ~maintenance /\ HoldsLease(c) /\ ~RevisionConflict(c) /\ ~DocumentTaken(c)
  /\ versions' = versions \cup {c}
  /\ rows' = [rows EXCEPT ![calls[c].claim] = [@ EXCEPT !.state = "complete", !.updated = now]]
  /\ \/ calls' = [calls EXCEPT ![c] = [@ EXCEPT !.place = "done", !.result = c]]
     \/ calls' = [calls EXCEPT ![c].place = "failed"]
  /\ UNCHANGED <<now, forms, published, maintenance>>

\* The scanner, the converter, the store or complete refuses, or the caller is
\* gone. Only the attempt that still holds the row marks it.
Fail(c) ==
  /\ calls[c].place = "working"
  /\ calls' = [calls EXCEPT ![c].place = "failed"]
  /\ LET r == calls[c].claim
     IN  rows' = IF rows[r].version = c /\ rows[r].state = "processing"
                 THEN [rows EXCEPT ![r] = [@ EXCEPT !.state = "failed", !.updated = now]]
                 ELSE rows
  /\ UNCHANGED <<now, forms, versions, published, maintenance>>

\* The process dies, or fail itself fails: the row stays processing.
Die(c) ==
  /\ calls[c].place = "working"
  /\ calls' = [calls EXCEPT ![c].place = "failed"]
  /\ UNCHANGED <<now, forms, rows, versions, published, maintenance>>

------------------------------------------------------------------------------

Maintain == maintenance' = ~maintenance /\ UNCHANGED <<now, forms, calls, rows, versions, published>>

\* The workflow publishes a document: it no longer counts as a draft.
Publish(v) ==
  /\ v \in NewDocuments
  /\ published' = published \cup {v}
  /\ UNCHANGED <<now, forms, calls, rows, versions, maintenance>>

Tick == now < MaxTime /\ now' = now + 1 /\ UNCHANGED <<forms, calls, rows, versions, published, maintenance>>

FormStep(f) == \/ \E c \in Calls, p \in Payloads : Save(f, c, p)
               \/ Changed(f) \/ Answer(f) \/ StopWaiting(f)

CallStep(c) == \/ Reserve(c) \/ ReserveReuses(c) \/ ReserveRefuses(c)
               \/ Complete(c) \/ Fail(c) \/ Die(c)

UploadNext == \/ \E f \in Forms : FormStep(f)
              \/ \E c \in Calls : CallStep(c)
              \/ (\E v \in Calls : Publish(v)) \/ Maintain \/ Tick

UploadSpec == UploadInit /\ [][UploadNext]_uploadVars

------------------------------------------------------------------------------

\* One content becomes at most one version, however often it is retried, taken
\* over after its lease, sent from two tabs, or its answer lost (uploads.ts:104-113).
SavedOnce == \A v, w \in versions : calls[v].payload = calls[w].payload => v = w

\* What a form shows as saved is a version of exactly what the form holds, though
\* another request may have saved it (upload-form.tsx:219-223).
ShownIsSaved ==
  \A f \in Forms : forms[f].shown # None =>
    forms[f].shown \in versions /\ calls[forms[f].shown].payload = forms[f].payload

\* An owner stays within every limit, although each is looked at only when an upload
\* starts: PerHour ingestions an hour, MaxAttempts of them of one content, and OwnedDrafts
\* unpublished documents (uploads.ts:141-175).
LimitsHold ==
  LET recent == {c \in Calls : calls[c].claim # None /\ calls[c].start > now - Hour}
  IN  /\ Cardinality(recent) <= PerHour
      /\ \A p \in Payloads : Cardinality({c \in recent : calls[c].payload = p}) <= MaxAttempts
      /\ Cardinality(NewDocuments) <= OwnedDrafts
==============================================================================
