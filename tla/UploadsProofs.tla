---------------------------- MODULE UploadsProofs ----------------------------
(* Why retries, take-overs and lost answers save a content once, and why the  *)
(* limits hold although they are looked at only when an upload starts. What   *)
(* carries the proof: a content has one row, a row is never given another     *)
(* content, and of the attempts of one owner at most one holds a live lease.  *)
EXTENDS Uploads, FiniteSetTheorems, TLAPS

HasRow(r) == rows[r] # NoRow
IsLive(r) == rows[r].state = "processing" /\ rows[r].until > now
Recent    == {c \in Calls : calls[c].claim # None /\ calls[c].start > now - Hour}

\* A call has what its place says.
CallsFollowPlaces == \A c \in Calls :
  /\ calls[c].place = "unsent" => calls[c] = Unsent
  /\ calls[c].place # "unsent" => calls[c].payload \in Payloads /\ calls[c].request \in Calls
  /\ calls[c].place = "sent" => calls[c].claim = None /\ calls[c].result = None
  /\ calls[c].place = "working" => calls[c].claim # None

\* A form waits for a call with its own content, and shows one that was saved.
FormsFollowCalls == \A f \in Forms :
  forms[f].waiting # None =>
    /\ calls[forms[f].waiting].place # "unsent"
    /\ calls[forms[f].waiting].payload = forms[f].payload

\* The row that a call has claimed has the call's content, whoever holds it now.
ClaimsHaveRows == \A c \in Calls : calls[c].claim # None =>
  /\ HasRow(calls[c].claim)
  /\ rows[calls[c].claim].payload = calls[c].payload
  /\ calls[c].start <= rows[calls[c].claim].updated

\* A row names the last call that claimed it; once complete, that call's version.
RowsAreClaimed == \A r \in Calls : HasRow(r) =>
  /\ calls[rows[r].version].claim = r
  /\ rows[r].state = "complete" => rows[r].version \in versions
  /\ rows[r].updated <= now

\* The unique index on owner and content.
ContentsHaveOneRow == \A r, q \in Calls :
  HasRow(r) /\ HasRow(q) /\ rows[r].payload = rows[q].payload => r = q

\* One revision in all, one document for each row.
VersionsAreSingle ==
  /\ \A v \in versions : calls[v].claim # None
  /\ \A v, w \in versions :
       calls[v].payload \in Revisions /\ calls[w].payload \in Revisions => v = w
  /\ \A v, w \in versions :
       calls[v].payload \in NewPayloads /\ calls[v].claim = calls[w].claim => v = w

\* What a call answers is a version of its content.
ResultsAreSaved == \A c \in Calls : calls[c].result # None =>
  calls[c].result \in versions /\ calls[calls[c].result].payload = calls[c].payload

\* At most one lease is live, and while it is there is room for the document it makes.
OneLease == \A r, q \in Calls : IsLive(r) /\ IsLive(q) => r = q
DraftsFit ==
  /\ Cardinality(NewDocuments) <= OwnedDrafts
  /\ Busy => Cardinality(NewDocuments) < OwnedDrafts

\* The attempts of the last hour can be numbered so that those of one row differ and
\* none exceeds what the row has counted.
Numbers(num) == \A c \in Recent :
  /\ num[c] <= rows[calls[c].claim].attempts
  /\ \A d \in Recent : calls[c].claim = calls[d].claim /\ num[c] = num[d] => c = d
AttemptsAreCounted == \E num \in [Calls -> 1 .. MaxAttempts] : Numbers(num)
AttemptsFit == Cardinality(Recent) <= PerHour

SavedInv == /\ UploadTypeOK /\ CallsFollowPlaces /\ FormsFollowCalls /\ ClaimsHaveRows
            /\ RowsAreClaimed /\ ContentsHaveOneRow /\ VersionsAreSingle /\ ResultsAreSaved
            /\ ShownIsSaved
LimitsInv == OneLease /\ DraftsFit /\ AttemptsAreCounted /\ AttemptsFit
------------------------------------------------------------------------------
(* The first state. *)

\* Nothing was sent yet.
LEMMA UploadsInitially == UploadInit => SavedInv
<1> SUFFICES ASSUME UploadInit PROVE SavedInv OBVIOUS
<1> USE UploadsAssumption DEF UploadInit, None, Calls
<1>1. forms \in [Forms -> FormStates] BY DEF FormStates, Blank
<1>2. Unsent \in CallStates BY DEF CallStates, Unsent
<1>3. calls \in [Calls -> CallStates] BY <1>2
<1>4. rows \in [Calls -> RowStates \cup {NoRow}] OBVIOUS
<1>5. UploadTypeOK
  <2>1. now \in 0 .. MaxTime /\ versions \subseteq Calls /\ published \subseteq versions OBVIOUS
  <2>2. maintenance \in BOOLEAN OBVIOUS
  <2> QED BY <1>1, <1>3, <1>4, <2>1, <2>2 DEF UploadTypeOK
<1>6. CallsFollowPlaces /\ FormsFollowCalls /\ ResultsAreSaved /\ ShownIsSaved
  BY DEF CallsFollowPlaces, FormsFollowCalls, ResultsAreSaved, ShownIsSaved, Blank, Unsent
<1>7. ClaimsHaveRows /\ RowsAreClaimed /\ ContentsHaveOneRow /\ VersionsAreSingle
  BY DEF ClaimsHaveRows, RowsAreClaimed, ContentsHaveOneRow, VersionsAreSingle, HasRow, Unsent
<1> QED BY <1>5, <1>6, <1>7 DEF SavedInv

------------------------------------------------------------------------------
(* What the fields of calls and rows are. *)

\* The fields of a call.
LEMMA CallFields ==
  ASSUME UploadTypeOK, NEW c \in Calls
  PROVE  /\ calls[c] \in CallStates /\ c # None
         /\ calls[c].place \in {"unsent", "sent", "working", "done", "failed"}
         /\ calls[c].request \in {None} \cup Calls /\ calls[c].claim \in {None} \cup Calls
         /\ calls[c].result \in {None} \cup Calls /\ calls[c].start \in 0 .. MaxTime
BY UploadsAssumption DEF UploadTypeOK, CallStates, Calls, None

\* The fields of a row that is there.
LEMMA RowFields ==
  ASSUME UploadTypeOK, NEW r \in Calls
  PROVE  /\ HasRow(r) <=> rows[r] \in RowStates
         /\ HasRow(r) => /\ rows[r].state \in {"processing", "failed", "complete"}
                         /\ rows[r].version \in Calls /\ rows[r].payload \in Payloads
                         /\ rows[r].attempts \in 1 .. MaxAttempts
                         /\ rows[r].updated \in 0 .. MaxTime
                         /\ rows[r].until \in 0 .. MaxTime + Lease
         /\ ~HasRow(r) => rows[r].state = "none"
BY DEF UploadTypeOK, RowStates, NoRow, HasRow

\* Nobody has claimed what was not reserved yet.
LEMMA NotReserved ==
  ASSUME SavedInv, NEW c \in Calls, calls[c].place \in {"unsent", "sent"}
  PROVE  calls[c].claim = None /\ calls[c].result = None /\ c \notin versions
BY DEF SavedInv, CallsFollowPlaces, VersionsAreSingle, Unsent

------------------------------------------------------------------------------
(* The form. *)

\* The steps of a form that send nothing leave everything else as it is.
LEMMA FormKeeps ==
  ASSUME SavedInv, NEW f \in Forms, NEW form \in FormStates,
         forms' = [forms EXCEPT ![f] = form],
         UNCHANGED <<now, calls, rows, versions, published, maintenance>>,
         form.waiting # None => form.waiting = forms[f].waiting /\ form.payload = forms[f].payload,
         form.shown # None => form.shown \in versions /\ calls[form.shown].payload = form.payload
  PROVE  SavedInv'
<1> USE DEF SavedInv
<1>1. UploadTypeOK' BY DEF UploadTypeOK
<1>2. FormsFollowCalls' /\ ShownIsSaved' BY DEF FormsFollowCalls, ShownIsSaved, UploadTypeOK
<1>3. CallsFollowPlaces' /\ ClaimsHaveRows' /\ RowsAreClaimed'
  BY DEF CallsFollowPlaces, ClaimsHaveRows, RowsAreClaimed, HasRow
<1>4. ContentsHaveOneRow' /\ VersionsAreSingle' /\ ResultsAreSaved'
  BY DEF ContentsHaveOneRow, VersionsAreSingle, ResultsAreSaved, HasRow
<1> QED BY <1>1, <1>2, <1>3, <1>4

\* A form that is emptied shows nothing and waits for nothing.
LEMMA ChangedSaves == ASSUME SavedInv, NEW f \in Forms, Changed(f) PROVE SavedInv'
<1>1. Blank \in FormStates /\ Blank.waiting = None /\ Blank.shown = None
  BY DEF Blank, FormStates
<1> QED BY <1>1, FormKeeps DEF Changed

\* The answer that arrives is the answer to what the form still holds.
LEMMA AnswerSaves == ASSUME SavedInv, NEW f \in Forms, Answer(f) PROVE SavedInv'
<1> DEFINE c == forms[f].waiting
           form == [forms[f] EXCEPT !.waiting = None, !.shown = calls[c].result]
<1>1. forms[f] \in FormStates /\ c \in Calls
  BY DEF SavedInv, UploadTypeOK, FormStates, Answer
<1>2. calls[c].result \in {None} \cup Calls BY <1>1, CallFields DEF SavedInv
<1>3. form \in FormStates BY <1>1, <1>2 DEF FormStates
<1>4. form.waiting = None /\ form.shown = calls[c].result /\ form.payload = forms[f].payload
  BY <1>1 DEF FormStates
<1>5. calls[c].payload = forms[f].payload BY <1>1 DEF SavedInv, FormsFollowCalls, Answer
<1>6. form.shown # None => form.shown \in versions /\ calls[form.shown].payload = form.payload
  BY <1>1, <1>4, <1>5 DEF SavedInv, ResultsAreSaved
<1>7. forms' = [forms EXCEPT ![f] = form] BY DEF Answer, SavedInv, UploadTypeOK
<1> QED BY <1>3, <1>4, <1>6, <1>7, FormKeeps DEF Answer

\* Whoever stops waiting is not told anything.
LEMMA StopWaitingSaves == ASSUME SavedInv, NEW f \in Forms, StopWaiting(f) PROVE SavedInv'
<1> DEFINE form == [forms[f] EXCEPT !.waiting = None]
<1>1. forms[f] \in FormStates BY DEF SavedInv, UploadTypeOK
<1>2. form \in FormStates BY <1>1 DEF FormStates
<1>3. form.waiting = None /\ form.shown = forms[f].shown /\ form.payload = forms[f].payload
  BY <1>1 DEF FormStates
<1>4. forms' = [forms EXCEPT ![f] = form] BY DEF StopWaiting, SavedInv, UploadTypeOK
<1> QED BY <1>2, <1>3, <1>4, FormKeeps DEF StopWaiting, SavedInv, ShownIsSaved

\* A new call is one nobody knows: no row, no version and no other form names it.
LEMMA SaveSaves ==
  ASSUME SavedInv, NEW f \in Forms, NEW c \in Calls, NEW p \in Payloads, Save(f, c, p)
  PROVE  SavedInv'
<1> DEFINE q == RequestId(f, c)
<1> USE DEF SavedInv
<1>1. q \in Calls BY DEF RequestId, UploadTypeOK, FormStates
<1>2. calls[c] = Unsent /\ c \notin versions /\ calls[c].claim = None /\ c # None
  BY NotReserved, CallFields DEF CallsFollowPlaces, Save, NextCall
<1>3. /\ calls'[c].place = "sent" /\ calls'[c].payload = p /\ calls'[c].request = q
      /\ calls'[c].claim = None /\ calls'[c].result = None /\ calls'[c] \in CallStates
  <2> DEFINE new == [Unsent EXCEPT !.place = "sent", !.payload = p, !.request = q]
  <2>1. /\ new.place = "sent" /\ new.payload = p /\ new.request = q
        /\ new.claim = None /\ new.result = None
    BY DEF Unsent
  <2>2. Unsent \in CallStates BY <1>2, CallFields
  <2>3. new \in CallStates BY <1>1, <2>2 DEF CallStates
  <2>4. calls'[c] = new BY DEF Save, UploadTypeOK
  <2> QED BY <2>1, <2>3, <2>4
<1>4. \A d \in Calls : d # c => calls'[d] = calls[d] BY DEF Save, UploadTypeOK
<1>5. /\ forms'[f].payload = p /\ forms'[f].waiting = c /\ forms'[f].shown = None
      /\ forms'[f] \in FormStates
  BY <1>1 DEF Save, Blank, FormStates, UploadTypeOK
<1>6. \A g \in Forms : g # f => forms'[g] = forms[g] BY DEF Save, UploadTypeOK
<1>7. UNCHANGED <<now, rows, versions, published, maintenance>> BY DEF Save
<1>8. UploadTypeOK'
  <2>1. calls' \in [Calls -> CallStates] BY <1>3, <1>4 DEF Save, UploadTypeOK
  <2>2. forms' \in [Forms -> FormStates] BY <1>5, <1>6 DEF Save, UploadTypeOK
  <2> QED BY <2>1, <2>2, <1>7 DEF UploadTypeOK
<1>9. CallsFollowPlaces' BY <1>1, <1>3, <1>4 DEF CallsFollowPlaces
<1>10. FormsFollowCalls'
  <2> SUFFICES ASSUME NEW g \in Forms, forms'[g].waiting # None
               PROVE  calls'[forms'[g].waiting].place # "unsent"
                      /\ calls'[forms'[g].waiting].payload = forms'[g].payload
    BY DEF FormsFollowCalls
  <2>1. CASE g = f BY <2>1, <1>5, <1>3
  <2>2. CASE g # f
    <3>1. forms'[g].waiting \in Calls /\ forms'[g] = forms[g]
      BY <2>2, <1>6 DEF UploadTypeOK, FormStates
    <3>2. forms[g].waiting # c BY <3>1, <1>2 DEF FormsFollowCalls, Unsent
    <3> QED BY <3>1, <3>2, <1>4 DEF FormsFollowCalls
  <2> QED BY <2>1, <2>2
<1>11. ClaimsHaveRows' BY <1>3, <1>4, <1>7 DEF ClaimsHaveRows, HasRow
<1>12. RowsAreClaimed'
  <2>1. ASSUME NEW r \in Calls, HasRow(r) PROVE calls'[rows[r].version] = calls[rows[r].version]
    <3>1. rows[r].version \in Calls /\ r # None BY <2>1, RowFields, CallFields
    <3>2. rows[r].version # c BY <1>2, <2>1, <3>1 DEF RowsAreClaimed
    <3> QED BY <3>1, <3>2, <1>4
  <2> QED BY <1>7, <2>1 DEF RowsAreClaimed, HasRow
<1>13. ContentsHaveOneRow' BY <1>7 DEF ContentsHaveOneRow, HasRow
<1>14. \A v \in versions : v \in Calls /\ calls'[v] = calls[v] BY <1>2, <1>4 DEF UploadTypeOK
<1>15. VersionsAreSingle' BY <1>7, <1>14 DEF VersionsAreSingle
<1>16. ResultsAreSaved' BY <1>3, <1>4, <1>7, <1>14 DEF ResultsAreSaved
<1>17. ShownIsSaved' BY <1>5, <1>6, <1>7, <1>14 DEF ShownIsSaved
<1> QED BY <1>8, <1>9, <1>10, <1>11, <1>12, <1>13, <1>15, <1>16, <1>17

------------------------------------------------------------------------------
(* The steps after which a call is at its end, and those that leave the rows. *)

\* What a step that ends call c leaves of it.
Ends(c) ==
  /\ calls' \in [Calls -> CallStates]
  /\ \A d \in Calls : d # c => calls'[d] = calls[d]
  /\ calls'[c].place \in {"done", "failed"}
  /\ calls'[c].payload = calls[c].payload /\ calls'[c].request = calls[c].request
  /\ calls'[c].claim = calls[c].claim /\ calls'[c].start = calls[c].start

\* Ending a call disturbs neither its form nor what rows and versions say of calls.
LEMMA EndKeeps ==
  ASSUME SavedInv, NEW c \in Calls, calls[c].place \in {"sent", "working"}, Ends(c),
         UNCHANGED forms
  PROVE  /\ CallsFollowPlaces' /\ FormsFollowCalls'
         /\ \A d \in Calls : /\ calls'[d].payload = calls[d].payload
                             /\ calls'[d].claim = calls[d].claim
                             /\ calls'[d].start = calls[d].start
<1> USE DEF Ends
<1>1. CallsFollowPlaces' BY DEF SavedInv, CallsFollowPlaces
<1>2. \A d \in Calls : /\ calls'[d].payload = calls[d].payload
                       /\ calls'[d].claim = calls[d].claim
                       /\ calls'[d].start = calls[d].start
  OBVIOUS
<1>3. \A f \in Forms : forms[f].waiting \in {None} \cup Calls
  BY DEF SavedInv, UploadTypeOK, FormStates
<1>4. \A d \in Calls : calls[d].place # "unsent" => calls'[d].place # "unsent" OBVIOUS
<1>5. FormsFollowCalls' BY <1>2, <1>3, <1>4 DEF SavedInv, FormsFollowCalls
<1> QED BY <1>1, <1>2, <1>5

\* A call that ends with nothing but its result.
LEMMA ResultSaves ==
  ASSUME SavedInv, NEW c \in Calls, calls[c].place \in {"sent", "working"}, Ends(c),
         UNCHANGED <<now, forms, rows, versions, published, maintenance>>,
         \/ calls'[c].result = calls[c].result
         \/ /\ calls'[c].result \in versions
            /\ calls[calls'[c].result].payload = calls[c].payload
  PROVE  SavedInv'
<1> USE DEF SavedInv
<1>1. CallsFollowPlaces' /\ FormsFollowCalls' BY EndKeeps
<1>2. \A d \in Calls : /\ calls'[d].payload = calls[d].payload
                       /\ calls'[d].claim = calls[d].claim
                       /\ calls'[d].start = calls[d].start
  BY EndKeeps
<1>3. UploadTypeOK' BY DEF UploadTypeOK, Ends
<1>4. \A r \in Calls : HasRow(r) => rows[r].version \in Calls BY RowFields
<1>5. ClaimsHaveRows' /\ ContentsHaveOneRow'
  BY <1>2 DEF ClaimsHaveRows, ContentsHaveOneRow, HasRow
<1>6. RowsAreClaimed' BY <1>2, <1>4 DEF RowsAreClaimed, HasRow
<1>7. versions \subseteq Calls BY DEF UploadTypeOK
<1>8. VersionsAreSingle' BY <1>2, <1>7 DEF VersionsAreSingle
<1>9. ResultsAreSaved' BY <1>2, <1>7 DEF ResultsAreSaved, Ends
<1>10. ShownIsSaved' BY <1>2, <1>7 DEF ShownIsSaved
<1> QED BY <1>1, <1>3, <1>5, <1>6, <1>8, <1>9, <1>10

\* A call that is refused or dies leaves its row to its lease.
LEMMA RefusalSaves ==
  ASSUME SavedInv, NEW c \in Calls, ReserveRefuses(c) \/ Die(c)
  PROVE  SavedInv'
<1> DEFINE new == [calls[c] EXCEPT !.place = "failed"]
<1>1. calls[c] \in CallStates /\ calls[c].place \in {"sent", "working"}
  BY CallFields DEF SavedInv, ReserveRefuses, Die
<1>2. new \in CallStates BY <1>1 DEF CallStates
<1>3. calls' = [calls EXCEPT ![c] = new] BY DEF ReserveRefuses, Die, SavedInv, UploadTypeOK
<1>4. Ends(c) /\ calls'[c].result = calls[c].result
  <2>1. calls'[c] = new BY <1>3 DEF SavedInv, UploadTypeOK
  <2>2. /\ new.place = "failed" /\ new.payload = calls[c].payload
        /\ new.request = calls[c].request /\ new.claim = calls[c].claim
        /\ new.start = calls[c].start /\ new.result = calls[c].result
    BY <1>1 DEF CallStates
  <2> QED BY <1>2, <1>3, <2>1, <2>2 DEF SavedInv, UploadTypeOK, Ends
<1> QED BY <1>1, <1>4, ResultSaves DEF ReserveRefuses, Die

\* A row that matches a call has its content: by the request id, because another
\* content there is a conflict, or by the content itself.
LEMMA MatchingHasContent ==
  ASSUME SavedInv, NEW c \in Calls, calls[c].place = "sent", ~IdempotencyConflict(c),
         NEW r \in Matching(c)
  PROVE  r \in Calls /\ HasRow(r) /\ rows[r].payload = calls[c].payload
<1>1. calls[c].request \in Calls BY DEF SavedInv, CallsFollowPlaces
<1> QED BY <1>1 DEF Matching, IdempotencyConflict, HasRow

\* A content that was saved is answered with its version.
LEMMA ReuseSaves == ASSUME SavedInv, NEW c \in Calls, ReserveReuses(c) PROVE SavedInv'
<1>1. PICK r \in Reusable(c) :
        calls' = [calls EXCEPT ![c].place = "done", ![c].result = rows[r].version]
  BY DEF ReserveReuses
<1>2. r \in Calls /\ HasRow(r) /\ rows[r].payload = calls[c].payload /\ rows[r].state = "complete"
  BY <1>1, MatchingHasContent DEF Reusable, ReserveReuses, Refused
<1> DEFINE v == rows[r].version
           new == [calls[c] EXCEPT !.place = "done", !.result = v]
<1>3. v \in versions /\ v \in Calls
  BY <1>2 DEF SavedInv, RowsAreClaimed, UploadTypeOK
<1>4. calls[v].claim = r /\ r # None BY <1>2, CallFields DEF SavedInv, RowsAreClaimed
<1>5. calls[v].payload = calls[c].payload BY <1>2, <1>3, <1>4 DEF SavedInv, ClaimsHaveRows
<1>6. calls[c] \in CallStates /\ calls[c].place = "sent" BY CallFields DEF SavedInv, ReserveReuses
<1>7. new \in CallStates BY <1>3, <1>6 DEF CallStates
<1>8. calls' = [calls EXCEPT ![c] = new] BY <1>1 DEF SavedInv, UploadTypeOK
<1>9. calls'[c] = new BY <1>8 DEF SavedInv, UploadTypeOK
<1>10. /\ new.place = "done" /\ new.payload = calls[c].payload
       /\ new.request = calls[c].request /\ new.claim = calls[c].claim
       /\ new.start = calls[c].start /\ new.result = v
  BY <1>6 DEF CallStates
<1>11. Ends(c) BY <1>7, <1>8, <1>9, <1>10 DEF SavedInv, UploadTypeOK, Ends
<1> HIDE DEF v, new
<1> QED BY <1>3, <1>5, <1>6, <1>9, <1>10, <1>11, ResultSaves DEF ReserveReuses

\* Time, publication and maintenance.
LEMMA OthersSave ==
  ASSUME SavedInv,
         Maintain \/ Tick \/ (\E v \in Calls : Publish(v)) \/ UNCHANGED uploadVars
  PROVE  SavedInv'
<1>1. /\ UNCHANGED <<forms, calls, rows, versions>>
      /\ now' \in 0 .. MaxTime /\ now <= now' /\ now \in Int
      /\ published' \subseteq versions /\ maintenance' \in BOOLEAN
  <2> USE UploadsAssumption DEF SavedInv, UploadTypeOK
  <2>1. CASE Maintain BY <2>1 DEF Maintain
  <2>2. CASE Tick BY <2>2 DEF Tick
  <2>3. CASE \E v \in Calls : Publish(v) BY <2>3 DEF Publish, NewDocuments
  <2>4. CASE UNCHANGED uploadVars BY <2>4 DEF uploadVars
  <2> QED BY <2>1, <2>2, <2>3, <2>4
<1> USE <1>1 DEF SavedInv
<1>2. UploadTypeOK' BY DEF UploadTypeOK
<1>3. RowsAreClaimed'
  <2>1. \A r \in Calls : HasRow(r) => rows[r].updated \in Int BY RowFields
  <2> QED BY <2>1 DEF RowsAreClaimed, HasRow
<1>4. CallsFollowPlaces' /\ FormsFollowCalls' BY DEF CallsFollowPlaces, FormsFollowCalls
<1>5. ClaimsHaveRows' /\ ContentsHaveOneRow' BY DEF ClaimsHaveRows, ContentsHaveOneRow, HasRow
<1>6. VersionsAreSingle' /\ ResultsAreSaved' /\ ShownIsSaved'
  BY DEF VersionsAreSingle, ResultsAreSaved, ShownIsSaved
<1> QED BY <1>2, <1>3, <1>4, <1>5, <1>6

------------------------------------------------------------------------------
(* The steps that write a row. *)

\* The row a reservation writes is the one of the call's content, or a new one.
LEMMA ReservedRow ==
  ASSUME SavedInv, NEW c \in Calls, calls[c].place = "sent", ~IdempotencyConflict(c),
         NEW r \in IF Matching(c) = {} THEN {calls[c].request} ELSE Matching(c)
  PROVE  /\ r \in Calls
         /\ HasRow(r) => rows[r].payload = calls[c].payload /\ r \in Matching(c)
         /\ \A q \in Calls : HasRow(q) /\ rows[q].payload = calls[c].payload => q = r
<1>1. calls[c].request \in Calls BY DEF SavedInv, CallsFollowPlaces
<1>2. CASE Matching(c) = {}
  BY <1>1, <1>2 DEF Matching, HasRow
<1>3. CASE Matching(c) # {}
  <2>1. r \in Matching(c) BY <1>3
  <2>2. r \in Calls /\ HasRow(r) /\ rows[r].payload = calls[c].payload
    BY <2>1, MatchingHasContent
  <2> QED BY <2>1, <2>2 DEF SavedInv, ContentsHaveOneRow
<1> QED BY <1>2, <1>3

\* What a reservation of row r by call c writes.
Reserves(c, r) ==
  /\ r # None /\ calls[c].place = "sent"
  /\ calls[c].payload \in Payloads /\ calls[c].claim = None /\ c \notin versions
  /\ \A q \in Calls : HasRow(q) => (q = r <=> rows[q].payload = calls[c].payload)
  /\ UNCHANGED <<now, forms, versions, published, maintenance>>
  /\ calls' \in [Calls -> CallStates]
  /\ \A d \in Calls : d # c => calls'[d] = calls[d]
  /\ calls'[c].place = "working" /\ calls'[c].payload = calls[c].payload
  /\ calls'[c].request = calls[c].request /\ calls'[c].claim = r
  /\ calls'[c].start = now /\ calls'[c].result = None
  /\ rows' \in [Calls -> RowStates \cup {NoRow}]
  /\ \A q \in Calls : q # r => rows'[q] = rows[q]
  /\ HasRow(r)' /\ \A q \in Calls : q # r => HasRow(q)' = HasRow(q)
  /\ rows'[r].state = "processing" /\ rows'[r].payload = calls[c].payload
  /\ rows'[r].version = c /\ rows'[r].updated = now
  /\ rows'[r].attempts = NextAttempt(r)

\* Every reservation is one of these.
LEMMA ReserveWrites ==
  ASSUME SavedInv, NEW c \in Calls, Reserve(c)
  PROVE  \E r \in Calls : Reserves(c, r)
<1>1. calls[c].place = "sent" /\ ~IdempotencyConflict(c) /\ Reusable(c) = {}
  BY DEF Reserve, Refused
<1> DEFINE row(r) == [state |-> "processing", payload |-> calls[c].payload, version |-> c,
             until |-> now + Lease, attempts |-> NextAttempt(r), updated |-> now]
           call(r) == [calls[c] EXCEPT !.place = "working", !.claim = r, !.start = now]
<1>2. PICK r \in IF Matching(c) = {} THEN {calls[c].request} ELSE Matching(c) :
        /\ rows' = [rows EXCEPT ![r] = row(r)]
        /\ calls' = [calls EXCEPT ![c].place = "working", ![c].claim = r, ![c].start = now]
  BY DEF Reserve
<1>3. /\ r \in Calls /\ r # None
      /\ HasRow(r) => rows[r].payload = calls[c].payload /\ r \in Matching(c)
      /\ \A q \in Calls : HasRow(q) /\ rows[q].payload = calls[c].payload => q = r
  BY <1>1, <1>2, ReservedRow, CallFields DEF SavedInv
<1>4. /\ calls[c] \in CallStates /\ calls[c].payload \in Payloads
      /\ calls[c].claim = None /\ calls[c].result = None /\ c \notin versions
  BY <1>1, CallFields, NotReserved DEF SavedInv, CallsFollowPlaces
<1>5. now \in 0 .. MaxTime BY DEF SavedInv, UploadTypeOK
<1>6. UNCHANGED <<now, forms, versions, published, maintenance>> BY DEF Reserve
<1>7. call(r) \in CallStates BY <1>3, <1>4, <1>5 DEF CallStates
<1>8. NextAttempt(r) \in 1 .. MaxAttempts
  <2> USE UploadsAssumption
  <2>1. CASE HasRow(r)
    <3>1. ~(NextAttempt(r) > MaxAttempts) BY <1>3, <2>1, <1>1 DEF Reserve, Refused
    <3>2. rows[r].attempts \in Nat BY <1>3, <2>1, RowFields DEF SavedInv
    <3>3. NextAttempt(r) \in Nat \ {0} BY <3>2 DEF NextAttempt
    <3>4. MaxAttempts \in Nat OBVIOUS
    <3> QED BY <3>1, <3>3, <3>4
  <2>2. CASE ~HasRow(r) BY <2>2 DEF NextAttempt, HasRow
  <2> QED BY <2>1, <2>2
<1>9. row(r) \in RowStates
  <2>1. now + Lease \in 0 .. MaxTime + Lease BY <1>5, UploadsAssumption
  <2> QED BY <1>4, <1>5, <1>8, <2>1 DEF RowStates
<1>10. calls' = [calls EXCEPT ![c] = call(r)] BY <1>2 DEF SavedInv, UploadTypeOK
<1>11. /\ calls'[c] = call(r) /\ rows'[r] = row(r)
       /\ \A d \in Calls : d # c => calls'[d] = calls[d]
       /\ \A q \in Calls : q # r => rows'[q] = rows[q]
  BY <1>2, <1>3, <1>10 DEF SavedInv, UploadTypeOK
<1>12. /\ calls'[c].place = "working" /\ calls'[c].payload = calls[c].payload
       /\ calls'[c].claim = r /\ calls'[c].start = now /\ calls'[c].result = None
       /\ calls'[c].request = calls[c].request
  BY <1>4, <1>11 DEF CallStates
<1>13. /\ rows'[r].state = "processing" /\ rows'[r].payload = calls[c].payload
       /\ rows'[r].version = c /\ rows'[r].updated = now
      /\ rows'[r].attempts = NextAttempt(r)
  BY <1>11
<1>14. HasRow(r)' /\ \A q \in Calls : q # r => HasRow(q)' = HasRow(q)
  <2>1. row(r) # NoRow BY <1>9 DEF RowStates, NoRow
  <2> QED BY <1>11, <2>1 DEF HasRow
<1>15. calls' \in [Calls -> CallStates] BY <1>7, <1>10 DEF SavedInv, UploadTypeOK
<1>16. rows' \in [Calls -> RowStates \cup {NoRow}] BY <1>2, <1>9 DEF SavedInv, UploadTypeOK
<1>17. \A q \in Calls : HasRow(q) => (q = r <=> rows[q].payload = calls[c].payload) BY <1>3
<1> HIDE DEF row, call
<1> QED BY <1>1, <1>3, <1>4, <1>6, <1>11, <1>12, <1>13, <1>14, <1>15, <1>16, <1>17 DEF Reserves

\* A row taken over keeps its content, and the call that lost it keeps pointing to it.
LEMMA ReserveSaves == ASSUME SavedInv, NEW c \in Calls, Reserve(c) PROVE SavedInv'
<1>1. PICK r \in Calls : Reserves(c, r) BY ReserveWrites
<1>2. now \in 0 .. MaxTime BY DEF SavedInv, UploadTypeOK
<1> USE DEF SavedInv, Reserves
<1>3. UploadTypeOK' BY <1>1 DEF UploadTypeOK
<1>4. CallsFollowPlaces' BY <1>1 DEF CallsFollowPlaces
<1>5. FormsFollowCalls'
  <2>1. \A f \in Forms : forms[f].waiting \in {None} \cup Calls BY DEF UploadTypeOK, FormStates
  <2>2. \A d \in Calls : calls'[d].payload = calls[d].payload BY <1>1
  <2>3. \A d \in Calls : calls[d].place # "unsent" => calls'[d].place # "unsent"
    BY <1>1
  <2> QED BY <1>1, <2>1, <2>2, <2>3 DEF FormsFollowCalls
<1>6. ClaimsHaveRows'
  <2> SUFFICES ASSUME NEW d \in Calls, calls'[d].claim # None
               PROVE  /\ rows'[calls'[d].claim] # NoRow
                      /\ rows'[calls'[d].claim].payload = calls'[d].payload
                      /\ calls'[d].start <= rows'[calls'[d].claim].updated
    BY DEF ClaimsHaveRows, HasRow
  <2>1. CASE d = c BY <2>1, <1>2, <1>1 DEF HasRow
  <2>2. CASE d # c
    <3>1. calls'[d] = calls[d] /\ calls[d].claim \in Calls
      BY <2>2, <1>1, CallFields
    <3>2. /\ HasRow(calls[d].claim) /\ rows[calls[d].claim].payload = calls[d].payload
          /\ calls[d].start <= rows[calls[d].claim].updated
      BY <3>1 DEF ClaimsHaveRows
    <3>3. CASE calls[d].claim = r
      <4>1. rows[r].updated <= now BY <3>2, <3>3, <1>1 DEF RowsAreClaimed
      <4>2. calls[d].start \in Int /\ rows[r].updated \in Int /\ now \in Int
        BY <1>1, <1>2, <3>2, <3>3, CallFields, RowFields
      <4> QED BY <3>1, <3>2, <3>3, <4>1, <4>2, <1>1 DEF HasRow
    <3>4. CASE calls[d].claim # r BY <3>1, <3>2, <3>4, <1>1 DEF HasRow
    <3> QED BY <3>3, <3>4
  <2> QED BY <2>1, <2>2
<1>7. RowsAreClaimed'
  <2>1. ASSUME NEW q \in Calls, q # r, HasRow(q)
        PROVE  calls'[rows[q].version] = calls[rows[q].version]
    <3>1. rows[q].version \in Calls /\ q # None BY <2>1, RowFields, CallFields
    <3>2. rows[q].version # c BY <1>1, <2>1, <3>1 DEF RowsAreClaimed
    <3> QED BY <3>1, <3>2, <1>1
  <2>2. ASSUME NEW q \in Calls, q # r, HasRow(q)'
        PROVE  /\ calls'[rows'[q].version].claim = q
               /\ rows'[q].state = "complete" => rows'[q].version \in versions'
               /\ rows'[q].updated <= now'
    BY <2>1, <2>2, <1>1 DEF RowsAreClaimed
  <2>3. /\ calls'[rows'[r].version].claim = r
        /\ rows'[r].state = "complete" => rows'[r].version \in versions'
        /\ rows'[r].updated <= now'
    BY <1>2, <1>1
  <2> QED BY <2>2, <2>3 DEF RowsAreClaimed, HasRow
<1>8. ContentsHaveOneRow'
  <2> SUFFICES ASSUME NEW q \in Calls, NEW t \in Calls, HasRow(q)', HasRow(t)',
                      rows'[q].payload = rows'[t].payload
               PROVE  q = t
    BY DEF ContentsHaveOneRow, HasRow
  <2>1. CASE q # r /\ t # r BY <2>1, <1>1 DEF ContentsHaveOneRow
  <2>2. CASE q = r \/ t = r BY <2>2, <1>1
  <2> QED BY <2>1, <2>2
<1>9. \A v \in versions : v \in Calls /\ calls'[v] = calls[v]
  BY <1>1 DEF UploadTypeOK
<1>10. VersionsAreSingle' BY <1>1, <1>9 DEF VersionsAreSingle
<1>11. ResultsAreSaved' BY <1>1, <1>9 DEF ResultsAreSaved
<1>12. ShownIsSaved' BY <1>1, <1>9 DEF ShownIsSaved
<1> QED BY <1>3, <1>4, <1>5, <1>6, <1>7, <1>8, <1>10, <1>11, <1>12

\* The row of call c is settled, its content, version and attempts as they were.
Settles(c, state) ==
  LET r == calls[c].claim IN
  /\ rows[r].version = c /\ rows[r].state = "processing"
  /\ rows' = [rows EXCEPT ![r] = [@ EXCEPT !.state = state, !.updated = now]]

\* Settling a row changes its state and its time, and no other row.
LEMMA SettledRow ==
  ASSUME SavedInv, NEW c \in Calls, calls[c].claim # None,
         NEW state \in {"failed", "complete"}, Settles(c, state)
  PROVE  /\ calls[c].claim \in Calls
         /\ rows' \in [Calls -> RowStates \cup {NoRow}]
         /\ \A q \in Calls : q # calls[c].claim => rows'[q] = rows[q]
         /\ \A q \in Calls : /\ HasRow(q)' = HasRow(q)
                             /\ HasRow(q) => /\ rows'[q].payload = rows[q].payload
                                             /\ rows'[q].version = rows[q].version
                                             /\ rows'[q].attempts = rows[q].attempts
                                             /\ rows'[q].until = rows[q].until
                                             /\ rows[q].updated <= rows'[q].updated
                                             /\ rows'[q].updated <= now
         /\ rows'[calls[c].claim].state = state
<1> DEFINE r == calls[c].claim
           new == [rows[r] EXCEPT !.state = state, !.updated = now]
<1>1. r \in Calls BY CallFields DEF SavedInv
<1>2. rows[r] \in RowStates /\ HasRow(r) BY <1>1, RowFields DEF SavedInv, Settles, ClaimsHaveRows
<1>3. now \in 0 .. MaxTime BY DEF SavedInv, UploadTypeOK
<1>4. /\ new \in RowStates /\ new.state = state /\ new.updated = now
      /\ new.payload = rows[r].payload /\ new.version = rows[r].version
      /\ new.attempts = rows[r].attempts /\ new.until = rows[r].until
  BY <1>2, <1>3 DEF RowStates
<1>5. /\ rows' = [rows EXCEPT ![r] = new] /\ rows'[r] = new
      /\ \A q \in Calls : q # r => rows'[q] = rows[q]
  BY <1>1 DEF Settles, SavedInv, UploadTypeOK
<1>6. new # NoRow BY <1>4 DEF RowStates, NoRow
<1> HIDE DEF new
<1>7. rows' \in [Calls -> RowStates \cup {NoRow}] BY <1>4, <1>5 DEF SavedInv, UploadTypeOK
<1>8. \A q \in Calls : HasRow(q) => rows[q].updated <= now /\ rows[q].updated \in Int
  BY RowFields DEF SavedInv, RowsAreClaimed
<1>9. \A q \in Calls : HasRow(q)' = HasRow(q) BY <1>2, <1>5, <1>6 DEF HasRow
<1> QED BY <1>1, <1>3, <1>4, <1>5, <1>7, <1>8, <1>9

\* What settling a row keeps while the call that held it ends.
LEMMA SettleKeeps ==
  ASSUME SavedInv, NEW c \in Calls, calls[c].place = "working", Ends(c),
         NEW state \in {"failed", "complete"}, Settles(c, state),
         UNCHANGED <<now, forms>>, versions \subseteq versions',
         state = "complete" => c \in versions'
  PROVE  ClaimsHaveRows' /\ RowsAreClaimed' /\ ContentsHaveOneRow'
<1> DEFINE r == calls[c].claim
<1>1. calls[c].claim # None BY DEF SavedInv, CallsFollowPlaces
<1>2. \A d \in Calls : /\ calls'[d].payload = calls[d].payload
                       /\ calls'[d].claim = calls[d].claim
                       /\ calls'[d].start = calls[d].start
  BY EndKeeps
<1>3. /\ r \in Calls
      /\ \A q \in Calls : q # r => rows'[q] = rows[q]
      /\ \A q \in Calls : /\ HasRow(q)' = HasRow(q)
                          /\ HasRow(q) => /\ rows'[q].payload = rows[q].payload
                                          /\ rows'[q].version = rows[q].version
                                          /\ rows[q].updated <= rows'[q].updated
                                          /\ rows'[q].updated <= now
      /\ rows'[r].state = state
  BY <1>1, SettledRow
<1>4. \A q \in Calls : HasRow(q)' => rows'[q].updated \in Int /\ rows[q].updated \in Int
  <2>1. \A q \in Calls : HasRow(q) => rows[q].updated \in Int BY RowFields DEF SavedInv
  <2>2. \A q \in Calls : HasRow(q)' => rows'[q].updated \in Int
    BY <1>1, SettledRow DEF RowStates, HasRow
  <2> QED BY <2>1, <2>2, <1>3
<1> USE DEF SavedInv
<1>5. ClaimsHaveRows'
  <2> SUFFICES ASSUME NEW d \in Calls, calls'[d].claim # None
               PROVE  /\ rows'[calls'[d].claim] # NoRow
                      /\ rows'[calls'[d].claim].payload = calls'[d].payload
                      /\ calls'[d].start <= rows'[calls'[d].claim].updated
    BY DEF ClaimsHaveRows, HasRow
  <2>1. calls'[d].claim = calls[d].claim /\ calls[d].claim \in Calls /\ calls[d].start \in Int
    BY <1>2, CallFields
  <2>2. /\ HasRow(calls[d].claim) /\ rows[calls[d].claim].payload = calls[d].payload
        /\ calls[d].start <= rows[calls[d].claim].updated
    BY <2>1 DEF ClaimsHaveRows
  <2> QED BY <1>2, <1>3, <1>4, <2>1, <2>2 DEF HasRow
<1>6. RowsAreClaimed'
  <2> SUFFICES ASSUME NEW q \in Calls, HasRow(q)'
               PROVE  /\ calls'[rows'[q].version].claim = q
                      /\ rows'[q].state = "complete" => rows'[q].version \in versions'
                      /\ rows'[q].updated <= now'
    BY DEF RowsAreClaimed, HasRow
  <2>1. HasRow(q) /\ rows[q].version \in Calls BY <1>3, RowFields
  <2>2. rows'[q].version = rows[q].version /\ rows'[q].updated <= now BY <1>3, <2>1
  <2>3. calls'[rows[q].version].claim = q BY <1>2, <2>1 DEF RowsAreClaimed
  <2>4. rows'[q].state = "complete" => rows[q].version \in versions'
    BY <1>3, <2>1 DEF RowsAreClaimed, Settles
  <2> QED BY <2>2, <2>3, <2>4
<1>7. ContentsHaveOneRow' BY <1>3 DEF ContentsHaveOneRow, HasRow
<1> QED BY <1>5, <1>6, <1>7

\* A call that fails marks its row only if it still holds it.
LEMMA FailSaves == ASSUME SavedInv, NEW c \in Calls, Fail(c) PROVE SavedInv'
<1> DEFINE new == [calls[c] EXCEPT !.place = "failed"]
           r == calls[c].claim
<1>1. calls[c] \in CallStates /\ calls[c].place = "working" /\ r # None
  BY CallFields DEF SavedInv, CallsFollowPlaces, Fail
<1>2. calls' = [calls EXCEPT ![c] = new] /\ calls'[c] = new
  BY DEF Fail, SavedInv, UploadTypeOK
<1>3. /\ new \in CallStates /\ new.place = "failed" /\ new.payload = calls[c].payload
      /\ new.request = calls[c].request /\ new.claim = calls[c].claim
      /\ new.start = calls[c].start /\ new.result = calls[c].result
  BY <1>1 DEF CallStates
<1>4. Ends(c) /\ calls'[c].result = calls[c].result
  BY <1>2, <1>3 DEF SavedInv, UploadTypeOK, Ends
<1>5. UNCHANGED <<now, forms, versions, published, maintenance>> BY DEF Fail
<1>6. CASE UNCHANGED rows BY <1>1, <1>4, <1>5, <1>6, ResultSaves
<1>7. CASE Settles(c, "failed")
  <2> USE DEF SavedInv
  <2>1. ClaimsHaveRows' /\ RowsAreClaimed' /\ ContentsHaveOneRow'
    BY <1>1, <1>4, <1>5, <1>7, SettleKeeps
  <2>2. rows' \in [Calls -> RowStates \cup {NoRow}] BY <1>1, <1>7, SettledRow
  <2>3. UploadTypeOK' BY <1>4, <1>5, <2>2 DEF UploadTypeOK, Ends
  <2>4. CallsFollowPlaces' /\ FormsFollowCalls' BY <1>1, <1>4, <1>5, EndKeeps
  <2>5. \A d \in Calls : /\ calls'[d].payload = calls[d].payload
                         /\ calls'[d].claim = calls[d].claim
                         /\ calls'[d].result = calls[d].result
    BY <1>1, <1>4, <1>5, EndKeeps DEF Ends
  <2>6. versions \subseteq Calls BY DEF UploadTypeOK
  <2>7. VersionsAreSingle' /\ ResultsAreSaved' /\ ShownIsSaved'
    BY <1>5, <2>5, <2>6 DEF VersionsAreSingle, ResultsAreSaved, ShownIsSaved
  <2> QED BY <2>1, <2>3, <2>4, <2>7
<1> QED BY <1>6, <1>7 DEF Fail, Settles

\* A version is recorded by the holder of the row, and neither a second revision nor a
\* second version of the row's document.
LEMMA CompleteSaves == ASSUME SavedInv, NEW c \in Calls, Complete(c) PROVE SavedInv'
<1> DEFINE r == calls[c].claim
<1>1. calls[c] \in CallStates /\ calls[c].place = "working" /\ r # None
  BY CallFields DEF SavedInv, CallsFollowPlaces, Complete
<1>2. /\ UNCHANGED <<now, forms, published, maintenance>> /\ versions' = versions \cup {c}
      /\ Settles(c, "complete") /\ ~RevisionConflict(c) /\ ~DocumentTaken(c)
  BY DEF Complete, HoldsLease, Settles
<1>3. Ends(c) /\ (calls'[c].result = c \/ calls'[c].result = calls[c].result)
  <2>1. CASE calls' = [calls EXCEPT ![c] = [@ EXCEPT !.place = "done", !.result = c]]
    <3> DEFINE new == [calls[c] EXCEPT !.place = "done", !.result = c]
    <3>1. /\ new \in CallStates /\ new.place = "done" /\ new.payload = calls[c].payload
          /\ new.request = calls[c].request /\ new.claim = calls[c].claim
          /\ new.start = calls[c].start /\ new.result = c
      BY <1>1 DEF CallStates
    <3>2. calls' = [calls EXCEPT ![c] = new] /\ calls'[c] = new
      BY <2>1 DEF SavedInv, UploadTypeOK
    <3> HIDE DEF new
    <3> QED BY <3>1, <3>2 DEF SavedInv, UploadTypeOK, Ends
  <2>2. CASE calls' = [calls EXCEPT ![c].place = "failed"]
    <3> DEFINE new == [calls[c] EXCEPT !.place = "failed"]
    <3>1. /\ new \in CallStates /\ new.place = "failed" /\ new.payload = calls[c].payload
          /\ new.request = calls[c].request /\ new.claim = calls[c].claim
          /\ new.start = calls[c].start /\ new.result = calls[c].result
      BY <1>1 DEF CallStates
    <3>2. calls' = [calls EXCEPT ![c] = new] /\ calls'[c] = new
      BY <2>2 DEF SavedInv, UploadTypeOK
    <3> HIDE DEF new
    <3> QED BY <3>1, <3>2 DEF SavedInv, UploadTypeOK, Ends
  <2> QED BY <2>1, <2>2 DEF Complete
<1> USE DEF SavedInv
<1>4. ClaimsHaveRows' /\ RowsAreClaimed' /\ ContentsHaveOneRow'
  BY <1>1, <1>2, <1>3, SettleKeeps
<1>5. rows' \in [Calls -> RowStates \cup {NoRow}] BY <1>1, <1>2, SettledRow
<1>6. UploadTypeOK' BY <1>2, <1>3, <1>5 DEF UploadTypeOK, Ends
<1>7. CallsFollowPlaces' /\ FormsFollowCalls' BY <1>1, <1>2, <1>3, EndKeeps
<1>8. \A d \in Calls : /\ calls'[d].payload = calls[d].payload
                       /\ calls'[d].claim = calls[d].claim
                       /\ d # c => calls'[d].result = calls[d].result
  BY <1>1, <1>2, <1>3, EndKeeps DEF Ends
<1>9. versions \subseteq Calls BY DEF UploadTypeOK
<1>10. VersionsAreSingle'
  <2>1. \A v \in versions' : calls'[v].claim # None
    BY <1>1, <1>2, <1>8, <1>9 DEF VersionsAreSingle
  <2>2. ASSUME NEW v \in versions', NEW w \in versions',
               calls'[v].payload \in Revisions, calls'[w].payload \in Revisions
        PROVE  v = w
    <3>1. calls[v].payload \in Revisions /\ calls[w].payload \in Revisions
      BY <2>2, <1>2, <1>8, <1>9
    <3> QED BY <2>2, <3>1, <1>2 DEF VersionsAreSingle, RevisionConflict
  <2>3. ASSUME NEW v \in versions', NEW w \in versions',
               calls'[v].payload \in NewPayloads, calls'[v].claim = calls'[w].claim
        PROVE  v = w
    <3>1. calls[v].payload \in NewPayloads /\ calls[v].claim = calls[w].claim
      BY <2>3, <1>2, <1>8, <1>9
    <3>2. calls[w].payload = calls[v].payload
      <4>1. calls[v].claim # None BY <2>1, <2>3, <1>2, <1>8, <1>9
      <4> QED BY <4>1, <3>1, <1>2, <1>9 DEF ClaimsHaveRows
    <3> QED BY <2>3, <3>1, <3>2, <1>2 DEF VersionsAreSingle, DocumentTaken
  <2> QED BY <2>1, <2>2, <2>3 DEF VersionsAreSingle
<1>11. ResultsAreSaved' BY <1>2, <1>3, <1>8, <1>9 DEF ResultsAreSaved
<1>12. ShownIsSaved' BY <1>2, <1>8, <1>9 DEF ShownIsSaved
<1> QED BY <1>4, <1>6, <1>7, <1>10, <1>11, <1>12

------------------------------------------------------------------------------
(* The theorems on what is saved. *)

\* Every step keeps the invariant.
LEMMA UploadsStep == SavedInv /\ [UploadNext]_uploadVars => SavedInv'
<1> SUFFICES ASSUME SavedInv, [UploadNext]_uploadVars PROVE SavedInv' OBVIOUS
<1>1. ASSUME NEW f \in Forms, FormStep(f) PROVE SavedInv'
  BY <1>1, SaveSaves, ChangedSaves, AnswerSaves, StopWaitingSaves DEF FormStep
<1>2. ASSUME NEW c \in Calls, CallStep(c) PROVE SavedInv'
  BY <1>2, ReserveSaves, ReuseSaves, RefusalSaves, CompleteSaves, FailSaves DEF CallStep
<1>3. CASE (\E v \in Calls : Publish(v)) \/ Maintain \/ Tick \/ UNCHANGED uploadVars
  BY <1>3, OthersSave
<1> QED BY <1>1, <1>2, <1>3 DEF UploadNext

\* The invariant holds in every reachable state.
THEOREM SavedInvariant == UploadSpec => []SavedInv
BY UploadsInitially, UploadsStep, PTL DEF UploadSpec

\* Forms, calls and rows keep their types: no row ever counts more attempts than the
\* table's CHECK allows.
THEOREM UploadsTypeCorrect == UploadSpec => []UploadTypeOK
<1>1. SavedInv => UploadTypeOK BY DEF SavedInv
<1> QED BY <1>1, SavedInvariant, PTL

\* Two versions of one content have claimed the same row, which makes one of them, or
\* revise the same document, which only one of them does.
LEMMA ContentMakesOne == SavedInv => SavedOnce
<1> SUFFICES ASSUME SavedInv, NEW v \in versions, NEW w \in versions,
                    calls[v].payload = calls[w].payload
             PROVE  v = w
  BY DEF SavedOnce
<1> USE DEF SavedInv
<1>1. v \in Calls /\ w \in Calls BY DEF UploadTypeOK
<1>2. calls[v].claim # None /\ calls[w].claim # None BY DEF VersionsAreSingle
<1>3. calls[v].payload \in Payloads
  BY <1>1, <1>2 DEF CallsFollowPlaces, Unsent
<1>4. calls[v].claim = calls[w].claim
  <2>1. calls[v].claim \in Calls /\ calls[w].claim \in Calls BY <1>1, <1>2, CallFields
  <2>2. /\ HasRow(calls[v].claim) /\ rows[calls[v].claim].payload = calls[v].payload
        /\ HasRow(calls[w].claim) /\ rows[calls[w].claim].payload = calls[w].payload
    BY <1>1, <1>2 DEF ClaimsHaveRows
  <2> QED BY <2>1, <2>2 DEF ContentsHaveOneRow
<1> QED BY <1>3, <1>4 DEF VersionsAreSingle, Payloads

\* For any number of tabs, contents, retries and take-overs, a content becomes at most
\* one version (the unique indexes and locks of uploads.ts:104-113).
THEOREM SavedOnceHolds == UploadSpec => []SavedOnce
BY ContentMakesOne, SavedInvariant, PTL

\* A form never shows as saved a version of another content than its own
\* (upload-form.tsx:219-223).
THEOREM ShownIsSavedHolds == UploadSpec => []ShownIsSaved
<1>1. SavedInv => ShownIsSaved BY DEF SavedInv
<1> QED BY <1>1, SavedInvariant, PTL

------------------------------------------------------------------------------
(* The limits. They are looked at when an upload starts, so what has to be    *)
(* shown is that until it ends nobody else can use up what it was promised.   *)

\* The sets that are counted are finite.
LEMMA CountedAreFinite ==
  ASSUME UploadTypeOK
  PROVE  /\ IsFiniteSet(Calls) /\ IsFiniteSet(Recent) /\ IsFiniteSet(NewDocuments)
         /\ Cardinality(Recent) \in Nat /\ Cardinality(NewDocuments) \in Nat
<1>1. IsFiniteSet(Calls) BY FS_Interval, UploadsAssumption DEF Calls
<1>2. Recent \subseteq Calls /\ NewDocuments \subseteq Calls
  BY DEF Recent, NewDocuments, UploadTypeOK
<1>3. IsFiniteSet(Recent) /\ IsFiniteSet(NewDocuments) BY <1>1, <1>2, FS_Subset
<1> QED BY <1>1, <1>3, FS_CardinalityType

\* What every step leaves as it is, but the start and the completion of an ingestion.
Quiet ==
  /\ \A r \in Calls : IsLive(r)' => IsLive(r)
  /\ NewDocuments' \subseteq NewDocuments

CountsStay ==
  /\ Recent' \subseteq Recent
  /\ \A c \in Recent' : /\ calls'[c].claim = calls[c].claim
                        /\ rows'[calls[c].claim].attempts = rows[calls[c].claim].attempts

\* Neither leases nor drafts become more.
LEMMA QuietKeeps ==
  ASSUME UploadTypeOK, OneLease, DraftsFit, Quiet
  PROVE  OneLease' /\ DraftsFit'
<1>1. OneLease' BY DEF OneLease, Quiet
<1>2. Busy' => Busy BY DEF Busy, Quiet, IsLive
<1>3. IsFiniteSet(NewDocuments) /\ Cardinality(NewDocuments) \in Nat BY CountedAreFinite
<1>4. /\ Cardinality(NewDocuments') <= Cardinality(NewDocuments)
      /\ Cardinality(NewDocuments') \in Nat
  BY <1>3, FS_Subset, FS_CardinalityType DEF Quiet
<1> QED BY <1>1, <1>2, <1>3, <1>4, UploadsAssumption DEF DraftsFit

\* The numbers of the attempts stay good for those that are still recent.
LEMMA CountsKeep ==
  ASSUME UploadTypeOK, AttemptsAreCounted, AttemptsFit, CountsStay
  PROVE  AttemptsAreCounted' /\ AttemptsFit'
<1>1. AttemptsAreCounted'
  <2>1. PICK num \in [Calls -> 1 .. MaxAttempts] : Numbers(num) BY DEF AttemptsAreCounted
  <2>2. Numbers(num)' BY <2>1 DEF Numbers, CountsStay
  <2> QED BY <2>2 DEF AttemptsAreCounted
<1>2. IsFiniteSet(Recent) /\ Cardinality(Recent) \in Nat BY CountedAreFinite
<1>3. Cardinality(Recent') <= Cardinality(Recent) /\ Cardinality(Recent') \in Nat
  BY <1>2, FS_Subset, FS_CardinalityType DEF CountsStay
<1>4. AttemptsFit' BY <1>2, <1>3, UploadsAssumption DEF AttemptsFit
<1> QED BY <1>1, <1>4

\* The recent attempts are at most as many as the rows have counted: numbered, they are
\* different pairs of a row and one of its attempts.
LEMMA RecentAreCounted ==
  ASSUME SavedInv, AttemptsAreCounted
  PROVE  Cardinality(Recent) <= RecentAttempts /\ RecentAttempts \in Nat
<1> DEFINE counted == {attempt \in Calls \X (1 .. MaxAttempts) :
             LET row == rows[attempt[1]]
             IN  row # NoRow /\ row.updated > now - Hour /\ attempt[2] <= row.attempts}
<1>1. PICK num \in [Calls -> 1 .. MaxAttempts] : Numbers(num) BY DEF AttemptsAreCounted
<1> DEFINE f == [c \in Recent |-> <<calls[c].claim, num[c]>>]
<1>2. ASSUME NEW c \in Recent PROVE f[c] \in counted
  <2>1. /\ c \in Calls /\ calls[c].claim \in Calls /\ calls[c].start > now - Hour
        /\ calls[c].start \in Int
    BY CallFields DEF Recent, SavedInv
  <2>2. HasRow(calls[c].claim) /\ calls[c].start <= rows[calls[c].claim].updated
    BY <2>1, CallFields DEF SavedInv, ClaimsHaveRows, Recent
  <2>3. rows[calls[c].claim].updated \in Int BY <2>1, <2>2, RowFields DEF SavedInv
  <2>4. now - Hour \in Int BY UploadsAssumption DEF SavedInv, UploadTypeOK
  <2>5. rows[calls[c].claim].updated > now - Hour BY <2>1, <2>2, <2>3, <2>4
  <2>6. num[c] \in 1 .. MaxAttempts /\ num[c] <= rows[calls[c].claim].attempts
    BY <1>1, <2>1 DEF Numbers
  <2> QED BY <2>1, <2>2, <2>5, <2>6 DEF HasRow
<1>3. f \in Injection(Recent, counted)
  <2>1. f \in [Recent -> counted] BY <1>2
  <2>2. \A c, d \in Recent : f[c] = f[d] => c = d BY <1>1 DEF Numbers
  <2> QED BY <2>1, <2>2 DEF Injection, IsInjective
<1>4. IsFiniteSet(counted)
  <2>1. IsFiniteSet(1 .. MaxAttempts) BY FS_Interval, UploadsAssumption
  <2>2. IsFiniteSet(Calls) BY CountedAreFinite DEF SavedInv
  <2>3. IsFiniteSet(Calls \X (1 .. MaxAttempts)) BY <2>1, <2>2, FS_Product
  <2> QED BY <2>3, FS_Subset
<1>5. Cardinality(Recent) <= Cardinality(counted) BY <1>3, <1>4, FS_Injection
<1>6. Cardinality(counted) \in Nat BY <1>4, FS_CardinalityType
<1>7. RecentAttempts = Cardinality(counted) BY DEF RecentAttempts
<1> QED BY <1>5, <1>6, <1>7

\* A reservation finds room for the document and for the attempt, and no live lease.
LEMMA ReserveFits ==
  ASSUME SavedInv, LimitsInv, NEW c \in Calls, Reserve(c)
  PROVE  LimitsInv'
<1>1. PICK r \in Calls : Reserves(c, r) BY ReserveWrites
<1>2. ~Busy /\ RecentAttempts < PerHour /\ Cardinality(NewDocuments) < OwnedDrafts
  <2>1. /\ ~Busy /\ ~(RecentAttempts >= PerHour)
        /\ ~(Cardinality(NewDocuments) >= OwnedDrafts)
    BY DEF Reserve, Refused
  <2>2. RecentAttempts \in Nat /\ Cardinality(NewDocuments) \in Nat
    BY RecentAreCounted, CountedAreFinite DEF SavedInv, LimitsInv
  <2> QED BY <2>1, <2>2, UploadsAssumption
<1>3. now \in Int /\ Hour \in Nat \ {0} BY UploadsAssumption DEF SavedInv, UploadTypeOK
<1>4. OneLease'
  <2>1. \A q \in Calls : q # r => ~IsLive(q)' BY <1>1, <1>2 DEF IsLive, Busy, Reserves
  <2> QED BY <2>1 DEF OneLease
<1>5. DraftsFit'
  <2>1. NewDocuments' = NewDocuments
    BY <1>1 DEF NewDocuments, Reserves, SavedInv, UploadTypeOK
  <2>2. Cardinality(NewDocuments) \in Nat BY CountedAreFinite DEF SavedInv
  <2> QED BY <1>2, <2>1, <2>2, UploadsAssumption DEF DraftsFit
<1>6. c \notin Recent /\ c # None BY <1>1, CallFields DEF Recent, Reserves, SavedInv
<1>7. Recent' = Recent \cup {c}
  BY <1>1, <1>3, CallFields DEF Recent, Reserves, SavedInv, None, Calls
<1>8. AttemptsAreCounted'
  <2>1. PICK num \in [Calls -> 1 .. MaxAttempts] : Numbers(num)
    BY DEF LimitsInv, AttemptsAreCounted
  <2>2. PICK k \in 1 .. MaxAttempts : k = NextAttempt(r) /\ rows'[r].attempts = k
    BY <1>1 DEF Reserves, HasRow, RowStates
  <2> DEFINE next == [num EXCEPT ![c] = k]
  <2>3. next \in [Calls -> 1 .. MaxAttempts] OBVIOUS
  <2>4. next[c] = k /\ \A d \in Recent : next[d] = num[d]
    BY <1>6 DEF Recent
  <2>5. ASSUME NEW d \in Recent, calls[d].claim = r PROVE num[d] < k
    <3>1. d \in Calls /\ calls[d].start > now - Hour /\ calls[d].start \in Int
      BY CallFields DEF Recent, SavedInv
    <3>2. HasRow(r) /\ calls[d].start <= rows[r].updated
      BY <2>5, <3>1 DEF SavedInv, ClaimsHaveRows, Recent
    <3>3. rows[r].updated \in Int /\ rows[r].attempts \in Int BY <3>2, RowFields DEF SavedInv
    <3>4. NextAttempt(r) = rows[r].attempts + 1
      BY <1>3, <3>1, <3>2, <3>3 DEF NextAttempt, HasRow
    <3>5. num[d] <= rows[r].attempts /\ num[d] \in Int BY <2>1, <2>5, <3>1 DEF Numbers
    <3> QED BY <2>2, <3>3, <3>4, <3>5
  <2>6. \A d \in Recent : d \in Calls /\ d # c /\ calls'[d] = calls[d] /\ num[d] \in Int
    BY <1>1, <1>6, <2>1 DEF Recent, Reserves
  <2>7. calls'[c].claim = r BY <1>1 DEF Reserves
  <2>8. ASSUME NEW d \in Recent' PROVE next[d] <= rows'[calls'[d].claim].attempts
    <3>1. CASE d = c BY <2>2, <2>4, <2>7, <3>1
    <3>2. CASE d \in Recent /\ calls[d].claim = r BY <2>2, <2>4, <2>5, <2>6, <3>2
    <3>3. CASE d \in Recent /\ calls[d].claim # r
      <4>1. calls[d].claim \in Calls BY <2>6, <3>3, CallFields DEF Recent, SavedInv
      <4>2. rows'[calls[d].claim] = rows[calls[d].claim] BY <1>1, <3>3, <4>1 DEF Reserves
      <4> QED BY <2>1, <2>4, <2>6, <3>3, <4>2 DEF Numbers
    <3> QED BY <1>7, <3>1, <3>2, <3>3
  <2>9. ASSUME NEW d \in Recent', NEW e \in Recent',
               calls'[d].claim = calls'[e].claim, next[d] = next[e]
        PROVE  d = e
    <3>1. k \in Int OBVIOUS
    <3>2. CASE d \in Recent /\ e \in Recent BY <2>1, <2>4, <2>6, <2>9, <3>2 DEF Numbers
    <3>3. CASE d = c /\ e \in Recent BY <2>4, <2>5, <2>6, <2>7, <2>9, <3>1, <3>3
    <3>4. CASE e = c /\ d \in Recent BY <2>4, <2>5, <2>6, <2>7, <2>9, <3>1, <3>4
    <3> QED BY <1>7, <3>2, <3>3, <3>4
  <2> HIDE DEF next
  <2>10. Numbers(next)' BY <2>8, <2>9 DEF Numbers
  <2> QED BY <2>3, <2>10 DEF AttemptsAreCounted
<1>9. AttemptsFit'
  <2>1. Cardinality(Recent) <= RecentAttempts /\ RecentAttempts \in Nat
    BY RecentAreCounted DEF LimitsInv
  <2>2. IsFiniteSet(Recent) /\ Cardinality(Recent) \in Nat BY CountedAreFinite DEF SavedInv
  <2>3. Cardinality(Recent') = Cardinality(Recent) + 1
    BY <1>6, <1>7, <2>2, FS_AddElement
  <2> QED BY <1>2, <2>1, <2>2, <2>3, UploadsAssumption DEF AttemptsFit
<1> QED BY <1>4, <1>5, <1>8, <1>9 DEF LimitsInv

\* The live lease that completes ends, and with it the promise that there is room.
LEMMA CompleteFits ==
  ASSUME SavedInv, LimitsInv, NEW c \in Calls, Complete(c)
  PROVE  LimitsInv'
<1> DEFINE r == calls[c].claim
<1>1. /\ calls[c].place = "working" /\ HoldsLease(c) /\ versions' = versions \cup {c}
      /\ UNCHANGED <<now, published>>
  BY DEF Complete
<1>2. r # None /\ r \in Calls BY <1>1, CallFields DEF SavedInv, CallsFollowPlaces
<1>3. IsLive(r) /\ Settles(c, "complete") BY <1>1 DEF HoldsLease, IsLive, Settles, Complete
<1>4. /\ rows'[r].state = "complete"
      /\ \A q \in Calls : q # r => rows'[q] = rows[q]
      /\ \A q \in Calls : HasRow(q) => rows'[q].attempts = rows[q].attempts
  BY <1>2, <1>3, SettledRow
<1>5. \A d \in Calls : /\ calls'[d].payload = calls[d].payload
                       /\ calls'[d].claim = calls[d].claim
                       /\ calls'[d].start = calls[d].start
  <2>1. calls[c] \in CallStates BY CallFields DEF SavedInv
  <2>2. CASE calls' = [calls EXCEPT ![c] = [@ EXCEPT !.place = "done", !.result = c]]
    BY <2>1, <2>2 DEF SavedInv, UploadTypeOK, CallStates
  <2>3. CASE calls' = [calls EXCEPT ![c].place = "failed"]
    BY <2>1, <2>3 DEF SavedInv, UploadTypeOK, CallStates
  <2> QED BY <2>2, <2>3 DEF Complete
<1>6. \A q \in Calls : ~IsLive(q)'
  BY <1>1, <1>2, <1>3, <1>4 DEF IsLive, LimitsInv, OneLease
<1>7. OneLease' BY <1>6 DEF OneLease
<1>8. DraftsFit'
  <2>1. Busy BY <1>2, <1>3 DEF Busy, IsLive
  <2>2. ~Busy' BY <1>6 DEF Busy, IsLive
  <2>3. IsFiniteSet(NewDocuments) /\ Cardinality(NewDocuments) \in Nat
    BY CountedAreFinite DEF SavedInv
  <2>4. NewDocuments' \subseteq NewDocuments \cup {c}
    BY <1>1, <1>5 DEF NewDocuments, SavedInv, UploadTypeOK
  <2>5. /\ IsFiniteSet(NewDocuments \cup {c})
        /\ Cardinality(NewDocuments \cup {c}) <= Cardinality(NewDocuments) + 1
    <3>1. /\ IsFiniteSet(NewDocuments \cup {c})
          /\ Cardinality(NewDocuments \cup {c}) = IF c \in NewDocuments
               THEN Cardinality(NewDocuments) ELSE Cardinality(NewDocuments) + 1
      BY <2>3, FS_AddElement
    <3> QED BY <2>3, <3>1
  <2>6. /\ Cardinality(NewDocuments') <= Cardinality(NewDocuments \cup {c})
        /\ Cardinality(NewDocuments') \in Nat /\ Cardinality(NewDocuments \cup {c}) \in Nat
    BY <2>4, <2>5, FS_Subset, FS_CardinalityType
  <2> QED BY <2>1, <2>2, <2>3, <2>5, <2>6, UploadsAssumption DEF LimitsInv, DraftsFit
<1>9. CountsStay
  <2>1. \A d \in Recent : HasRow(calls[d].claim) /\ calls[d].claim \in Calls
    BY CallFields DEF SavedInv, ClaimsHaveRows, Recent
  <2>2. Recent' = Recent BY <1>1, <1>5 DEF Recent
  <2> QED BY <1>4, <1>5, <2>1, <2>2 DEF CountsStay, Recent
<1> QED BY <1>7, <1>8, <1>9, CountsKeep DEF LimitsInv, SavedInv

\* All other steps are quiet.
LEMMA OthersFit ==
  ASSUME SavedInv, LimitsInv, [UploadNext]_uploadVars,
         ~ \E c \in Calls : Reserve(c) \/ Complete(c)
  PROVE  LimitsInv'
<1> USE DEF SavedInv
<1>1. /\ now' \in Int /\ now \in Int /\ now <= now'
      /\ versions' = versions /\ published \subseteq published'
  <2>1. now \in Int BY DEF UploadTypeOK
  <2> USE <2>1
  <2>2. ASSUME NEW f \in Forms, FormStep(f) PROVE UNCHANGED <<now, versions, published>>
    BY <2>2 DEF FormStep, Changed, Save, Answer, StopWaiting
  <2>3. ASSUME NEW c \in Calls, CallStep(c), ~Reserve(c), ~Complete(c)
        PROVE  UNCHANGED <<now, versions, published>>
    BY <2>3 DEF CallStep, ReserveReuses, ReserveRefuses, Fail, Die
  <2>4. ASSUME NEW v \in Calls, Publish(v)
        PROVE  UNCHANGED <<now, versions>> /\ published \subseteq published'
    BY <2>4 DEF Publish
  <2>5. CASE Tick BY <2>5 DEF Tick
  <2>6. CASE Maintain \/ UNCHANGED uploadVars BY <2>6 DEF Maintain, uploadVars
  <2> QED BY <2>2, <2>3, <2>4, <2>5, <2>6 DEF UploadNext
<1>2. ASSUME NEW d \in Calls
      PROVE  /\ calls'[d].claim = calls[d].claim /\ calls'[d].start = calls[d].start
             /\ calls[d].place # "unsent" => calls'[d].payload = calls[d].payload
  <2>1. \A c \in Calls : calls[c] \in CallStates BY CallFields
  <2>2. CASE UNCHANGED calls BY <2>2
  <2>3. ASSUME NEW f \in Forms, NEW c \in Calls, NEW p \in Payloads, Save(f, c, p)
        PROVE  /\ calls'[d].claim = calls[d].claim /\ calls'[d].start = calls[d].start
               /\ calls[d].place # "unsent" => calls'[d].payload = calls[d].payload
    <3>1. CASE d = c BY <2>1, <2>3, <3>1
            DEF Save, NextCall, UploadTypeOK, CallsFollowPlaces, Unsent
    <3>2. CASE d # c BY <2>1, <2>3, <3>2 DEF Save, UploadTypeOK
    <3> QED BY <3>1, <3>2
  <2>4. ASSUME NEW c \in Calls, ReserveReuses(c) \/ ReserveRefuses(c) \/ Fail(c) \/ Die(c)
        PROVE  /\ calls'[d].claim = calls[d].claim /\ calls'[d].start = calls[d].start
               /\ calls[d].place # "unsent" => calls'[d].payload = calls[d].payload
    BY <2>1, <2>4 DEF ReserveReuses, ReserveRefuses, Fail, Die, UploadTypeOK, CallStates
  <2> QED BY <2>2, <2>3, <2>4
      DEF UploadNext, FormStep, CallStep, Changed, Answer, StopWaiting, Publish, Maintain, Tick,
          uploadVars
<1>3. \A r \in Calls : /\ IsLive(r)' => IsLive(r)
                       /\ HasRow(r) => rows'[r].attempts = rows[r].attempts
  <2>1. CASE UNCHANGED rows
    <3>1. \A r \in Calls : rows[r].state = "processing" => rows[r].until \in Int
      BY RowFields DEF RowStates
    <3> QED BY <1>1, <2>1, <3>1 DEF IsLive
  <2>2. ASSUME NEW c \in Calls, Fail(c), Settles(c, "failed")
        PROVE  \A r \in Calls : /\ IsLive(r)' => IsLive(r)
                                /\ HasRow(r) => rows'[r].attempts = rows[r].attempts
    <3>1. calls[c].claim # None BY <2>2 DEF Fail, CallsFollowPlaces
    <3>2. /\ rows'[calls[c].claim].state = "failed"
          /\ \A q \in Calls : q # calls[c].claim => rows'[q] = rows[q]
          /\ \A q \in Calls : HasRow(q) => rows'[q].attempts = rows[q].attempts
      BY <2>2, <3>1, SettledRow
    <3>3. UNCHANGED now BY <2>2 DEF Fail
    <3> QED BY <3>2, <3>3 DEF IsLive
  <2>3. ASSUME NEW c \in Calls, Fail(c), ~UNCHANGED rows PROVE Settles(c, "failed")
    BY <2>3 DEF Fail, Settles
  <2> QED BY <2>1, <2>2, <2>3
      DEF UploadNext, FormStep, CallStep, Changed, Save, Answer, StopWaiting, ReserveReuses,
          ReserveRefuses, Die, Publish, Maintain, Tick, uploadVars
<1>4. Quiet
  <2>1. \A v \in versions : v \in Calls /\ calls[v].place # "unsent"
    BY DEF UploadTypeOK, VersionsAreSingle, CallsFollowPlaces, Unsent
  <2> QED BY <1>1, <1>2, <1>3, <2>1 DEF Quiet, NewDocuments
<1>5. CountsStay
  <2>1. \A d \in Recent : HasRow(calls[d].claim) /\ calls[d].claim \in Calls
    BY CallFields DEF ClaimsHaveRows, Recent
  <2>2. Recent' \subseteq Recent
    <3>1. Hour \in Int /\ \A d \in Calls : calls[d].start \in Int BY UploadsAssumption, CallFields
    <3> QED BY <1>1, <1>2, <3>1 DEF Recent
  <2> QED BY <1>2, <1>3, <2>1, <2>2 DEF CountsStay, Recent
<1> QED BY <1>4, <1>5, QuietKeeps, CountsKeep DEF LimitsInv

\* Nothing is counted in the beginning.
LEMMA LimitsInitially == UploadInit => LimitsInv
<1> SUFFICES ASSUME UploadInit PROVE LimitsInv OBVIOUS
<1> USE UploadsAssumption
<1>1. OneLease BY DEF UploadInit, OneLease, IsLive, NoRow
<1>2. Recent = {} /\ NewDocuments = {}
  BY DEF UploadInit, Recent, NewDocuments, Unsent
<1>3. DraftsFit
  <2>1. ~Busy BY DEF UploadInit, Busy, NoRow
  <2> QED BY <1>2, <2>1, FS_EmptySet DEF DraftsFit
<1>4. AttemptsFit BY <1>2, FS_EmptySet DEF AttemptsFit
<1>5. AttemptsAreCounted
  <2>1. [c \in Calls |-> 1] \in [Calls -> 1 .. MaxAttempts] OBVIOUS
  <2> QED BY <1>2, <2>1 DEF AttemptsAreCounted, Numbers
<1> QED BY <1>1, <1>3, <1>4, <1>5 DEF LimitsInv

\* Attempts of one content have claimed one row, so their numbers differ.
LEMMA NumbersBound == SavedInv /\ LimitsInv => LimitsHold
<1> SUFFICES ASSUME SavedInv, LimitsInv PROVE LimitsHold OBVIOUS
<1>1. PICK num \in [Calls -> 1 .. MaxAttempts] : Numbers(num)
  BY DEF LimitsInv, AttemptsAreCounted
<1>2. IsFiniteSet(1 .. MaxAttempts) /\ Cardinality(1 .. MaxAttempts) = MaxAttempts
  BY FS_Interval, UploadsAssumption
<1>3. ASSUME NEW p \in Payloads
      PROVE  Cardinality({c \in Recent : calls[c].payload = p}) <= MaxAttempts
  <2> DEFINE S == {c \in Recent : calls[c].payload = p}
             f == [c \in S |-> num[c]]
  <2>1. \A c, d \in S : calls[c].claim = calls[d].claim
    <3> SUFFICES ASSUME NEW c \in S, NEW d \in S PROVE calls[c].claim = calls[d].claim OBVIOUS
    <3>1. /\ c \in Calls /\ calls[c].claim \in Calls /\ calls[c].claim # None
          /\ d \in Calls /\ calls[d].claim \in Calls /\ calls[d].claim # None
      BY CallFields DEF Recent, SavedInv
    <3>2. /\ HasRow(calls[c].claim) /\ rows[calls[c].claim].payload = p
          /\ HasRow(calls[d].claim) /\ rows[calls[d].claim].payload = p
      BY <3>1 DEF SavedInv, ClaimsHaveRows
    <3> QED BY <3>1, <3>2 DEF SavedInv, ContentsHaveOneRow
  <2>2. f \in [S -> 1 .. MaxAttempts] BY DEF Recent
  <2>3. \A c, d \in S : f[c] = f[d] => c = d BY <1>1, <2>1 DEF Numbers
  <2>4. f \in Injection(S, 1 .. MaxAttempts) BY <2>2, <2>3 DEF Injection, IsInjective
  <2> QED BY <1>2, <2>4, FS_Injection
<1> QED BY <1>3 DEF LimitsHold, LimitsInv, DraftsFit, AttemptsFit, Recent

\* Whatever overlaps, is retried, taken over or lost: an owner never starts more than
\* PerHour ingestions an hour or MaxAttempts of one content, and never owns more than
\* OwnedDrafts unpublished documents (uploads.ts:141-175).
THEOREM LimitsHoldAlways == UploadSpec => []LimitsHold
<1>1. SavedInv /\ LimitsInv /\ [UploadNext]_uploadVars => LimitsInv'
  BY ReserveFits, CompleteFits, OthersFit
<1> QED BY <1>1, LimitsInitially, NumbersBound, SavedInvariant, PTL DEF UploadSpec

==============================================================================
