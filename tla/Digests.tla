------------------------------- MODULE Digests -------------------------------
(* Email digests: the worker claims the unsent notifications of one person,   *)
(* sends them in one mail and settles them. Nothing marks what is claimed, no *)
(* transaction spans the mail, and the relay may take a mail and report an    *)
(* error. Whose turn it is, and the order in which notifications age, are     *)
(* left open.                                                                 *)
EXTENDS Integers, FiniteSets

CONSTANTS
  Notices,      \* the rows of app.notifications
  People,
  Mailers,      \* the worker processes
  MaxAttempts,  \* the failed digests after which a notice is given up
  MaxLost,      \* bound: the digests that end without being settled
  NoNotice      \* no such row

ASSUME DigestsAssumption ==
  /\ IsFiniteSet(Mailers) /\ NoNotice \notin Notices
  /\ MaxAttempts \in Nat \ {0} /\ MaxLost \in Nat
  \* a row is something else than none
  /\ NoNotice \notin [person : People, age : {"fresh", "ripe", "stale"}, emailed : BOOLEAN,
                      attempts : 0 .. MaxAttempts + Cardinality(Mailers)]

VARIABLES
  notices,  \* app.notifications
  wanting,  \* the active people whose switch is on
  digests,  \* what each worker is sending
  mailed,   \* how often the relay took each notice
  retired,  \* the notices that were retired for their age
  lost      \* the digests of each notice that ended without being settled

digestsVars == <<notices, wanting, digests, mailed, retired, lost>>

Ages     == {"fresh", "ripe", "stale"}
NoDigest == [step |-> "none", items |-> {}]

DigestsTypeOK ==
  /\ notices \in [Notices -> {NoNotice} \cup
       [person : People, age : Ages, emailed : BOOLEAN,
        attempts : 0 .. MaxAttempts + Cardinality(Mailers)]]
  /\ wanting \subseteq People /\ retired \subseteq Notices
  /\ digests \in [Mailers -> [step : {"none", "send", "sent", "failed"}, items : SUBSET Notices]]
  /\ mailed \in [Notices -> Nat] /\ lost \in [Notices -> 0 .. MaxLost]

DigestsInit ==
  /\ notices = [n \in Notices |-> NoNotice] /\ wanting = People
  /\ digests = [w \in Mailers |-> NoDigest]
  /\ mailed = [n \in Notices |-> 0] /\ retired = {} /\ lost = [n \in Notices |-> 0]

Unsent    == {n \in Notices : notices[n] # NoNotice /\ ~notices[n].emailed}
UnsentOf(p) == {n \in Unsent : notices[n].person = p}

Marked(S) == [n \in Notices |-> IF n \in S THEN [notices[n] EXCEPT !.emailed = TRUE]
                                ELSE notices[n]]
------------------------------------------------------------------------------
\* The workflow tells a person something.
Notify(n, p) ==
  /\ notices[n] = NoNotice
  /\ notices' = [notices EXCEPT ![n] =
       [person |-> p, age |-> "fresh", emailed |-> FALSE, attempts |-> 0]]
  /\ UNCHANGED <<wanting, digests, mailed, retired, lost>>

\* Two minutes pass, and days.
GrowOlder(n) ==
  /\ n \in Unsent /\ notices[n].age # "stale"
  /\ notices' = [notices EXCEPT ![n].age = IF @ = "fresh" THEN "ripe" ELSE "stale"]
  /\ UNCHANGED <<wanting, digests, mailed, retired, lost>>

\* set_email_notifications, or the account is deactivated or activated.
Switch(p) ==
  /\ wanting' = IF p \in wanting THEN wanting \ {p} ELSE wanting \cup {p}
  /\ UNCHANGED <<notices, digests, mailed, retired, lost>>

\* Mutant: nothing is given up.
NeverGivenUp(n) == FALSE

GivenUp(n) == notices[n].attempts >= MaxAttempts

\* claim_email_digest: gives up what has failed too often, then hands out everything
\* unsent of a person whose newest notice has settled.
Claim(w, p) ==
  LET dropped == {n \in Unsent : GivenUp(n)}
      items   == UnsentOf(p) \ dropped
  IN
  /\ digests[w].step = "none"
  /\ p \in wanting /\ items # {} /\ \A n \in items : notices[n].age # "fresh"
  /\ notices' = Marked(dropped)
  /\ digests' = [digests EXCEPT ![w] = [step |-> "send", items |-> items]]
  /\ UNCHANGED <<wanting, mailed, retired, lost>>

\* The same call when nobody is due.
GiveUp ==
  LET dropped == {n \in Unsent : GivenUp(n)} IN
  /\ \A p \in wanting : UnsentOf(p) \ dropped = {}
                        \/ \E n \in UnsentOf(p) \ dropped : notices[n].age = "fresh"
  /\ notices' = Marked(dropped)
  /\ UNCHANGED <<wanting, digests, mailed, retired, lost>>

\* The relay takes the mail; the call may raise an error all the same.
Send(w, step) ==
  /\ digests[w].step = "send" /\ step \in {"sent", "failed"}
  /\ mailed' = [n \in Notices |-> IF n \in digests[w].items THEN mailed[n] + 1 ELSE mailed[n]]
  /\ digests' = [digests EXCEPT ![w].step = step]
  /\ UNCHANGED <<notices, wanting, retired, lost>>

\* Mutant: everything of these people is settled, not what was mailed.
AllOfThem(w) == {n \in Unsent : \E m \in digests[w].items : notices[m].person = notices[n].person}

\* The rows a digest settles: the ids that were handed out, if still unsent.
Settled(w) == digests[w].items \cap Unsent

\* settle_email_digest(ids, true).
SettleSent(w) ==
  /\ digests[w].step = "sent"
  /\ notices' = Marked(Settled(w))
  /\ digests' = [digests EXCEPT ![w] = NoDigest]
  /\ UNCHANGED <<wanting, mailed, retired, lost>>

\* The relay refuses, or settle_email_digest(ids, true) fails after it took the mail.
Fail(w) ==
  /\ digests[w].step \in {"send", "sent"}
  /\ digests' = [digests EXCEPT ![w].step = "failed"]
  /\ UNCHANGED <<notices, wanting, mailed, retired, lost>>

\* settle_email_digest(ids, false); the round ends.
SettleFailed(w) ==
  /\ digests[w].step = "failed"
  /\ notices' = [n \in Notices |-> IF n \in Settled(w)
                   THEN [notices[n] EXCEPT !.attempts = @ + 1] ELSE notices[n]]
  /\ digests' = [digests EXCEPT ![w] = NoDigest]
  /\ UNCHANGED <<wanting, mailed, retired, lost>>

\* The worker dies, or that second settlement fails too.
Lose(w) ==
  /\ digests[w].step # "none" /\ \A n \in digests[w].items : lost[n] < MaxLost
  /\ lost' = [n \in Notices |-> IF n \in digests[w].items THEN lost[n] + 1 ELSE lost[n]]
  /\ digests' = [digests EXCEPT ![w] = NoDigest]
  /\ UNCHANGED <<notices, wanting, mailed, retired>>

\* retire_stale_email, whoever the notice is for.
Retire ==
  LET old == {n \in Unsent : notices[n].age = "stale"} IN
  /\ old # {}
  /\ notices' = Marked(old) /\ retired' = retired \cup old
  /\ UNCHANGED <<wanting, digests, mailed, lost>>

DigestsNext ==
  \/ \E n \in Notices, p \in People : Notify(n, p)
  \/ \E n \in Notices : GrowOlder(n)
  \/ \E p \in People : Switch(p)
  \/ \E w \in Mailers, p \in People : Claim(w, p)
  \/ \E w \in Mailers, step \in {"sent", "failed"} : Send(w, step)
  \/ \E w \in Mailers : SettleSent(w) \/ Fail(w) \/ SettleFailed(w) \/ Lose(w)
  \/ GiveUp \/ Retire

DigestsSpec == DigestsInit /\ [][DigestsNext]_digestsVars
------------------------------------------------------------------------------
\* A notice is never marked as mailed without a mail, unless it was given up after
\* failing too often or retired for its age; and however the relay, the settlements and
\* the workers fail, a notice is mailed no oftener than its attempts, the digests that
\* were lost and the workers holding it beside one another account for
\* (processEmailDigests, settle_email_digest).
MailsAreAccountedFor == \A n \in Notices : notices[n] # NoNotice =>
  /\ notices[n].emailed => mailed[n] > 0 \/ n \in retired \/ GivenUp(n)
  /\ mailed[n] <= MaxAttempts + lost[n] + Cardinality(Mailers) - 1
==============================================================================
