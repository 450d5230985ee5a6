-------------------------- MODULE DocumentLifecycle --------------------------
(***************************************************************************)
(* What IntraDocs promises about a document, without reviewers, queues,     *)
(* leases or workers: versions are numbered upwards and never reused; each  *)
(* is opened, judged once and never judged again; only an approval that has *)
(* not been called off can bring a version to the readers; the version the  *)
(* readers get only moves forward; and a retired document gets no further   *)
(* version, verdict or publication.                                         *)
(*                                                                          *)
(* This module models no code: ReviewPublication is shown to implement it.  *)
(***************************************************************************)
EXTENDS Naturals

CONSTANT MaxVersions

VARIABLES
  stage,     \* what became of each version
  live,      \* the version readers are given, 0 before the first one
  retired    \* the document was withdrawn

Versions == 1..MaxVersions
Stages   == {"absent", "open", "closed", "approved", "called_off"}

Init ==
  /\ stage = [v \in Versions |-> IF v = 1 THEN "open" ELSE "absent"]
  /\ live = 0
  /\ retired = FALSE

\* Opening the next version may call off the one it replaces, but never the
\* version that is live.
Open(v) ==
  /\ ~retired
  /\ stage[v] = "absent"
  /\ \A n \in Versions : n < v => stage[n] # "absent"
  /\ \E base \in Versions \cup {0} :
       /\ base # 0 => base = v - 1 /\ base # live /\ stage[base] \in {"open", "approved"}
       /\ stage' = [n \in Versions |-> IF n = v THEN "open"
                                       ELSE IF n = base THEN "called_off" ELSE stage[n]]
  /\ UNCHANGED <<live, retired>>

Judge(v, verdict) ==
  /\ ~retired
  /\ stage[v] = "open"
  /\ stage' = [stage EXCEPT ![v] = verdict]
  /\ UNCHANGED <<live, retired>>

GoLive(v) ==
  /\ ~retired
  /\ stage[v] = "approved"
  /\ v > live
  /\ \A n \in Versions : n > v => stage[n] # "approved"
  /\ live' = v
  /\ UNCHANGED <<stage, retired>>

\* Reviews under way end with the document.
Retire ==
  /\ ~retired
  /\ retired' = TRUE
  /\ \E pending \in SUBSET {v \in Versions : stage[v] = "open"} :
       stage' = [v \in Versions |-> IF v \in pending THEN "called_off" ELSE stage[v]]
  /\ UNCHANGED live

Next ==
  \/ \E v \in Versions :
       Open(v) \/ GoLive(v) \/ \E verdict \in {"approved", "closed"} : Judge(v, verdict)
  \/ Retire

Spec == Init /\ [][Next]_<<stage, live, retired>>
=============================================================================
