------------------------------- MODULE Labels -------------------------------
(* The labels of one category; none is ever merged across categories. A       *)
(* version carries the words it was approved with for ever, so a label that   *)
(* is merged stays as an alias of another one. Every change holds the same    *)
(* exclusive lock; a label is known here by its name.                         *)
CONSTANTS
  Names,   \* the words a label or a version may use
  NoName   \* SQL NULL

ASSUME LabelsAssumption == NoName \notin Names

VARIABLES
  vocabulary,  \* the names in app.labels
  into,        \* merged_into, for every name
  carried      \* the names that some version carries

labelsVars == <<vocabulary, into, carried>>

LabelsTypeOK ==
  /\ vocabulary \subseteq Names /\ carried \subseteq Names
  /\ into \in [Names -> Names \cup {NoName}]

LabelsInit == vocabulary = {} /\ carried = {} /\ into = [n \in Names |-> NoName]

AddLabel(n) ==
  /\ n \notin vocabulary
  /\ vocabulary' = vocabulary \cup {n}
  /\ UNCHANGED <<into, carried>>

\* The row keeps its id, so what was merged into it follows.
RenameLabel(n, m) ==
  /\ n \in vocabulary \ carried /\ m \notin vocabulary
  /\ vocabulary' = (vocabulary \ {n}) \cup {m}
  /\ into' = [x \in Names |-> IF x = m THEN into[n] ELSE IF x = n THEN NoName
                              ELSE IF into[x] = n THEN m ELSE into[x]]
  /\ UNCHANGED carried

\* Mutant: a label goes although others are merged into it.
AlwaysGoes(n) == TRUE

\* The foreign key of merged_into.
Receives(n) == \E x \in vocabulary : into[x] = n
MayGo(n)    == ~Receives(n)

RemoveLabel(n) ==
  /\ n \in vocabulary \ carried /\ MayGo(n)
  /\ vocabulary' = vocabulary \ {n}
  /\ into' = [into EXCEPT ![n] = NoName]
  /\ UNCHANGED carried

\* Mutant: only the target's own merge is looked at.
MergesIntoPlain(n, m) == into[m] = NoName

\* One level only: the target is not merged, the source receives no merges.
MayMerge(n, m) == into[m] = NoName /\ ~Receives(n)

MergeLabels(n, m) ==
  /\ n # m /\ {n, m} \subseteq vocabulary /\ MayMerge(n, m)
  /\ into' = [into EXCEPT ![n] = m]
  /\ UNCHANGED <<vocabulary, carried>>

\* A version is stored; its words need not be in the vocabulary.
Carry(n) == carried' = carried \cup {n} /\ UNCHANGED <<vocabulary, into>>

LabelsNext ==
  \/ \E n \in Names : AddLabel(n) \/ RemoveLabel(n) \/ Carry(n)
  \/ \E n, m \in Names : RenameLabel(n, m) \/ MergeLabels(n, m)

LabelsSpec == LabelsInit /\ [][LabelsNext]_labelsVars
------------------------------------------------------------------------------
\* What a name means needs one look: a merged label leads to one that exists and is
\* not merged itself, after any sequence of merges, renames and removals (merge_labels).
MergesAreOneLevel == \A n \in vocabulary :
  into[n] # NoName => into[n] \in vocabulary /\ into[into[n]] = NoName
==============================================================================
