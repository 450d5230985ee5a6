---------------------------- MODULE Architecture ----------------------------
(* The technology architecture of one category: elements and links imported   *)
(* from files. An import is proposed with the difference that the proposer    *)
(* was shown, and decided by somebody else, maybe after other imports.        *)
EXTENDS FiniteSets

CONSTANTS
  Elements,   \* the external ids of elements
  Links,      \* the pairs of elements an import may link
  Values,     \* what the fields of an element say, as one value
  Admins,
  Proposals,  \* bound: the imports in flight; a decided one makes room for the next
  NoElement   \* nothing

ASSUME ArchitectureAssumption ==
  /\ Links \subseteq {l \in Elements \X Elements : l[1] # l[2]}
  /\ NoElement \notin Values

VARIABLES
  model,      \* app.ta_elements
  links,      \* app.ta_relations
  changes,    \* the latest row of ta_element_changes of an element, if it is an update
  proposals   \* app.ta_imports, and the submissions that have read the model

architectureVars == <<model, links, changes, proposals>>

\* A file names some elements, each with its values, and some links.
Files == UNION {[elements : [S -> Values], links : SUBSET Links] : S \in SUBSET Elements \ {{}}}

ArchitectureTypeOK ==
  /\ model \in [Elements -> Values \cup {NoElement}]
  /\ links \subseteq Links
  /\ changes \in [Elements -> {NoElement} \cup [old : Values, new : Values]]
  /\ proposals \in [Proposals -> {NoElement} \cup
       [pending : BOOLEAN, by : Admins, file : Files,
        seen : [Elements -> Values \cup {NoElement}]]]

ArchitectureInit ==
  /\ model = [x \in Elements |-> NoElement]
  /\ links = {}
  /\ changes = [x \in Elements |-> NoElement]
  /\ proposals = [p \in Proposals |-> NoElement]

Proposed(p) == proposals[p] # NoElement /\ proposals[p].pending
------------------------------------------------------------------------------
\* The diff is read in a transaction of its own.
Read(p, a, file) ==
  /\ proposals[p] = NoElement
  /\ proposals' = [proposals EXCEPT ![p] =
       [pending |-> FALSE, by |-> a, file |-> file,
        seen |-> [x \in Elements |-> IF x \in DOMAIN file.elements THEN model[x] ELSE NoElement]]]
  /\ UNCHANGED <<model, links, changes>>

\* ta_submit_import, after the file is stored: one open proposal per file.
Submit(p) ==
  /\ proposals[p] # NoElement /\ ~proposals[p].pending
  /\ \A q \in Proposals : Proposed(q) => proposals[q].file # proposals[p].file
  /\ proposals' = [proposals EXCEPT ![p].pending = TRUE]
  /\ UNCHANGED <<model, links, changes>>

\* The request is refused, or the portal dies.
Abandon(p) ==
  /\ proposals[p] # NoElement /\ ~proposals[p].pending
  /\ proposals' = [proposals EXCEPT ![p] = NoElement]
  /\ UNCHANGED <<model, links, changes>>

\* Taken back by the proposer, or rejected by somebody else.
TurnDown(p) ==
  /\ Proposed(p)
  /\ proposals' = [proposals EXCEPT ![p] = NoElement]
  /\ UNCHANGED <<model, links, changes>>

\* Mutant: the change that was shown when the import was proposed is written down.
AsProposed(p, x) == proposals[p].seen[x]

\* The value that the history says was replaced: the one in force at the approval.
Replaced(p, x) == model[x]

\* A link may go only when the import names both of its ends.
WithinImport(file, l) == l[1] \in DOMAIN file.elements /\ l[2] \in DOMAIN file.elements

\* The history notes the fields that differ.
Noted(p, x) ==
  LET new == proposals[p].file.elements[x] IN
  IF model[x] = NoElement \/ Replaced(p, x) \in {NoElement, new} THEN changes[x]
  ELSE [old |-> Replaced(p, x), new |-> new]

\* ta_decide_import: the file against the model as it is now.
Approve(p, a) ==
  LET file == proposals[p].file
      new  == [x \in Elements |->
                IF x \in DOMAIN file.elements THEN file.elements[x] ELSE model[x]]
  IN
  /\ Proposed(p) /\ proposals[p].by # a
  /\ model' = new
  /\ changes' = [x \in Elements |->
       IF x \in DOMAIN file.elements THEN Noted(p, x) ELSE changes[x]]
  /\ links' = {l \in links : ~WithinImport(file, l)}
              \cup {l \in file.links : new[l[1]] # NoElement /\ new[l[2]] # NoElement}
  /\ proposals' = [proposals EXCEPT ![p] = NoElement]

ArchitectureNext ==
  \/ \E p \in Proposals, a \in Admins, file \in Files : Read(p, a, file)
  \/ \E p \in Proposals : Submit(p) \/ Abandon(p) \/ TurnDown(p)
  \/ \E p \in Proposals, a \in Admins : Approve(p, a)

ArchitectureSpec == ArchitectureInit /\ [][ArchitectureNext]_architectureVars
------------------------------------------------------------------------------
\* The history explains the model: every change of an element is noted with the value
\* it really replaced, whatever was applied since the import was proposed
\* (ta_decide_import computes the difference again).
HistoryExplainsModel ==
  [][\A x \in Elements : model[x] # NoElement /\ model'[x] # model[x] =>
       changes'[x] = [old |-> model[x], new |-> model'[x]]]_architectureVars
==============================================================================
