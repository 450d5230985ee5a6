-------------------------- MODULE MCAdministration --------------------------
(* Small instances, for TLC, of the components that share nothing: each run   *)
(* of the specification below takes the steps of one of them and leaves the   *)
(* others as they start, so the state space is the sum of theirs, not the     *)
(* product. They share the values of their sets, which keeps the symmetry     *)
(* that TLC has to apply small.                                               *)
EXTENDS Accounts, Taxonomy, Labels, Architecture, ArchitectureIndex, Digests, TLC

CONSTANTS a1, a2, b1, b2, c1, c2, one, other

As   == {a1, a2}
Bs   == {b1, b2}
Cs   == {c1, c2}
AsBs == {a1, a2, b1, b2}
One  == {one}
Both == {one, other}
Pair == {<<one, other>>}

Symmetry == Permutations(As) \cup Permutations(Bs) \cup Permutations(Cs)

VARIABLE part  \* whose steps are taken

Parts == {"accounts", "taxonomy", "labels", "architecture", "index", "digests"}

Init == /\ part \in Parts
        /\ AccountsInit /\ TaxonomyInit /\ LabelsInit
        /\ ArchitectureInit /\ IndexInit /\ DigestsInit

Only(p) ==
  /\ part = p
  /\ p # "accounts"     => UNCHANGED accountsVars
  /\ p # "taxonomy"     => UNCHANGED taxonomyVars
  /\ p # "labels"       => UNCHANGED labelsVars
  /\ p # "architecture" => UNCHANGED architectureVars
  /\ p # "index"        => UNCHANGED indexVars
  /\ p # "digests"      => UNCHANGED digestsVars
  /\ UNCHANGED part

Next == \/ Only("accounts") /\ AccountsNext
        \/ Only("taxonomy") /\ TaxonomyNext
        \/ Only("labels") /\ LabelsNext
        \/ Only("architecture") /\ ArchitectureNext
        \/ Only("index") /\ IndexNext
        \/ Only("digests") /\ DigestsNext

AdministrationSpec ==
  Init /\ [][Next]_<<part, accountsVars, taxonomyVars, labelsVars, architectureVars, indexVars,
                     digestsVars>>

\* Each component keeps its types.
AdministrationTypeOK ==
  /\ part \in Parts
  /\ part = "accounts"     => AccountsTypeOK
  /\ part = "taxonomy"     => TaxonomyTypeOK
  /\ part = "labels"       => LabelsTypeOK
  /\ part = "architecture" => ArchitectureTypeOK
  /\ part = "index"        => IndexTypeOK
  /\ part = "digests"      => DigestsTypeOK
==============================================================================
