----------------------------- MODULE CatalogueProofs -----------------------------
(* Proofs about what documents are filed under and what they describe.        *)
(*                                                                            *)
(* The tree of categories stays whole whatever edits and uploads race in it,  *)
(* and a document loses no reader to an edit: a category keeps its path while *)
(* documents hang under it, and its floor only rises. One look is enough to   *)
(* know what a label means: a merge is refused when it would make a chain, a  *)
(* removal when it would leave one hanging. The history of the architecture   *)
(* explains the model, for any set of imports and any order of decisions, and *)
(* its search index is right once it is settled, for any number of elements   *)
(* and any limit of a pass.                                                   *)
EXTENDS Taxonomy, Labels, Architecture, ArchitectureIndex, FiniteSetTheorems, TLAPS

------------------------------------------------------------------------------
(* The tree. Parents, paths and floors are stated of a tree t, so that they   *)
(* can be used of the tree before and after a step.                           *)

Trees == [Categories -> {NoCategory} \cup
            [parent : Categories \cup {NoCategory}, floor : Ranks]]

\* A category that is there, and what it hangs under.
In(t, c) == c \in Categories /\ t[c] # NoCategory
Up(t, c) == t[c].parent

\* Three steps up from anywhere lead out of the tree.
Forest(t) == \A c \in Categories : In(t, c) =>
  \/ Up(t, c) = NoCategory
  \/ /\ In(t, Up(t, c))
     /\ \/ Up(t, Up(t, c)) = NoCategory
        \/ In(t, Up(t, Up(t, c))) /\ Up(t, Up(t, Up(t, c))) = NoCategory

\* A category and those above it; how deep it is.
Path(t, c) ==
  {c} \cup (IF Up(t, c) = NoCategory THEN {}
            ELSE {Up(t, c)} \cup (IF Up(t, Up(t, c)) = NoCategory THEN {}
                                  ELSE {Up(t, Up(t, c))}))

Depth(t, c) == IF Up(t, c) = NoCategory THEN 1
               ELSE IF Up(t, Up(t, c)) = NoCategory THEN 2 ELSE 3

\* The text of WithParents and Branch, of a given tree.
WithParentsIn(t, S) == S \cup ({t[d].parent : d \in S} \ {NoCategory})
BranchIn(t, c) == WithParentsIn(t, WithParentsIn(t, WithParentsIn(t, {c})))

\* What is on a path, and that it never comes back to where it began.
LEMMA PathFacts ==
  ASSUME NEW t \in Trees, Forest(t), NEW c, In(t, c)
  PROVE  /\ Path(t, c) \subseteq Categories /\ c \in Path(t, c)
         /\ \A d \in Path(t, c) : In(t, d)
         /\ Up(t, c) # NoCategory => /\ In(t, Up(t, c)) /\ c \notin Path(t, Up(t, c))
                                     /\ Path(t, c) = {c} \cup Path(t, Up(t, c))
                                     /\ Depth(t, c) = 1 + Depth(t, Up(t, c))
         /\ \A d \in Path(t, c) : Up(t, d) # NoCategory => Up(t, d) \in Path(t, c)
<1> USE TaxonomyAssumption DEF In
<1>1. Up(t, c) \in Categories \cup {NoCategory} BY DEF Trees, Up
<1>2. CASE Up(t, c) = NoCategory BY <1>2 DEF Path
<1>3. CASE Up(t, c) # NoCategory
  <2>1. PICK p \in Categories : p = Up(t, c) BY <1>1, <1>3
  <2>2. In(t, p) /\ Up(t, p) \in Categories \cup {NoCategory} BY <1>3, <2>1 DEF Forest, Trees, Up
  <2>3. CASE Up(t, p) = NoCategory
    <3>1. Path(t, c) = {c, p} /\ Path(t, p) = {p} /\ c # p BY <1>3, <2>1, <2>3 DEF Path
    <3> QED BY <1>3, <2>1, <2>2, <2>3, <3>1 DEF Depth
  <2>4. CASE Up(t, p) # NoCategory
    <3>1. PICK q \in Categories : q = Up(t, p) BY <2>2, <2>4
    <3>2. In(t, q) /\ Up(t, q) = NoCategory BY <1>3, <2>1, <2>4, <3>1 DEF Forest
    <3>3. Path(t, c) = {c, p, q} /\ Path(t, p) = {p, q} /\ c # p /\ c # q
      BY <1>3, <2>1, <2>4, <3>1, <3>2 DEF Path
    <3> QED BY <1>3, <2>1, <2>2, <2>4, <3>1, <3>2, <3>3 DEF Depth
  <2> QED BY <2>3, <2>4
<1> QED BY <1>2, <1>3

\* A path has as many categories as levels.
LEMMA PathSize ==
  ASSUME NEW t \in Trees, Forest(t), NEW c, In(t, c)
  PROVE  Cardinality(Path(t, c)) = Depth(t, c)
<1>1. ASSUME NEW d, In(t, d), Up(t, d) = NoCategory
      PROVE  IsFiniteSet(Path(t, d)) /\ Cardinality(Path(t, d)) = 1 /\ Depth(t, d) = 1
  <2>1. Path(t, d) = {d} BY <1>1 DEF Path
  <2> QED BY <1>1, <2>1, FS_Singleton DEF Depth
<1>2. ASSUME NEW d, In(t, d), Up(t, d) # NoCategory, IsFiniteSet(Path(t, Up(t, d))),
             Cardinality(Path(t, Up(t, d))) = Depth(t, Up(t, d))
      PROVE  IsFiniteSet(Path(t, d)) /\ Cardinality(Path(t, d)) = Depth(t, d)
  <2>1. /\ Path(t, d) = Path(t, Up(t, d)) \cup {d} /\ d \notin Path(t, Up(t, d))
        /\ Depth(t, d) = 1 + Depth(t, Up(t, d)) /\ Depth(t, Up(t, d)) \in Nat
    BY <1>2, PathFacts DEF Depth
  <2>2. /\ IsFiniteSet(Path(t, Up(t, d)) \cup {d})
        /\ Cardinality(Path(t, Up(t, d)) \cup {d}) =
             IF d \in Path(t, Up(t, d)) THEN Cardinality(Path(t, Up(t, d)))
             ELSE Cardinality(Path(t, Up(t, d))) + 1
    BY <1>2, FS_AddElement
  <2> QED BY <1>2, <2>1, <2>2
<1>3. CASE Up(t, c) = NoCategory BY <1>1, <1>3
<1>4. CASE Up(t, c) # NoCategory
  <2>1. In(t, Up(t, c)) BY <1>4, PathFacts
  <2>2. CASE Up(t, Up(t, c)) = NoCategory BY <1>1, <1>2, <1>4, <2>1, <2>2
  <2>3. CASE Up(t, Up(t, c)) # NoCategory
    <3>1. In(t, Up(t, Up(t, c))) /\ Up(t, Up(t, Up(t, c))) = NoCategory
      BY <1>4, <2>3 DEF Forest, In
    <3> QED BY <1>1, <1>2, <1>4, <2>1, <2>3, <3>1
  <2> QED BY <2>2, <2>3
<1> QED BY <1>3, <1>4

\* The branch of a category is its path.
LEMMA BranchIsPath ==
  ASSUME NEW t \in Trees, Forest(t), NEW c, In(t, c)
  PROVE  BranchIn(t, c) = Path(t, c)
<1> USE TaxonomyAssumption
<1>1. Up(t, c) \in Categories \cup {NoCategory} BY DEF Trees, Up, In
<1>2. CASE Up(t, c) = NoCategory BY <1>2 DEF Path, Up, BranchIn, WithParentsIn
<1>3. CASE Up(t, c) # NoCategory
  <2>1. PICK p \in Categories : p = Up(t, c) BY <1>1, <1>3
  <2>2. In(t, p) /\ Up(t, p) \in Categories \cup {NoCategory}
    BY <1>3, <2>1 DEF Forest, Trees, Up, In
  <2>3. WithParentsIn(t, {c}) = {c, p} BY <1>3, <2>1 DEF Up, WithParentsIn
  <2>4. CASE Up(t, p) = NoCategory
    <3>1. WithParentsIn(t, {c, p}) = {c, p} BY <1>3, <2>1, <2>4 DEF Up, WithParentsIn
    <3> QED BY <1>3, <2>1, <2>3, <2>4, <3>1 DEF Path, BranchIn
  <2>5. CASE Up(t, p) # NoCategory
    <3>1. PICK q \in Categories : q = Up(t, p) BY <2>2, <2>5
    <3>2. Up(t, q) = NoCategory BY <1>3, <2>1, <2>5, <3>1 DEF Forest, In
    <3>3. WithParentsIn(t, {c, p}) = {c, p, q}
      BY <1>3, <2>1, <2>5, <3>1 DEF Up, WithParentsIn
    <3>4. WithParentsIn(t, {c, p, q}) = {c, p, q}
      BY <1>3, <2>1, <2>5, <3>1, <3>2 DEF Up, WithParentsIn
    <3> QED BY <1>3, <2>1, <2>3, <2>5, <3>1, <3>3, <3>4 DEF Path, BranchIn
  <2> QED BY <2>4, <2>5
<1> QED BY <1>2, <1>3

\* The strictest floor on a path.
FloorOf(t, S) == CHOOSE f \in Ranks : /\ \E d \in S : t[d].floor = f
                                      /\ \A d \in S : t[d].floor <= f

\* It exists, because floors are numbers up to the highest.
LEMMA FloorExists ==
  ASSUME NEW t \in Trees, Forest(t), NEW c, In(t, c)
  PROVE  /\ FloorOf(t, Path(t, c)) \in Ranks
         /\ \E d \in Path(t, c) : t[d].floor = FloorOf(t, Path(t, c))
         /\ \A d \in Path(t, c) : t[d].floor <= FloorOf(t, Path(t, c))
<1> DEFINE Strictest(S, f) == (\E d \in S : t[d].floor = f) /\ (\A d \in S : t[d].floor <= f)
<1>1. \A d \in Categories : In(t, d) => t[d].floor \in Ranks BY DEF Trees, In
<1>2. Ranks \subseteq Int BY TaxonomyAssumption DEF Ranks
<1>3. ASSUME NEW d, In(t, d), Up(t, d) = NoCategory PROVE \E f \in Ranks : Strictest(Path(t, d), f)
  BY <1>1, <1>2, <1>3 DEF Path, In
<1>4. ASSUME NEW d, In(t, d), Up(t, d) # NoCategory,
             \E f \in Ranks : Strictest(Path(t, Up(t, d)), f)
      PROVE  \E f \in Ranks : Strictest(Path(t, d), f)
  <2>1. PICK f \in Ranks : Strictest(Path(t, Up(t, d)), f) BY <1>4
  <2>2. Path(t, d) = {d} \cup Path(t, Up(t, d)) BY <1>4, PathFacts
  <2>3. t[d].floor \in Ranks BY <1>1, <1>4 DEF In
  <2>4. PICK g \in Ranks : g = t[d].floor BY <2>3
  <2>5. \A e \in Path(t, Up(t, d)) : t[e].floor \in Ranks
    BY <1>1, <1>4, PathFacts DEF In
  <2>6. f \in Int /\ g \in Int BY <1>2
  <2>7. CASE g <= f BY <2>1, <2>2, <2>4, <2>7
  <2>8. CASE f < g
    <3>1. \A e \in Path(t, Up(t, d)) : t[e].floor <= g
      <4> SUFFICES ASSUME NEW e \in Path(t, Up(t, d)) PROVE t[e].floor <= g OBVIOUS
      <4>1. t[e].floor <= f /\ t[e].floor \in Int BY <1>2, <2>1, <2>5
      <4> QED BY <2>6, <2>8, <4>1
    <3>2. Strictest(Path(t, d), g) BY <2>2, <2>4, <2>6, <3>1
    <3> QED BY <3>2
  <2> HIDE DEF Strictest
  <2> QED BY <2>6, <2>7, <2>8
<1>5. \E f \in Ranks : Strictest(Path(t, c), f)
  <2>1. CASE Up(t, c) = NoCategory BY <1>3, <2>1
  <2>2. CASE Up(t, c) # NoCategory
    <3>1. In(t, Up(t, c)) BY <2>2, PathFacts
    <3>2. CASE Up(t, Up(t, c)) = NoCategory BY <1>3, <1>4, <2>2, <3>1, <3>2
    <3>3. CASE Up(t, Up(t, c)) # NoCategory
      <4>1. In(t, Up(t, Up(t, c))) /\ Up(t, Up(t, Up(t, c))) = NoCategory
        BY <2>2, <3>3 DEF Forest, In
      <4> QED BY <1>3, <1>4, <2>2, <3>1, <3>3, <4>1
    <3> QED BY <3>2, <3>3
  <2> QED BY <2>1, <2>2
<1> QED BY <1>5 DEF FloorOf

------------------------------------------------------------------------------
(* The invariant. *)

\* Whatever has documents, stored or on the way, exists; documents hang on leaves.
DocumentsHangOnLeaves ==
  /\ \A c \in Categories : Requested(c) => Exists(c)
  /\ \A c \in Categories : HoldsDocuments(c) => Children(c) = {}

TaxonomyInv == TaxonomyTypeOK /\ Forest(categories) /\ DocumentsHangOnLeaves

\* The operators of the model, of the present tree.
LEMMA OfTheTree ==
  ASSUME TaxonomyInv
  PROVE  /\ categories \in Trees
         /\ \A c : Exists(c) <=> In(categories, c)
         /\ \A c : Exists(c) => Branch(c) = Path(categories, c)
         /\ \A c : Exists(c) => EffectiveFloor(c) = FloorOf(categories, Path(categories, c))
<1>1. categories \in Trees /\ Forest(categories) BY DEF TaxonomyInv, TaxonomyTypeOK, Trees
<1>2. \A c : Exists(c) <=> In(categories, c) BY DEF Exists, In
<1>3. \A c : Exists(c) => Branch(c) = Path(categories, c)
  <2> SUFFICES ASSUME NEW c, Exists(c) PROVE Branch(c) = Path(categories, c) OBVIOUS
  <2>1. Branch(c) = BranchIn(categories, c) BY DEF Branch, BranchIn, WithParents, WithParentsIn
  <2> QED BY <1>1, <1>2, <2>1, BranchIsPath
<1>4. \A c : Exists(c) => EffectiveFloor(c) = FloorOf(categories, Path(categories, c))
  BY <1>3 DEF EffectiveFloor, FloorOf
<1> QED BY <1>1, <1>2, <1>3, <1>4

\* The same after a step.
LEMMA OfTheNextTree ==
  ASSUME TaxonomyInv'
  PROVE  /\ categories' \in Trees
         /\ \A c : Exists(c)' <=> In(categories', c)
         /\ \A c : Exists(c)' => Branch(c)' = Path(categories', c)
         /\ \A c : Exists(c)' => EffectiveFloor(c)' = FloorOf(categories', Path(categories', c))
<1>1. categories' \in Trees /\ Forest(categories') BY DEF TaxonomyInv, TaxonomyTypeOK, Trees
<1>2. \A c : Exists(c)' <=> In(categories', c) BY DEF Exists, In
<1>3. \A c : Exists(c)' => Branch(c)' = Path(categories', c)
  <2> SUFFICES ASSUME NEW c, Exists(c)' PROVE Branch(c)' = Path(categories', c) OBVIOUS
  <2>1. Branch(c)' = BranchIn(categories', c) BY DEF Branch, BranchIn, WithParents, WithParentsIn
  <2> QED BY <1>1, <1>2, <2>1, BranchIsPath
<1>4. \A c : Exists(c)' => EffectiveFloor(c)' = FloorOf(categories', Path(categories', c))
  BY <1>3 DEF EffectiveFloor, FloorOf
<1> QED BY <1>1, <1>2, <1>3, <1>4

\* The invariant says what the tree must be: no category is below itself, no branch has
\* more levels than there may be.
LEMMA InvIsWhole == TaxonomyInv => TreeStaysWhole
<1> SUFFICES ASSUME TaxonomyInv PROVE TreeStaysWhole OBVIOUS
<1>1. Forest(categories) BY DEF TaxonomyInv
<1>2. ASSUME NEW c \in Tree
      PROVE  /\ categories[c].parent # NoCategory =>
                  Exists(categories[c].parent) /\ c \notin Branch(categories[c].parent)
             /\ Cardinality(Branch(c)) <= MaxLevels
  <2>1. Exists(c) /\ In(categories, c) BY OfTheTree DEF Tree
  <2>2. categories[c].parent = Up(categories, c) BY DEF Up
  <2>3. Cardinality(Branch(c)) = Depth(categories, c) BY <1>1, <2>1, OfTheTree, PathSize
  <2>4. Depth(categories, c) <= MaxLevels BY DEF Depth, MaxLevels
  <2> QED BY <1>1, <2>1, <2>2, <2>3, <2>4, OfTheTree, PathFacts
<1>3. \A c \in Categories : HoldsDocuments(c) => Exists(c) /\ Children(c) = {}
  BY DEF TaxonomyInv, DocumentsHangOnLeaves, HoldsDocuments, Stored, Requested
<1> QED BY <1>2, <1>3 DEF TreeStaysWhole

------------------------------------------------------------------------------
(* The steps. *)

\* An empty tree.
LEMMA TaxonomyInitially == TaxonomyInit => TaxonomyInv
BY DEF TaxonomyInit, TaxonomyInv, TaxonomyTypeOK, Forest, In, DocumentsHangOnLeaves, Requested,
       HoldsDocuments, Stored

\* A category is written: nobody was below it, or it stays within its levels.
LEMMA WritingKeepsForest ==
  ASSUME TaxonomyInv, NEW c \in Categories, NEW parent \in Categories \cup {NoCategory},
         NEW floor \in Ranks, MayHang(c, parent),
         categories' = [categories EXCEPT ![c] = [parent |-> parent, floor |-> floor]]
  PROVE  /\ categories' \in Trees /\ Forest(categories')
         /\ Up(categories', c) = parent /\ In(categories', c)
         /\ \A d \in Categories : d # c => categories'[d] = categories[d]
<1> USE TaxonomyAssumption
<1> DEFINE t == categories
           u == categories'
<1>1. t \in Trees /\ Forest(t) BY OfTheTree DEF TaxonomyInv
<1>2. /\ u \in Trees /\ Up(u, c) = parent /\ In(u, c)
      /\ \A d \in Categories : d # c => u[d] = t[d]
  <2> DEFINE new == [parent |-> parent, floor |-> floor]
  <2>1. new \in [parent : Categories \cup {NoCategory}, floor : Ranks] /\ new.parent = parent
    OBVIOUS
  <2>2. u = [t EXCEPT ![c] = new] OBVIOUS
  <2>3. new # NoCategory BY <2>1 DEF Ranks
  <2> HIDE DEF new, t, u
  <2> QED BY <1>1, <2>1, <2>2, <2>3 DEF Trees, Up, In
<1>3. \A d \in Categories : d # c => Up(u, d) = Up(t, d) /\ (In(u, d) <=> In(t, d))
  BY <1>2 DEF Up, In
<1>4. \A d \in Categories : In(t, d) => Up(t, d) \in Categories \cup {NoCategory}
  BY <1>1 DEF Trees, Up, In
<1>5. parent # c /\ (parent # NoCategory => In(t, parent) /\ c \notin Path(t, parent))
  BY OfTheTree DEF MayHang
<1>6. Levels(c) \in 1 .. 3 BY DEF Levels, MaxLevels
<1>7. parent # NoCategory => Depth(t, parent) + Levels(c) <= 3
  BY <1>1, <1>5, OfTheTree, PathSize DEF MayHang, MaxLevels
<1>8. ASSUME NEW d \in Categories, In(t, d), Up(t, d) = c
      PROVE  /\ Levels(c) # 1
             /\ (\E e \in Categories : In(t, e) /\ Up(t, e) = d) => Levels(c) = 3
  BY <1>8 DEF Levels, Children, Tree, Exists, In, Up, MaxLevels
<1> HIDE DEF t, u
<1>9. ASSUME NEW d \in Categories, In(u, d)
      PROVE  \/ Up(u, d) = NoCategory
             \/ /\ In(u, Up(u, d))
                /\ \/ Up(u, Up(u, d)) = NoCategory
                   \/ In(u, Up(u, Up(u, d))) /\ Up(u, Up(u, Up(u, d))) = NoCategory
  <2>1. CASE d = c
    <3>1. CASE parent = NoCategory BY <1>2, <2>1, <3>1
    <3>2. CASE parent # NoCategory
      <4>1. /\ In(t, parent) /\ parent \in Categories /\ In(u, parent)
            /\ Up(u, parent) = Up(t, parent)
        BY <1>3, <1>5, <3>2 DEF In
      <4>2. Depth(t, parent) <= 2 BY <1>6, <1>7, <3>2 DEF Depth
      <4>3. CASE Up(t, parent) = NoCategory BY <1>2, <2>1, <4>1, <4>3
      <4>4. CASE Up(t, parent) # NoCategory
        <5>1. /\ In(t, Up(t, parent)) /\ Up(t, parent) \in Categories /\ Up(t, parent) # c
          BY <1>1, <1>5, <3>2, <4>1, <4>4, PathFacts DEF In
        <5>2. Up(t, Up(t, parent)) = NoCategory BY <4>2, <4>4 DEF Depth
        <5> QED BY <1>2, <1>3, <2>1, <4>1, <5>1, <5>2
      <4> QED BY <4>3, <4>4
    <3> QED BY <3>1, <3>2
  <2>2. CASE d # c /\ Up(t, d) = c
    <3>1. In(t, d) /\ Up(u, d) = c /\ Levels(c) # 1 BY <1>3, <1>8, <1>9, <2>2
    <3>2. CASE parent = NoCategory BY <1>2, <3>1, <3>2
    <3>3. CASE parent # NoCategory
      <4>1. Depth(t, parent) <= 1 BY <1>6, <1>7, <3>1, <3>3 DEF Depth
      <4>2. In(t, parent) /\ parent \in Categories /\ Up(t, parent) = NoCategory
        BY <1>5, <3>3, <4>1 DEF Depth, In
      <4> QED BY <1>2, <1>3, <1>5, <3>1, <4>2
    <3> QED BY <3>2, <3>3
  <2>3. CASE d # c /\ Up(t, d) # c /\ Up(t, d) # NoCategory
    <3>1. In(t, d) /\ Up(u, d) = Up(t, d) BY <1>3, <1>9, <2>3
    <3>2. PICK p \in Categories : p = Up(t, d) /\ In(t, p)
      BY <1>1, <2>3, <3>1 DEF Forest, In
    <3>3. In(u, p) /\ Up(u, p) = Up(t, p) BY <1>3, <2>3, <3>2
    <3>4. CASE Up(t, p) = c
      <4>1. Levels(c) = 3 BY <1>8, <3>1, <3>2, <3>4
      <4>2. parent = NoCategory BY <1>6, <1>7, <4>1 DEF Depth
      <4> QED BY <1>2, <3>1, <3>2, <3>3, <3>4, <4>2
    <3>5. CASE Up(t, p) # c
      <4>1. \/ Up(t, p) = NoCategory
            \/ /\ In(t, Up(t, p)) /\ Up(t, p) \in Categories
               /\ Up(t, Up(t, p)) = NoCategory
        BY <1>1, <2>3, <3>1, <3>2 DEF Forest, In
      <4> QED BY <1>3, <3>1, <3>2, <3>3, <3>5, <4>1
    <3> QED BY <3>4, <3>5
  <2>4. CASE d # c /\ Up(t, d) = NoCategory BY <1>3, <2>4
  <2> QED BY <2>1, <2>2, <2>3, <2>4
<1>10. Forest(u) BY <1>9 DEF Forest
<1> QED BY <1>2, <1>10 DEF t, u

\* A category that is written keeps its documents where they are.
LEMMA WritingKeeps ==
  ASSUME TaxonomyInv, NEW c \in Categories, NEW parent \in Categories \cup {NoCategory},
         NEW floor \in Ranks, MayHang(c, parent), UNCHANGED <<uploads, labelled>>,
         categories' = [categories EXCEPT ![c] = [parent |-> parent, floor |-> floor]]
  PROVE  TaxonomyInv'
<1> USE TaxonomyAssumption
<1>1. /\ categories' \in Trees /\ Forest(categories')
      /\ Up(categories', c) = parent /\ In(categories', c)
      /\ \A d \in Categories : d # c => categories'[d] = categories[d]
  BY WritingKeepsForest
<1>2. TaxonomyTypeOK' BY <1>1 DEF TaxonomyInv, TaxonomyTypeOK, Trees
<1>3. \A d \in Categories : Exists(d) => Exists(d)' BY <1>1 DEF Exists, In
<1>4. \A d : /\ Requested(d)' <=> Requested(d)
             /\ HoldsDocuments(d)' <=> HoldsDocuments(d)
  BY DEF Requested, HoldsDocuments, Stored
<1>5. ASSUME NEW d \in Categories, HoldsDocuments(d) PROVE Children(d)' = {}
  <2>1. Children(d) = {} /\ Exists(d) /\ d # NoCategory
    BY <1>5 DEF TaxonomyInv, DocumentsHangOnLeaves, HoldsDocuments, Stored, Requested
  <2>2. parent # d BY <1>5, <2>1 DEF MayHang
  <2>3. \A e \in Categories : Exists(e)' => categories'[e].parent # d
    <3> SUFFICES ASSUME NEW e \in Categories, Exists(e)' PROVE categories'[e].parent # d OBVIOUS
    <3>1. CASE e = c BY <1>1, <2>2, <3>1 DEF Up
    <3>2. CASE e # c BY <1>1, <2>1, <3>2 DEF Exists, Children, Tree
    <3> QED BY <3>1, <3>2
  <2> QED BY <2>3 DEF Children, Tree
<1>6. DocumentsHangOnLeaves'
  BY <1>3, <1>4, <1>5 DEF TaxonomyInv, DocumentsHangOnLeaves
<1> QED BY <1>1, <1>2, <1>6 DEF TaxonomyInv

\* Only a category that nothing refers to is deleted.
LEMMA DeletingKeeps ==
  ASSUME TaxonomyInv, NEW c \in Categories, DeleteCategory(c)
  PROVE  TaxonomyInv'
<1> USE TaxonomyAssumption
<1>1. /\ categories \in Trees /\ Forest(categories) /\ Children(c) = {} /\ ~Requested(c)
      /\ UNCHANGED <<uploads, labelled>>
  BY OfTheTree DEF DeleteCategory, TaxonomyInv
<1>2. /\ categories' \in Trees /\ categories'[c] = NoCategory
      /\ \A d \in Categories : d # c => categories'[d] = categories[d]
  BY <1>1 DEF DeleteCategory, Trees
<1>3. TaxonomyTypeOK' BY <1>1, <1>2 DEF TaxonomyInv, TaxonomyTypeOK, Trees
<1>4. \A d \in Categories : In(categories, d) => Up(categories, d) # c
  BY <1>1 DEF Children, Tree, Exists, In, Up
<1>5. \A d \in Categories : In(categories', d) =>
        d # c /\ In(categories, d) /\ Up(categories', d) = Up(categories, d)
  BY <1>2 DEF In, Up
<1>6. \A d : In(categories, d) /\ d # c => In(categories', d) BY <1>2 DEF In
<1>7. Forest(categories')
  <2> SUFFICES ASSUME NEW d \in Categories, In(categories', d)
               PROVE  \/ Up(categories', d) = NoCategory
                      \/ /\ In(categories', Up(categories', d))
                         /\ \/ Up(categories', Up(categories', d)) = NoCategory
                            \/ /\ In(categories', Up(categories', Up(categories', d)))
                               /\ Up(categories', Up(categories', Up(categories', d))) = NoCategory
    BY DEF Forest
  <2>1. In(categories, d) /\ Up(categories', d) = Up(categories, d) /\ Up(categories, d) # c
    BY <1>4, <1>5
  <2>2. CASE Up(categories, d) # NoCategory
    <3>1. PICK p : p = Up(categories, d) OBVIOUS
    <3>2. In(categories, p) /\ p \in Categories BY <1>1, <2>1, <2>2, <3>1 DEF Forest, In
    <3>3. In(categories', p) /\ Up(categories', p) = Up(categories, p) /\ Up(categories, p) # c
      BY <1>4, <1>5, <1>6, <2>1, <3>1, <3>2
    <3>4. CASE Up(categories, p) # NoCategory
      <4>1. PICK q : q = Up(categories, p) OBVIOUS
      <4>2. In(categories, q) /\ q \in Categories /\ Up(categories, q) = NoCategory
        BY <1>1, <2>1, <2>2, <3>1, <3>4, <4>1 DEF Forest, In
      <4>3. In(categories', q) /\ Up(categories', q) = NoCategory
        BY <1>5, <1>6, <3>3, <4>1, <4>2
      <4> QED BY <2>1, <3>1, <3>3, <4>1, <4>3
    <3> QED BY <2>1, <3>1, <3>3, <3>4
  <2> QED BY <2>1, <2>2
<1>8. \A d : /\ Requested(d)' <=> Requested(d)
             /\ HoldsDocuments(d)' <=> HoldsDocuments(d)
  BY <1>1 DEF Requested, HoldsDocuments, Stored
<1>9. \A d \in Categories : Requested(d) => Exists(d)'
  BY <1>1, <1>2 DEF TaxonomyInv, DocumentsHangOnLeaves, Exists
<1>10. \A d \in Categories : Children(d) = {} => Children(d)' = {}
  <2> SUFFICES ASSUME NEW d \in Categories, NEW e \in Categories, Exists(e)',
                      categories'[e].parent = d
               PROVE  Exists(e) /\ categories[e].parent = d
    BY DEF Children, Tree
  <2> QED BY <1>2 DEF Exists
<1>11. DocumentsHangOnLeaves' BY <1>8, <1>9, <1>10 DEF TaxonomyInv, DocumentsHangOnLeaves
<1> QED BY <1>2, <1>3, <1>7, <1>11 DEF TaxonomyInv

\* An upload goes into a leaf, both when it is reserved and when it is stored.
LEMMA UploadingKeeps ==
  ASSUME TaxonomyInv, NEW u \in Uploads,
         \/ \E c \in Categories, rank \in Ranks : Reserve(u, c, rank)
         \/ StoreDraft(u)
  PROVE  TaxonomyInv'
<1> DEFINE Rows == [category : Categories, rank : Ranks, stored : BOOLEAN]
<1>1. uploads \in [Uploads -> {NoCategory} \cup Rows] BY DEF TaxonomyInv, TaxonomyTypeOK
<1>2. PICK c \in Categories, row \in Rows :
        /\ Exists(c) /\ Children(c) = {} /\ row.category = c
        /\ uploads' = [uploads EXCEPT ![u] = row] /\ UNCHANGED <<categories, labelled>>
        /\ row.stored => Exists(c)
  <2>1. CASE \E c \in Categories, rank \in Ranks : Reserve(u, c, rank)
    <3>1. PICK c \in Categories, rank \in Ranks : Reserve(u, c, rank) BY <2>1
    <3> DEFINE row == [category |-> c, rank |-> rank, stored |-> FALSE]
    <3>2. row \in Rows /\ row.category = c OBVIOUS
    <3> QED BY <3>1, <3>2 DEF Reserve, TakesDraft
  <2>2. CASE StoreDraft(u)
    <3>1. PICK old \in Rows : old = uploads[u] BY <1>1, <2>2 DEF StoreDraft
    <3> DEFINE row == [old EXCEPT !.stored = TRUE]
    <3>2. row \in Rows /\ row.category = old.category /\ old.category \in Categories OBVIOUS
    <3>3. uploads' = [uploads EXCEPT ![u] = row] BY <1>1, <2>2, <3>1 DEF StoreDraft
    <3> QED BY <2>2, <3>1, <3>2, <3>3 DEF StoreDraft, TakesDraft
  <2> QED BY <2>1, <2>2
<1>3. /\ uploads' \in [Uploads -> {NoCategory} \cup Rows] /\ uploads'[u] = row
      /\ \A v \in Uploads : v # u => uploads'[v] = uploads[v]
  BY <1>1, <1>2
<1>4. TaxonomyTypeOK' /\ Forest(categories')
  BY <1>2, <1>3 DEF TaxonomyInv, TaxonomyTypeOK
<1>5. \A d : (Exists(d)' <=> Exists(d)) /\ Children(d)' = Children(d)
  BY <1>2 DEF Exists, Children, Tree
<1>6. \A d : Requested(d)' => d = c \/ Requested(d) BY <1>2, <1>3 DEF Requested
<1>7. \A d : HoldsDocuments(d)' => d = c \/ HoldsDocuments(d)
  BY <1>2, <1>3 DEF HoldsDocuments, Stored
<1> QED BY <1>2, <1>4, <1>5, <1>6, <1>7 DEF TaxonomyInv, DocumentsHangOnLeaves

\* Every step keeps the invariant.
LEMMA TaxonomyStep == TaxonomyInv /\ [TaxonomyNext]_taxonomyVars => TaxonomyInv'
<1> SUFFICES ASSUME TaxonomyInv, [TaxonomyNext]_taxonomyVars PROVE TaxonomyInv' OBVIOUS
<1>1. ASSUME NEW c \in Categories, NEW parent \in Categories \cup {NoCategory},
             NEW floor \in Ranks,
             AddCategory(c, parent, floor) \/ ChangeCategory(c, parent, floor)
      PROVE  TaxonomyInv'
  BY <1>1, WritingKeeps DEF AddCategory, ChangeCategory
<1>2. ASSUME NEW c \in Categories, DeleteCategory(c) PROVE TaxonomyInv' BY <1>2, DeletingKeeps
<1>3. CASE (\E c \in Categories : ChangeLabels(c)) \/ UNCHANGED taxonomyVars
  <2>1. UNCHANGED <<categories, uploads>> /\ labelled' \subseteq Categories
    BY <1>3 DEF ChangeLabels, taxonomyVars, TaxonomyInv, TaxonomyTypeOK
  <2>2. TaxonomyTypeOK' /\ Forest(categories') BY <2>1 DEF TaxonomyInv, TaxonomyTypeOK
  <2>3. DocumentsHangOnLeaves'
    BY <2>1 DEF TaxonomyInv, DocumentsHangOnLeaves, Requested, HoldsDocuments, Stored, Exists,
                Children, Tree
  <2> QED BY <2>2, <2>3 DEF TaxonomyInv
<1>4. ASSUME NEW u \in Uploads,
             \/ \E c \in Categories, rank \in Ranks : Reserve(u, c, rank)
             \/ StoreDraft(u)
      PROVE  TaxonomyInv'
  BY <1>4, UploadingKeeps
<1> QED BY <1>1, <1>2, <1>3, <1>4 DEF TaxonomyNext

\* The tree is whole for any number of categories, whatever is created, moved, deleted and
\* uploaded in whatever order.
THEOREM TreeStaysWholeHolds == TaxonomySpec => []TreeStaysWhole
BY TaxonomyInitially, TaxonomyStep, InvIsWhole, PTL DEF TaxonomySpec

------------------------------------------------------------------------------
(* The readers of a document. *)

\* If a path stays as it is, and no floor on it sinks, its strictest floor does not sink.
LEMMA FloorNeverSinks ==
  ASSUME NEW t \in Trees, Forest(t), NEW u \in Trees, Forest(u), NEW c,
         In(t, c), In(u, c), Path(u, c) = Path(t, c),
         \A d \in Path(t, c) : u[d].floor >= t[d].floor
  PROVE  FloorOf(u, Path(u, c)) >= FloorOf(t, Path(t, c))
<1>1. PICK f \in Ranks : f = FloorOf(t, Path(t, c)) BY FloorExists
<1>2. PICK g \in Ranks : g = FloorOf(u, Path(u, c)) BY FloorExists
<1>3. PICK d \in Path(t, c) : t[d].floor = f BY <1>1, FloorExists
<1>4. u[d].floor <= g BY <1>2, <1>3, FloorExists
<1>5. u[d].floor >= f BY <1>3
<1>6. In(u, d) BY <1>3, PathFacts
<1>7. u[d].floor \in Ranks BY <1>6 DEF Trees, In
<1>8. Ranks \subseteq Int BY TaxonomyAssumption DEF Ranks
<1>9. f \in Int /\ g \in Int /\ u[d].floor \in Int BY <1>7, <1>8
<1> QED BY <1>1, <1>2, <1>4, <1>5, <1>9

\* A tree whose categories on a path keep their parents keeps the path.
LEMMA SamePath ==
  ASSUME NEW t \in Trees, Forest(t), NEW u, NEW c, In(t, c),
         \A d \in Path(t, c) : Up(u, d) = Up(t, d)
  PROVE  Path(u, c) = Path(t, c)
<1>1. c \in Path(t, c) BY PathFacts
<1>2. Up(t, c) # NoCategory => Up(t, c) \in Path(t, c) BY <1>1, PathFacts
<1> QED BY <1>1, <1>2 DEF Path

\* A branch with documents keeps its parents; floors on it do not sink.
LEMMA BranchWithDocuments ==
  ASSUME TaxonomyInv, [TaxonomyNext]_taxonomyVars, NEW c \in Categories, HoldsDocuments(c)
  PROVE  /\ Exists(c)
         /\ \A d \in Branch(c) : /\ Up(categories', d) = Up(categories, d)
                                 /\ categories'[d].floor >= categories[d].floor
<1> USE TaxonomyAssumption
<1>1. /\ categories \in Trees /\ Forest(categories) /\ Exists(c) /\ In(categories, c)
      /\ Branch(c) = Path(categories, c)
  BY OfTheTree
  DEF TaxonomyInv, DocumentsHangOnLeaves, HoldsDocuments, Stored, Requested
<1>2. \A d \in Branch(c) : d \in Categories /\ In(categories, d) BY <1>1, PathFacts DEF In
<1>3. \A d \in Branch(c) : categories[d].floor \in Int
  BY <1>1, <1>2 DEF Trees, In, Ranks
<1>4. CASE UNCHANGED categories BY <1>1, <1>3, <1>4
<1>5. ASSUME NEW x \in Categories, x \notin Branch(c),
             \A d \in Categories : d # x => categories'[d] = categories[d]
      PROVE  \A d \in Branch(c) : /\ Up(categories', d) = Up(categories, d)
                                  /\ categories'[d].floor >= categories[d].floor
  BY <1>2, <1>3, <1>5 DEF Up
<1>6. ASSUME NEW x \in Categories, NEW parent \in Categories \cup {NoCategory},
             NEW floor \in Ranks, AddCategory(x, parent, floor)
      PROVE  \A d \in Branch(c) : /\ Up(categories', d) = Up(categories, d)
                                  /\ categories'[d].floor >= categories[d].floor
  <2>1. x \notin Branch(c) BY <1>2, <1>6 DEF AddCategory, Exists, In
  <2>2. \A d \in Categories : d # x => categories'[d] = categories[d]
    BY <1>1, <1>6 DEF AddCategory, Trees
  <2> QED BY <1>5, <2>1, <2>2
<1>7. ASSUME NEW x \in Categories, NEW parent \in Categories \cup {NoCategory},
             NEW floor \in Ranks, ChangeCategory(x, parent, floor)
      PROVE  \A d \in Branch(c) : /\ Up(categories', d) = Up(categories, d)
                                  /\ categories'[d].floor >= categories[d].floor
  <2>1. \A d \in Categories : d # x => categories'[d] = categories[d]
    BY <1>1, <1>7 DEF ChangeCategory, Trees
  <2>2. categories'[x].parent = parent /\ categories'[x].floor = floor
    BY <1>1, <1>7 DEF ChangeCategory, Trees
  <2>3. CASE categories[x].parent = parent
    <3> SUFFICES ASSUME NEW d \in Branch(c)
                 PROVE  /\ Up(categories', d) = Up(categories, d)
                        /\ categories'[d].floor >= categories[d].floor
      OBVIOUS
    <3>1. CASE d = x BY <1>7, <2>2, <2>3, <3>1 DEF ChangeCategory, Up
    <3>2. CASE d # x BY <1>2, <1>3, <2>1, <3>2 DEF Up
    <3> QED BY <3>1, <3>2
  <2>4. CASE categories[x].parent # parent
    <3>1. x \notin Branch(c) BY <1>7, <2>4 DEF ChangeCategory, MayMove, HoldsDocuments
    <3> QED BY <1>5, <2>1, <3>1
  <2> QED BY <2>3, <2>4
<1>8. ASSUME NEW x \in Categories, DeleteCategory(x)
      PROVE  \A d \in Branch(c) : /\ Up(categories', d) = Up(categories, d)
                                  /\ categories'[d].floor >= categories[d].floor
  <2>1. \A d \in Categories : d # x => categories'[d] = categories[d]
    BY <1>1, <1>8 DEF DeleteCategory, Trees
  <2>2. c # x BY <1>8 DEF DeleteCategory, HoldsDocuments, Stored, Requested
  <2>3. \A d : In(categories, d) => Up(categories, d) # x
    BY <1>8 DEF DeleteCategory, Children, Tree, Exists, In, Up
  <2>4. x \notin Path(categories, c)
    <3>1. Up(categories, c) # NoCategory => In(categories, Up(categories, c))
      BY <1>1, PathFacts
    <3> QED BY <1>1, <2>2, <2>3, <3>1 DEF Path
  <2> QED BY <1>1, <1>5, <2>1, <2>4
<1>9. \/ UNCHANGED categories
      \/ \E x \in Categories, parent \in Categories \cup {NoCategory}, floor \in Ranks :
           AddCategory(x, parent, floor) \/ ChangeCategory(x, parent, floor)
      \/ \E x \in Categories : DeleteCategory(x)
  BY DEF TaxonomyNext, taxonomyVars, ChangeLabels, Reserve, StoreDraft
<1> QED BY <1>1, <1>4, <1>6, <1>7, <1>8, <1>9

\* No edit of the tree changes whose grants reach a document, and no floor over one sinks.
THEOREM DocumentsKeepTheirReadersHolds == TaxonomySpec => DocumentsKeepTheirReaders
<1>1. TaxonomyInv /\ TaxonomyInv' /\ [TaxonomyNext]_taxonomyVars =>
        [\A c \in Categories : HoldsDocuments(c) =>
           /\ Branch(c)' = Branch(c)
           /\ EffectiveFloor(c)' >= EffectiveFloor(c)]_taxonomyVars
  <2> SUFFICES ASSUME TaxonomyInv, TaxonomyInv', [TaxonomyNext]_taxonomyVars,
                      NEW c \in Categories, HoldsDocuments(c)
               PROVE  Branch(c)' = Branch(c) /\ EffectiveFloor(c)' >= EffectiveFloor(c)
    OBVIOUS
  <2> DEFINE t == categories
             u == categories'
  <2>1. t \in Trees /\ u \in Trees /\ Forest(t) /\ Forest(u)
    BY OfTheTree, OfTheNextTree DEF TaxonomyInv
  <2>2. /\ Exists(c) /\ In(t, c) /\ Branch(c) = Path(t, c)
        /\ EffectiveFloor(c) = FloorOf(t, Path(t, c))
        /\ \A d \in Path(t, c) : Up(u, d) = Up(t, d) /\ u[d].floor >= t[d].floor
    BY BranchWithDocuments, OfTheTree
  <2>3. Path(u, c) = Path(t, c) BY <2>1, <2>2, SamePath
  <2>4. Exists(c)'
    <3>1. CASE UNCHANGED categories BY <2>2, <3>1 DEF Exists
    <3>2. CASE ~UNCHANGED categories
      <4>1. UNCHANGED uploads
        BY <3>2 DEF TaxonomyNext, taxonomyVars, AddCategory, ChangeCategory, DeleteCategory,
                    ChangeLabels, Reserve, StoreDraft
      <4>2. Requested(c)' BY <4>1 DEF HoldsDocuments, Stored, Requested
      <4> QED BY <4>2 DEF TaxonomyInv, DocumentsHangOnLeaves
    <3> QED BY <3>1, <3>2
  <2>5. In(u, c) /\ Branch(c)' = Path(u, c) /\ EffectiveFloor(c)' = FloorOf(u, Path(u, c))
    BY <2>4, OfTheNextTree
  <2>6. FloorOf(u, Path(u, c)) >= FloorOf(t, Path(t, c))
    BY <2>1, <2>2, <2>3, <2>5, FloorNeverSinks
  <2> QED BY <2>2, <2>3, <2>5, <2>6
<1> QED BY <1>1, TaxonomyInitially, TaxonomyStep, PTL DEF TaxonomySpec, DocumentsKeepTheirReaders

------------------------------------------------------------------------------
(* Labels.                                                                    *)

\* A word that is no label (any more) has no merge that a new label would inherit.
StrangersAreUnmerged == \A n \in Names \ vocabulary : into[n] = NoName

LabelsInv == LabelsTypeOK /\ MergesAreOneLevel /\ StrangersAreUnmerged

\* An empty vocabulary has no merges.
LEMMA LabelsInitially == LabelsInit => LabelsInv
BY DEF LabelsInit, LabelsInv, LabelsTypeOK, MergesAreOneLevel, StrangersAreUnmerged

\* A new label, which cannot be one that another label is merged into.
LEMMA AddKeeps ==
  ASSUME LabelsInv, NEW n \in Names, AddLabel(n)
  PROVE  LabelsInv'
BY DEF AddLabel, LabelsInv, LabelsTypeOK, MergesAreOneLevel, StrangersAreUnmerged

\* What a removed label received would be left hanging: the foreign key refuses it.
LEMMA RemoveKeeps ==
  ASSUME LabelsInv, NEW n \in Names, RemoveLabel(n)
  PROVE  LabelsInv'
<1> USE LabelsAssumption DEF LabelsInv
<1>1. LabelsTypeOK' BY DEF RemoveLabel, LabelsTypeOK
<1>2. StrangersAreUnmerged' BY DEF RemoveLabel, LabelsTypeOK, StrangersAreUnmerged
<1>3. MergesAreOneLevel'
  BY DEF RemoveLabel, MayGo, Receives, LabelsTypeOK, MergesAreOneLevel
<1> QED BY <1>1, <1>2, <1>3

\* A merge makes no chain: its target is not merged and its source receives nothing.
LEMMA MergeKeeps ==
  ASSUME LabelsInv, NEW n \in Names, NEW m \in Names, MergeLabels(n, m)
  PROVE  LabelsInv'
<1> USE LabelsAssumption DEF LabelsInv
<1>1. LabelsTypeOK' BY DEF MergeLabels, LabelsTypeOK
<1>2. StrangersAreUnmerged' BY DEF MergeLabels, LabelsTypeOK, StrangersAreUnmerged
<1>3. MergesAreOneLevel'
  BY DEF MergeLabels, MayMerge, Receives, LabelsTypeOK, MergesAreOneLevel
<1> QED BY <1>1, <1>2, <1>3

\* A label that is renamed takes its own merge, or those it received, along.
LEMMA RenameKeeps ==
  ASSUME LabelsInv, NEW n \in Names, NEW m \in Names, RenameLabel(n, m)
  PROVE  LabelsInv'
<1> USE LabelsAssumption DEF LabelsInv
<1>1. LabelsTypeOK' BY DEF RenameLabel, LabelsTypeOK
<1>2. StrangersAreUnmerged' BY DEF RenameLabel, LabelsTypeOK, StrangersAreUnmerged
<1>3. ASSUME NEW x \in vocabulary', into'[x] # NoName
      PROVE  into'[x] \in vocabulary' /\ into'[into'[x]] = NoName
  <2> USE <1>3 DEF RenameLabel, LabelsTypeOK, MergesAreOneLevel
  <2>0. n # m /\ m \notin vocabulary /\ n \in vocabulary OBVIOUS
  <2>1. CASE x = m
    <3>1. into'[x] = into[n] /\ into[n] # NoName BY <2>1
    <3>2. into[n] \in vocabulary /\ into[into[n]] = NoName BY <3>1, <2>0
    <3>3. into[n] # n /\ into[n] # m BY <3>1, <3>2, <2>0
    <3> QED BY <3>1, <3>2, <3>3
  <2>2. CASE x # m /\ into[x] = n
    <3>1. x \in vocabulary /\ x # n /\ into[n] = NoName BY <2>2, <2>0
    <3> QED BY <3>1, <2>2, <2>0
  <2>3. CASE x # m /\ into[x] # n
    <3>1. x \in vocabulary /\ x # n /\ into'[x] = into[x] BY <2>3
    <3>2. into[x] \in vocabulary /\ into[into[x]] = NoName BY <3>1
    <3> QED BY <3>1, <3>2, <2>3, <2>0
  <2> QED BY <2>1, <2>2, <2>3
<1> QED BY <1>1, <1>2, <1>3 DEF MergesAreOneLevel

\* Every step keeps the invariant.
LEMMA LabelsStep == LabelsInv /\ [LabelsNext]_labelsVars => LabelsInv'
<1> SUFFICES ASSUME LabelsInv, [LabelsNext]_labelsVars PROVE LabelsInv' OBVIOUS
<1>1. ASSUME NEW n \in Names, AddLabel(n) PROVE LabelsInv' BY <1>1, AddKeeps
<1>2. ASSUME NEW n \in Names, RemoveLabel(n) PROVE LabelsInv' BY <1>2, RemoveKeeps
<1>3. ASSUME NEW n \in Names, Carry(n) PROVE LabelsInv'
  BY <1>3 DEF Carry, LabelsInv, LabelsTypeOK, MergesAreOneLevel, StrangersAreUnmerged
<1>4. ASSUME NEW n \in Names, NEW m \in Names, RenameLabel(n, m) PROVE LabelsInv'
  BY <1>4, RenameKeeps
<1>5. ASSUME NEW n \in Names, NEW m \in Names, MergeLabels(n, m) PROVE LabelsInv'
  BY <1>5, MergeKeeps
<1>6. CASE UNCHANGED labelsVars
  BY <1>6 DEF labelsVars, LabelsInv, LabelsTypeOK, MergesAreOneLevel, StrangersAreUnmerged
<1> QED BY <1>1, <1>2, <1>3, <1>4, <1>5, <1>6 DEF LabelsNext

\* For any vocabulary and any sequence of edits, a merged label leads to one that exists
\* and is not merged itself (merge_labels, save_label, the foreign key of merged_into).
THEOREM LabelsMergeOnce == LabelsSpec => []MergesAreOneLevel
<1>1. LabelsInv => MergesAreOneLevel BY DEF LabelsInv
<1> QED BY LabelsInitially, LabelsStep, <1>1, PTL DEF LabelsSpec

------------------------------------------------------------------------------
(* The history of the architecture.                                          *)

\* Initially nothing is known and nothing is proposed.
LEMMA ArchitectureInitially == ArchitectureInit => ArchitectureTypeOK
BY DEF ArchitectureInit, ArchitectureTypeOK

\* A file gives values to some elements.
LEMMA FilesSay ==
  ASSUME NEW file \in Files
  PROVE  /\ DOMAIN file.elements \subseteq Elements
         /\ \A x \in DOMAIN file.elements : file.elements[x] \in Values
         /\ file.links \subseteq Links
<1>1. PICK S \in SUBSET Elements \ {{}} : file \in [elements : [S -> Values], links : SUBSET Links]
  BY DEF Files
<1> QED BY <1>1

\* What is proposed is a file.
LEMMA ProposedFile ==
  ASSUME ArchitectureTypeOK, NEW p \in Proposals, proposals[p] # NoElement
  PROVE  proposals[p].file \in Files
BY DEF ArchitectureTypeOK

\* Reading and submitting an import, and ending one, touch the proposals only.
LEMMA ProposingKeepsTypes ==
  ASSUME ArchitectureTypeOK, NEW p \in Proposals,
         \/ \E a \in Admins, file \in Files : Read(p, a, file)
         \/ Submit(p) \/ Abandon(p) \/ TurnDown(p)
  PROVE  ArchitectureTypeOK'
<1>1. ASSUME NEW a \in Admins, NEW file \in Files, Read(p, a, file)
      PROVE  ArchitectureTypeOK'
  <2>1. [x \in Elements |-> IF x \in DOMAIN file.elements THEN model[x] ELSE NoElement]
          \in [Elements -> Values \cup {NoElement}]
    BY DEF ArchitectureTypeOK
  <2> QED BY <1>1, <2>1 DEF Read, ArchitectureTypeOK
<1>2. CASE Submit(p)
  <2>1. [proposals[p] EXCEPT !.pending = TRUE] \in
          [pending : BOOLEAN, by : Admins, file : Files,
           seen : [Elements -> Values \cup {NoElement}]]
    BY <1>2 DEF Submit, ArchitectureTypeOK
  <2> QED BY <1>2, <2>1 DEF Submit, ArchitectureTypeOK
<1>3. CASE Abandon(p) BY <1>3 DEF Abandon, ArchitectureTypeOK
<1>4. CASE TurnDown(p) BY <1>4 DEF TurnDown, ArchitectureTypeOK
<1> QED BY <1>1, <1>2, <1>3, <1>4

\* The approval applies what the file says and notes values only.
LEMMA ApprovingKeepsTypes ==
  ASSUME ArchitectureTypeOK, NEW p \in Proposals, NEW a \in Admins, Approve(p, a)
  PROVE  ArchitectureTypeOK'
<1> DEFINE file == proposals[p].file
           new  == [x \in Elements |->
                     IF x \in DOMAIN file.elements THEN file.elements[x] ELSE model[x]]
<1>1. file \in Files BY ProposedFile DEF Approve, Proposed
<1>2. new \in [Elements -> Values \cup {NoElement}]
  BY <1>1, FilesSay DEF ArchitectureTypeOK
<1>3. ASSUME NEW x \in DOMAIN file.elements
      PROVE  Noted(p, x) \in {NoElement} \cup [old : Values, new : Values]
  <2>1. x \in Elements /\ file.elements[x] \in Values BY <1>1, <1>3, FilesSay
  <2>2. model[x] \in Values \cup {NoElement} BY <2>1 DEF ArchitectureTypeOK
  <2> QED BY <2>1, <2>2 DEF Noted, Replaced, ArchitectureTypeOK
<1>4. changes' \in [Elements -> {NoElement} \cup [old : Values, new : Values]]
  BY <1>3 DEF Approve, ArchitectureTypeOK
<1>5. links' \subseteq Links BY <1>1, FilesSay DEF Approve, ArchitectureTypeOK
<1> QED BY <1>2, <1>4, <1>5 DEF Approve, ArchitectureTypeOK

\* Every step keeps the types.
LEMMA ArchitectureStep ==
  ArchitectureTypeOK /\ [ArchitectureNext]_architectureVars => ArchitectureTypeOK'
<1> SUFFICES ASSUME ArchitectureTypeOK, [ArchitectureNext]_architectureVars
             PROVE  ArchitectureTypeOK'
  OBVIOUS
<1>1. CASE UNCHANGED architectureVars BY <1>1 DEF architectureVars, ArchitectureTypeOK
<1> QED BY <1>1, ProposingKeepsTypes, ApprovingKeepsTypes DEF ArchitectureNext

\* An approval notes, for every element it changes, the value that was in force.
LEMMA ApprovalIsNoted ==
  ASSUME ArchitectureTypeOK, NEW p \in Proposals, NEW a \in Admins, Approve(p, a),
         NEW x \in Elements, model[x] # NoElement, model'[x] # model[x]
  PROVE  changes'[x] = [old |-> model[x], new |-> model'[x]]
<1> DEFINE file == proposals[p].file
<1>1. x \in DOMAIN file.elements /\ model'[x] = file.elements[x]
  BY DEF Approve, ArchitectureTypeOK
<1>2. changes'[x] = Noted(p, x) BY <1>1 DEF Approve
<1> QED BY <1>1, <1>2 DEF Noted, Replaced

\* For any elements, administrators and imports in flight, the history notes for every
\* change of an element the value that was really replaced, whatever was applied since the
\* import was proposed (ta_decide_import).
THEOREM HistoryExplains == ArchitectureSpec => HistoryExplainsModel
<1>1. ArchitectureTypeOK /\ [ArchitectureNext]_architectureVars =>
        [\A x \in Elements : model[x] # NoElement /\ model'[x] # model[x] =>
           changes'[x] = [old |-> model[x], new |-> model'[x]]]_architectureVars
  <2> SUFFICES ASSUME ArchitectureTypeOK, ArchitectureNext,
                      NEW x \in Elements, model[x] # NoElement, model'[x] # model[x]
               PROVE  changes'[x] = [old |-> model[x], new |-> model'[x]]
    OBVIOUS
  <2>1. PICK p \in Proposals, a \in Admins : Approve(p, a)
    BY DEF ArchitectureNext, Read, Submit, Abandon, TurnDown
  <2> QED BY <2>1, ApprovalIsNoted
<1> QED BY ArchitectureInitially, ArchitectureStep, <1>1, PTL
     DEF ArchitectureSpec, HistoryExplainsModel

------------------------------------------------------------------------------
(* The search index of the architecture.                                     *)

\* Where a pass may be, and what its snapshot is made of.
Snapshots ==
  [at : {"choose", "parsed"}, rows : [Nodes -> Facts \cup {NoCard}], edges : SUBSET Edges,
   entries : [Nodes -> Cards \cup {NoCard}], written : SUBSET Nodes, overtaken : BOOLEAN]
Writings ==
  [at : {"record"}, rows : [Nodes -> Facts \cup {NoCard}], edges : SUBSET Edges,
   entries : [Nodes -> Cards \cup {NoCard}], written : SUBSET Nodes, overtaken : BOOLEAN,
   element : Nodes]

\* No link leads to an element that is not there.
Linked(r, es) == \A e \in es : r[e[1]] # NoCard /\ r[e[2]] # NoCard

TablesOK ==
  /\ rows \in [Nodes -> Facts \cup {NoCard}]
  /\ edges \subseteq Edges /\ Linked(rows, edges)
  /\ entries \in [Nodes -> Cards \cup {NoCard}] /\ knowledge \in [Nodes -> Cards \cup {NoCard}]
  /\ parsed \subseteq Nodes /\ torn \subseteq Nodes /\ cut \subseteq Nodes
  /\ settled \in BOOLEAN

PassOK ==
  /\ pass \in {Idle} \cup Snapshots \cup Writings
  /\ pass.at # "idle" => Linked(pass.rows, pass.edges)
  /\ pass.at = "record" => pass.rows[pass.element] # NoCard

\* Only the pass writes the entries, and it keeps its copy of them up to date.
SnapshotIsFresh ==
  pass.at # "idle" =>
    /\ pass.entries = entries
    /\ ~pass.overtaken => pass.rows = rows /\ pass.edges = edges
    /\ settled => ~pass.overtaken

\* What WeKnora says and what is recorded part only in a pass that dies in between.
RecordedOrTorn == \A x \in Nodes : x \notin torn => knowledge[x] = entries[x]

\* What the pass under way has recorded and has not had parsed yet.
StillToParse == IF pass.at \in {"idle", "parsed"} THEN {} ELSE pass.written

\* A recorded card is parsed, or will be at the end of this pass, or was left behind.
ParsedOrCut ==
  \A x \in Nodes : entries[x] # NoCard /\ x \notin torn => x \in parsed \cup cut \cup StillToParse

\* A pass over what is settled finds nothing to write.
NothingToWrite ==
  settled /\ pass.at # "idle" => pass.at = "choose" /\ pass.written = {}

EntriesAreCurrent ==
  settled => \A x \in Nodes : rows[x] # NoCard => entries[x] = Card(rows, edges, x)

IndexInv ==
  /\ TablesOK /\ PassOK /\ SnapshotIsFresh /\ RecordedOrTorn /\ EntriesAreCurrent
  /\ ParsedOrCut /\ NothingToWrite

\* An edge joins two elements.
LEMMA EndsAreNodes == \A e \in Edges : e[1] \in Nodes /\ e[2] \in Nodes
BY IndexAssumption

\* The card of an element that is there, linked with others that are.
LEMMA CardIsCard ==
  ASSUME NEW r \in [Nodes -> Facts \cup {NoCard}], NEW es \in SUBSET Edges, Linked(r, es),
         NEW x \in Nodes, r[x] # NoCard
  PROVE  Card(r, es, x) \in Cards
<1>1. \A e \in es : r[e[1]] \in Facts /\ r[e[2]] \in Facts BY EndsAreNodes DEF Linked
<1> DEFINE named == {<<e, r[e[1]], r[e[2]]>> : e \in {f \in es : x \in {f[1], f[2]}}}
<1>2. named \subseteq Edges \X Facts \X Facts BY <1>1
<1>3. r[x] \in Facts OBVIOUS
<1>4. Card(r, es, x) = [says |-> r[x], links |-> named] BY DEF Card
<1> HIDE DEF named
<1> QED BY <1>2, <1>3, <1>4 DEF Cards

\* Nothing is known and no pass is under way.
LEMMA IndexInitially == IndexInit => IndexInv
<1> SUFFICES ASSUME IndexInit PROVE IndexInv OBVIOUS
<1>1. TablesOK BY DEF IndexInit, TablesOK, Linked
<1>2. PassOK /\ SnapshotIsFresh BY DEF IndexInit, PassOK, SnapshotIsFresh, Idle
<1>3. RecordedOrTorn /\ EntriesAreCurrent /\ ParsedOrCut /\ NothingToWrite
  BY DEF IndexInit, RecordedOrTorn, EntriesAreCurrent, ParsedOrCut, NothingToWrite
<1> QED BY <1>1, <1>2, <1>3 DEF IndexInv

\* A pass that is overtaken is the same pass but for that.
LEMMA TouchedPass ==
  ASSUME IndexInv
  PROVE  /\ Touched \in {Idle} \cup Snapshots \cup Writings
         /\ Touched.at = pass.at
         /\ pass.at # "idle" =>
              /\ Touched.rows = pass.rows /\ Touched.edges = pass.edges
              /\ Touched.entries = pass.entries /\ Touched.overtaken
              /\ Touched.written = pass.written
         /\ pass.at = "record" => Touched.element = pass.element
<1>1. CASE pass = Idle BY <1>1 DEF Touched, Idle
<1>2. CASE pass \in Snapshots BY <1>2 DEF Touched, Snapshots
<1>3. CASE pass \in Writings BY <1>3 DEF Touched, Writings
<1> QED BY <1>1, <1>2, <1>3 DEF IndexInv, PassOK

\* An import overtakes the pass that is under way, and nothing is settled any more.
LEMMA ImportKeeps ==
  ASSUME IndexInv,
         \/ \E x \in Nodes, fact \in Facts : ImportRow(x, fact)
         \/ \E e \in Edges : ImportEdge(e)
  PROVE  IndexInv'
<1>1. /\ pass' = Touched /\ settled' = FALSE
      /\ UNCHANGED <<entries, knowledge, parsed, torn, cut>>
  BY DEF ImportRow, ImportEdge, weknoraVars, brokenVars
<1>2. TablesOK'
  <2>1. ASSUME NEW x \in Nodes, NEW fact \in Facts, ImportRow(x, fact) PROVE TablesOK'
    <3>1. Linked(rows, edges)' BY <2>1, IndexAssumption, EndsAreNodes
          DEF ImportRow, IndexInv, TablesOK, Linked
    <3> QED BY <1>1, <2>1, <3>1 DEF ImportRow, IndexInv, TablesOK
  <2>2. ASSUME NEW e \in Edges, ImportEdge(e) PROVE TablesOK'
    BY <1>1, <2>2 DEF ImportEdge, IndexInv, TablesOK, Linked
  <2> QED BY <2>1, <2>2
<1>3. PassOK' BY <1>1, TouchedPass DEF IndexInv, PassOK
<1>4. SnapshotIsFresh' BY <1>1, TouchedPass DEF IndexInv, SnapshotIsFresh
<1>5. ParsedOrCut'
  <2>1. StillToParse' = StillToParse BY <1>1, TouchedPass DEF StillToParse
  <2> QED BY <1>1, <2>1 DEF IndexInv, ParsedOrCut
<1> QED BY <1>1, <1>2, <1>3, <1>4, <1>5
        DEF IndexInv, RecordedOrTorn, EntriesAreCurrent, NothingToWrite

\* A pass begins with what is there.
LEMMA BeginKeeps ==
  ASSUME IndexInv, BeginPass
  PROVE  IndexInv'
<1>1. pass' \in Snapshots BY DEF BeginPass, IndexInv, TablesOK, Snapshots
<1>2. UNCHANGED <<rows, edges, entries, knowledge, parsed, torn, cut, settled>>
  BY DEF BeginPass, modelVars, weknoraVars, brokenVars
<1>3. TablesOK' BY <1>2 DEF IndexInv, TablesOK, Linked
<1>4. PassOK' BY <1>1, <1>2 DEF BeginPass, IndexInv, TablesOK, PassOK, Linked
<1>5. SnapshotIsFresh' BY <1>2 DEF BeginPass, SnapshotIsFresh
<1>6. ParsedOrCut' /\ NothingToWrite'
  <2>1. StillToParse' = {} /\ StillToParse = {} BY DEF BeginPass, StillToParse
  <2>2. pass'.at = "choose" /\ pass'.written = {} BY DEF BeginPass
  <2> QED BY <1>2, <2>1, <2>2 DEF IndexInv, ParsedOrCut, NothingToWrite
<1> QED BY <1>2, <1>3, <1>4, <1>5, <1>6 DEF IndexInv, RecordedOrTorn, EntriesAreCurrent

\* Where all entries are current there is nothing out of date.
LEMMA SettledIsUpToDate ==
  ASSUME IndexInv, settled, pass.at # "idle"
  PROVE  OutOfDate = {}
BY DEF IndexInv, SnapshotIsFresh, EntriesAreCurrent, OutOfDate, CardDiffers

\* What is rewritten and not yet recorded counts as torn.
LEMMA WriteKeeps ==
  ASSUME IndexInv, NEW x \in Nodes, WriteCard(x)
  PROVE  IndexInv'
<1>1. pass \in Snapshots /\ pass.at = "choose" /\ pass.rows[x] # NoCard
  BY DEF WriteCard, OutOfDate, IndexInv, PassOK, Idle, Writings
<1>2. Card(pass.rows, pass.edges, x) \in Cards
  BY <1>1, CardIsCard DEF Snapshots, IndexInv, PassOK
<1>3. pass' \in Writings BY <1>1 DEF WriteCard, Snapshots, Writings
<1>4. UNCHANGED <<rows, edges, entries, cut, settled>> BY DEF WriteCard, modelVars
<1>5. \/ UNCHANGED <<knowledge, parsed, torn>>
      \/ /\ knowledge' = [knowledge EXCEPT ![x] = Card(pass.rows, pass.edges, x)]
         /\ parsed' = parsed \ {x} /\ torn' = torn \cup {x}
  BY DEF WriteCard, weknoraVars
<1>6. TablesOK' BY <1>2, <1>4, <1>5 DEF IndexInv, TablesOK, Linked
<1>7. PassOK' BY <1>1, <1>3 DEF WriteCard, IndexInv, PassOK, Linked
<1>8. SnapshotIsFresh' BY <1>1, <1>4 DEF WriteCard, IndexInv, SnapshotIsFresh
<1>9. RecordedOrTorn' BY <1>4, <1>5 DEF IndexInv, RecordedOrTorn, TablesOK
<1>10. ParsedOrCut'
  <2>1. StillToParse' = StillToParse BY DEF WriteCard, StillToParse
  <2> QED BY <1>4, <1>5, <2>1 DEF IndexInv, ParsedOrCut
<1>11. NothingToWrite'
  <2>1. ~settled BY <1>1, SettledIsUpToDate DEF WriteCard
  <2> QED BY <1>4, <2>1 DEF NothingToWrite
<1> QED BY <1>4, <1>6, <1>7, <1>8, <1>9, <1>10, <1>11 DEF IndexInv, EntriesAreCurrent

\* A card is recorded as it was written; it is to be parsed at the end of the pass.
LEMMA RecordKeeps ==
  ASSUME IndexInv, RecordCard
  PROVE  IndexInv'
<1> DEFINE x == pass.element
           card == Card(pass.rows, pass.edges, x)
<1>1. pass \in Writings /\ x \in Nodes /\ pass.at = "record"
  BY DEF RecordCard, IndexInv, PassOK, Idle, Snapshots, Writings
<1>2. card \in Cards
  BY <1>1, CardIsCard DEF Writings, IndexInv, PassOK
<1>3. pass' \in Snapshots
  BY <1>1, <1>2 DEF RecordCard, Snapshots, Writings
<1>4. UNCHANGED <<rows, edges, settled>> /\ ~settled
  BY <1>1 DEF RecordCard, modelVars, IndexInv, NothingToWrite
<1>5. /\ entries' = [entries EXCEPT ![x] = card] /\ knowledge' = [knowledge EXCEPT ![x] = card]
      /\ parsed' = parsed \ {x} /\ torn' = torn \ {x} /\ cut' = cut \ {x}
  BY DEF RecordCard
<1>6. TablesOK' BY <1>1, <1>2, <1>4, <1>5 DEF IndexInv, TablesOK, Linked
<1>7. PassOK' BY <1>1, <1>3 DEF RecordCard, IndexInv, PassOK, Linked
<1>8. SnapshotIsFresh'
  <2>1. /\ pass'.entries = [pass.entries EXCEPT ![x] = card]
        /\ pass'.rows = pass.rows /\ pass'.edges = pass.edges
        /\ pass'.overtaken = pass.overtaken
    BY DEF RecordCard
  <2>2. pass.at # "idle" BY <1>1
  <2> HIDE DEF card, x
  <2> QED BY <1>4, <1>5, <2>1, <2>2 DEF IndexInv, SnapshotIsFresh
<1>9. RecordedOrTorn' BY <1>1, <1>5 DEF IndexInv, RecordedOrTorn, TablesOK
<1>10. ParsedOrCut'
  <2>1. StillToParse = pass.written /\ StillToParse' = pass.written \cup {x}
    BY <1>1 DEF RecordCard, StillToParse
  <2> SUFFICES ASSUME NEW y \in Nodes, y # x, entries'[y] # NoCard, y \notin torn'
               PROVE  y \in parsed' \cup cut' \cup StillToParse'
    BY <2>1 DEF ParsedOrCut
  <2>2. entries'[y] = entries[y] BY <1>5 DEF IndexInv, TablesOK
  <2> QED BY <1>5, <2>1, <2>2 DEF IndexInv, ParsedOrCut
<1> QED BY <1>4, <1>6, <1>7, <1>8, <1>9, <1>10 DEF IndexInv, EntriesAreCurrent, NothingToWrite

\* At the end of a pass all it recorded is parsed.
LEMMA ParseKeeps ==
  ASSUME IndexInv, ParseWritten
  PROVE  IndexInv'
<1>1. pass \in Snapshots /\ pass.at = "choose" /\ pass.written # {}
  BY DEF ParseWritten, LoopIsOver, IndexInv, PassOK, Idle, Writings
<1>2. /\ pass' = [pass EXCEPT !.at = "parsed"] /\ parsed' = parsed \cup pass.written
      /\ UNCHANGED <<rows, edges, entries, knowledge, torn, cut, settled>>
  BY DEF ParseWritten, ParseAll, modelVars, brokenVars
<1>3. /\ pass' \in Snapshots /\ pass'.at = "parsed" /\ pass'.rows = pass.rows
      /\ pass'.edges = pass.edges /\ pass'.entries = pass.entries
      /\ pass'.overtaken = pass.overtaken
  BY <1>1, <1>2 DEF Snapshots
<1>4. TablesOK' BY <1>1, <1>2 DEF IndexInv, TablesOK, Linked, Snapshots
<1>5. PassOK' BY <1>1, <1>3 DEF IndexInv, PassOK
<1>6. SnapshotIsFresh' BY <1>1, <1>2, <1>3 DEF IndexInv, SnapshotIsFresh
<1>7. ParsedOrCut'
  <2>1. StillToParse = pass.written BY <1>1 DEF StillToParse
  <2> QED BY <1>2, <2>1 DEF IndexInv, ParsedOrCut
<1>8. ~settled BY <1>1 DEF IndexInv, NothingToWrite
<1> QED BY <1>2, <1>4, <1>5, <1>6, <1>7, <1>8
        DEF IndexInv, RecordedOrTorn, EntriesAreCurrent, NothingToWrite

\* A pass that did all it found, and was not overtaken, has found everything; what one
\* that breaks off has recorded is left behind.
LEMMA EndKeeps ==
  ASSUME IndexInv, EndPass \/ PassFails
  PROVE  IndexInv'
<1>1. pass' = Idle /\ UNCHANGED <<rows, edges, entries, knowledge, parsed, torn>>
  BY DEF EndPass, PassFails, modelVars, weknoraVars, brokenVars
<1>2. settled' \in BOOLEAN BY DEF EndPass, PassFails, IndexInv, TablesOK
<1>3. cut' \subseteq Nodes /\ cut \cup StillToParse \subseteq cut'
  <2>1. pass.at # "idle" => pass.written \subseteq Nodes
    <3>1. CASE pass = Idle BY <3>1 DEF Idle
    <3>2. CASE pass \in Snapshots BY <3>2 DEF Snapshots
    <3>3. CASE pass \in Writings BY <3>3 DEF Writings
    <3> QED BY <3>1, <3>2, <3>3 DEF IndexInv, PassOK
  <2>2. CASE EndPass
    BY <2>2 DEF EndPass, LoopIsOver, brokenVars, StillToParse, IndexInv, TablesOK
  <2>3. CASE PassFails BY <2>1, <2>3 DEF PassFails, StillToParse, IndexInv, TablesOK
  <2> QED BY <2>2, <2>3
<1>4. TablesOK' BY <1>1, <1>2, <1>3 DEF IndexInv, TablesOK, Linked
<1>5. PassOK' /\ SnapshotIsFresh' /\ NothingToWrite'
  BY <1>1 DEF PassOK, SnapshotIsFresh, NothingToWrite, Idle
<1>6. EntriesAreCurrent'
  <2>1. CASE settled BY <1>1, <2>1 DEF IndexInv, EntriesAreCurrent, Card
  <2>2. CASE ~settled /\ settled'
    <3>1. pass.at # "idle" /\ OutOfDate = {} /\ ~pass.overtaken
      BY <2>2 DEF EndPass, LoopIsOver, PassFails
    <3>2. pass.rows = rows /\ pass.edges = edges /\ pass.entries = entries
      BY <3>1 DEF IndexInv, SnapshotIsFresh
    <3>3. \A x \in Nodes : rows[x] # NoCard => entries[x] = Card(rows, edges, x)
      BY <3>1, <3>2 DEF OutOfDate, CardDiffers
    <3> QED BY <1>1, <3>3 DEF EntriesAreCurrent, Card
  <2> QED BY <2>1, <2>2 DEF EntriesAreCurrent
<1>7. ParsedOrCut' BY <1>1, <1>3 DEF IndexInv, ParsedOrCut
<1> QED BY <1>1, <1>4, <1>5, <1>6, <1>7 DEF IndexInv, RecordedOrTorn

\* Every step keeps the invariant.
LEMMA IndexStep == IndexInv /\ [IndexNext]_indexVars => IndexInv'
<1> SUFFICES ASSUME IndexInv, [IndexNext]_indexVars PROVE IndexInv' OBVIOUS
<1>1. CASE UNCHANGED indexVars
  <2>1. UNCHANGED <<rows, edges, entries, knowledge, parsed, pass, torn, cut, settled>>
    BY <1>1 DEF indexVars, modelVars, weknoraVars, brokenVars
  <2> QED BY <2>1 DEF IndexInv, TablesOK, PassOK, SnapshotIsFresh, RecordedOrTorn,
                      EntriesAreCurrent, ParsedOrCut, NothingToWrite, StillToParse, Linked, Card
<1> QED BY <1>1, ImportKeeps, BeginKeeps, WriteKeeps, RecordKeeps, ParseKeeps, EndKeeps
        DEF IndexNext

\* For any elements and links and any limit of a pass, a settled index holds the card of
\* every element as the model has it, links included, and finds it by a search, except for
\* what a pass that broke off left rewritten and not recorded, or recorded and not parsed
\* (syncTaIndex).
THEOREM SettledIndexIsCurrent == IndexSpec => []CardsAreCurrent
<1>1. IndexInv => CardsAreCurrent
  <2> SUFFICES ASSUME IndexInv, settled, NEW x \in Nodes, rows[x] # NoCard
               PROVE  /\ entries[x] = Card(rows, edges, x)
                      /\ x \notin torn \cup cut => knowledge[x] = entries[x] /\ x \in parsed
    BY DEF CardsAreCurrent
  <2>1. entries[x] = Card(rows, edges, x) BY DEF IndexInv, EntriesAreCurrent
  <2>2. x \notin torn => knowledge[x] = entries[x] BY DEF IndexInv, RecordedOrTorn
  <2>3. entries[x] # NoCard
    <3>1. Card(rows, edges, x) \in Cards BY CardIsCard DEF IndexInv, TablesOK
    <3> QED BY <2>1, <3>1, NoCardAssumption
  <2>4. StillToParse = {} BY DEF IndexInv, NothingToWrite, StillToParse
  <2>5. x \notin torn \cup cut => x \in parsed BY <2>3, <2>4 DEF IndexInv, ParsedOrCut
  <2> QED BY <2>1, <2>2, <2>5
<1> QED BY IndexInitially, IndexStep, <1>1, PTL DEF IndexSpec

\* The tables and the pass keep their types.
LEMMA IndexTypes == IndexInv => IndexTypeOK
<1> SUFFICES ASSUME IndexInv PROVE IndexTypeOK OBVIOUS
<1>1. /\ pass.at \in {"idle", "choose", "record", "parsed"}
      /\ pass.at # "idle" => pass.written \subseteq Nodes
  <2>1. CASE pass = Idle BY <2>1 DEF Idle
  <2>2. CASE pass \in Snapshots BY <2>2 DEF Snapshots
  <2>3. CASE pass \in Writings BY <2>3 DEF Writings
  <2> QED BY <2>1, <2>2, <2>3 DEF IndexInv, PassOK
<1> QED BY <1>1 DEF IndexInv, TablesOK, Linked, IndexTypeOK
==============================================================================
