------------------------------ MODULE Taxonomy ------------------------------
(* The category tree. Readers are granted a category and with it everything   *)
(* below; a category's floor binds every document below it. Every change of   *)
(* the tree holds one exclusive lock, which uploads take shared, so each      *)
(* function is one step; what is checked is what long sequences of them do.   *)
(* Administrators have global scope, and a form that is out of date is        *)
(* refused by its revision, so every save is made on what it shows.           *)
EXTENDS Integers, FiniteSets

CONSTANTS
  Categories,  \* the ids of categories
  Uploads,     \* the upload requests; a stored one is a document
  TopFloor,    \* the strictest classification, as a rank
  NoCategory   \* SQL NULL, or nothing

ASSUME TaxonomyAssumption ==
  /\ IsFiniteSet(Categories) /\ NoCategory \notin Categories
  /\ TopFloor \in Nat \ {0}
  \* a row is something else than NULL
  /\ NoCategory \notin [parent : Categories \cup {NoCategory}, floor : 1 .. TopFloor]

VARIABLES
  categories,  \* app.categories
  uploads,     \* app.upload_requests and app.documents
  labelled     \* the categories that have labels

taxonomyVars == <<categories, uploads, labelled>>

Ranks     == 1 .. TopFloor
MaxLevels == 3

TaxonomyTypeOK ==
  /\ categories \in [Categories -> {NoCategory} \cup
                       [parent : Categories \cup {NoCategory}, floor : Ranks]]
  /\ uploads \in [Uploads -> {NoCategory} \cup
                    [category : Categories, rank : Ranks, stored : BOOLEAN]]
  /\ labelled \subseteq Categories

\* The first category of an empty portal is yet to be made.
TaxonomyInit ==
  /\ categories = [c \in Categories |-> NoCategory]
  /\ uploads = [u \in Uploads |-> NoCategory]
  /\ labelled = {}

Exists(c) == c \in Categories /\ categories[c] # NoCategory
Tree      == {c \in Categories : Exists(c)}

WithParents(S) == S \cup ({categories[d].parent : d \in S} \ {NoCategory})

\* A category and all above it, what in_category and category_floor walk up, as far as
\* one level more than there may be.
Branch(c) == IF Exists(c) THEN WithParents(WithParents(WithParents({c}))) ELSE {}

Children(c) == {d \in Tree : categories[d].parent = c}

\* category_floor: the strictest floor on the way up.
EffectiveFloor(c) == CHOOSE f \in Ranks :
  /\ \E d \in Branch(c) : categories[d].floor = f
  /\ \A d \in Branch(c) : categories[d].floor <= f

Requested(c)      == \E u \in Uploads : uploads[u] # NoCategory /\ uploads[u].category = c
Stored            == {u \in Uploads : uploads[u] # NoCategory /\ uploads[u].stored}
HoldsDocuments(c) == \E u \in Stored : uploads[u].category = c
------------------------------------------------------------------------------
\* Mutant: the levels below the category are not counted.
NoLevelsBelow(c) == 1

\* The levels of the subtree of c, one for a category that is yet to be made.
Levels(c) ==
  LET below == Children(c) IN
  CASE below = {} -> 1
    [] below # {} /\ \A d \in Tree : categories[d].parent \notin below -> 2
    [] OTHER -> MaxLevels

\* What save_category asks of the place: not below itself, no documents, three levels.
MayHang(c, parent) ==
  LET above == Branch(parent) IN
  /\ parent # NoCategory => Exists(parent) /\ ~HoldsDocuments(parent)
  /\ parent # c /\ c \notin above
  /\ Cardinality(above) + Levels(c) <= MaxLevels

\* Mutant: only the category's own documents keep it where it is.
MovesAlone(c, parent) == categories[c].parent = parent \/ ~HoldsDocuments(c)

\* A branch with documents stays where it is, because a move changes who may read them.
MayMove(c, parent) ==
  categories[c].parent = parent \/ \A u \in Stored : c \notin Branch(uploads[u].category)

AddCategory(c, parent, floor) ==
  /\ ~Exists(c) /\ MayHang(c, parent)
  /\ categories' = [categories EXCEPT ![c] = [parent |-> parent, floor |-> floor]]
  /\ UNCHANGED <<uploads, labelled>>

\* A raised floor needs the confirmation that the form asks for; none is lowered.
ChangeCategory(c, parent, floor) ==
  /\ Exists(c) /\ floor >= categories[c].floor
  /\ MayMove(c, parent) /\ MayHang(c, parent)
  /\ categories' = [categories EXCEPT ![c] = [parent |-> parent, floor |-> floor]]
  /\ UNCHANGED <<uploads, labelled>>

DeleteCategory(c) ==
  /\ Exists(c) /\ Children(c) = {} /\ ~Requested(c) /\ c \notin labelled
  /\ categories' = [categories EXCEPT ![c] = NoCategory]
  /\ UNCHANGED <<uploads, labelled>>

\* save_label: a category gets its first label, or loses the last one (see Labels).
ChangeLabels(c) ==
  /\ Exists(c)
  /\ labelled' = IF c \in labelled THEN labelled \ {c} ELSE labelled \cup {c}
  /\ UNCHANGED <<categories, uploads>>
------------------------------------------------------------------------------
\* Mutant: any category in scope takes documents.
AnyCategory(c, rank) == Exists(c) /\ rank >= EffectiveFloor(c)

\* can_upload_to and the floor: checked when a request is reserved, and again by the
\* row policy when the draft is inserted.
TakesDraft(c, rank) == Exists(c) /\ Children(c) = {} /\ rank >= EffectiveFloor(c)

Reserve(u, c, rank) ==
  /\ uploads[u] = NoCategory /\ TakesDraft(c, rank)
  /\ uploads' = [uploads EXCEPT ![u] = [category |-> c, rank |-> rank, stored |-> FALSE]]
  /\ UNCHANGED <<categories, labelled>>

\* Between the two the file is scanned and converted; the tree may have changed.
StoreDraft(u) ==
  /\ uploads[u] # NoCategory /\ ~uploads[u].stored
  /\ TakesDraft(uploads[u].category, uploads[u].rank)
  /\ uploads' = [uploads EXCEPT ![u].stored = TRUE]
  /\ UNCHANGED <<categories, labelled>>
------------------------------------------------------------------------------
TaxonomyNext ==
  \/ \E c \in Categories, parent \in Categories \cup {NoCategory} :
       \/ \E floor \in Ranks : AddCategory(c, parent, floor)
       \/ \E floor \in Ranks : ChangeCategory(c, parent, floor)
  \/ \E c \in Categories : DeleteCategory(c) \/ ChangeLabels(c)
  \/ \E u \in Uploads, c \in Categories, rank \in Ranks : Reserve(u, c, rank)
  \/ \E u \in Uploads : StoreDraft(u)

TaxonomySpec == TaxonomyInit /\ [][TaxonomyNext]_taxonomyVars
------------------------------------------------------------------------------
\* Whatever is created, moved, deleted and uploaded in whatever order, the categories
\* are a forest of at most three levels, and documents hang on leaves that exist
\* (save_category, delete_category, can_upload_to).
TreeStaysWhole ==
  /\ \A c \in Tree : LET parent == categories[c].parent IN
       /\ parent # NoCategory => Exists(parent) /\ c \notin Branch(parent)
       /\ Cardinality(Branch(c)) <= MaxLevels
  /\ \A c \in Categories : HoldsDocuments(c) => Exists(c) /\ Children(c) = {}

\* No edit of the tree lets anybody else read a document: the categories whose grants
\* reach it stay the same, and the floor over it never sinks (save_category).
DocumentsKeepTheirReaders ==
  [][\A c \in Categories : HoldsDocuments(c) =>
       /\ Branch(c)' = Branch(c)
       /\ EffectiveFloor(c)' >= EffectiveFloor(c)]_taxonomyVars
==============================================================================
