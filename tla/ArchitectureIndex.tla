------------------------- MODULE ArchitectureIndex -------------------------
(* The worker's pass over the search index of the architecture: every element *)
(* whose card is new or has changed is written to WeKnora and recorded with   *)
(* its card, up to a number in one pass; at the end those written are parsed, *)
(* and only what is parsed can be found by a search. Imports are applied at   *)
(* any moment, calls fail, and the worker dies.                               *)
EXTENDS Integers, FiniteSets

CONSTANTS
  Nodes,      \* the elements
  Edges,      \* the pairs of elements that may be linked
  Facts,      \* what the row of an element says, its name above all
  PassLimit,  \* the cards one pass may write
  NoCard      \* nothing

ASSUME IndexAssumption ==
  /\ Edges \subseteq {e \in Nodes \X Nodes : e[1] # e[2]}
  /\ NoCard \notin Facts /\ PassLimit \in Nat \ {0}

VARIABLES
  rows,       \* app.ta_elements
  edges,      \* app.ta_relations
  entries,    \* app.ta_index_entries: the card an element was recorded with
  knowledge,  \* WeKnora: what the knowledge that the entry names says
  parsed,     \* WeKnora: the elements whose knowledge was parsed as it was last written
  pass,       \* where syncTaIndex is, and the snapshot it works on
  torn,       \* the elements whose knowledge was rewritten and not recorded
  cut,        \* the elements last recorded by a pass that ended before it had them parsed
  settled     \* nothing has changed since the snapshot of a pass that did all it found

modelVars == <<rows, edges>>
weknoraVars == <<knowledge, parsed>>
brokenVars == <<torn, cut>>
indexVars == <<modelVars, entries, weknoraVars, pass, brokenVars, settled>>

\* elementCard: the element, and the names of what it is linked with.
Card(r, es, x) ==
  [says |-> r[x], links |-> {<<e, r[e[1]], r[e[2]]>> : e \in {f \in es : x \in {f[1], f[2]}}}]

Cards == [says : Facts, links : SUBSET (Edges \X Facts \X Facts)]
ASSUME NoCardAssumption == NoCard \notin Cards

Idle  == [at |-> "idle"]

IndexTypeOK ==
  /\ rows \in [Nodes -> Facts \cup {NoCard}]
  /\ edges \subseteq {e \in Edges : rows[e[1]] # NoCard /\ rows[e[2]] # NoCard}
  /\ entries \in [Nodes -> Cards \cup {NoCard}] /\ knowledge \in [Nodes -> Cards \cup {NoCard}]
  /\ pass.at \in {"idle", "choose", "record", "parsed"}
  /\ pass.at # "idle" => pass.written \subseteq Nodes
  /\ parsed \subseteq Nodes /\ torn \subseteq Nodes /\ cut \subseteq Nodes /\ settled \in BOOLEAN

IndexInit ==
  /\ rows = [x \in Nodes |-> NoCard] /\ edges = {}
  /\ entries = [x \in Nodes |-> NoCard] /\ knowledge = [x \in Nodes |-> NoCard]
  /\ parsed = {} /\ pass = Idle /\ torn = {} /\ cut = {} /\ settled = FALSE

\* An approved import changes a row or a link; one that changes more is several of these.
Touched == IF pass.at = "idle" THEN pass ELSE [pass EXCEPT !.overtaken = TRUE]

ImportRow(x, fact) ==
  /\ rows[x] # fact
  /\ rows' = [rows EXCEPT ![x] = fact]
  /\ pass' = Touched /\ settled' = FALSE
  /\ UNCHANGED <<edges, entries, weknoraVars, brokenVars>>

ImportEdge(e) ==
  /\ rows[e[1]] # NoCard /\ rows[e[2]] # NoCard
  /\ edges' = IF e \in edges THEN edges \ {e} ELSE edges \cup {e}
  /\ pass' = Touched /\ settled' = FALSE
  /\ UNCHANGED <<rows, entries, weknoraVars, brokenVars>>
------------------------------------------------------------------------------
\* ta_index_snapshot, one statement.
BeginPass ==
  /\ pass.at = "idle"
  /\ pass' = [at |-> "choose", rows |-> rows, edges |-> edges, entries |-> entries,
              written |-> {}, overtaken |-> FALSE]
  /\ UNCHANGED <<modelVars, entries, weknoraVars, brokenVars, settled>>

\* Mutant: a card is out of date when the row of its element has changed.
RowDiffers(x) == \/ pass.entries[x] = NoCard
                 \/ pass.entries[x] # NoCard /\ pass.entries[x].says # pass.rows[x]

\* The recorded card is compared with the whole card, links and all.
CardDiffers(x) == pass.entries[x] # Card(pass.rows, pass.edges, x)

OutOfDate == {x \in Nodes : pass.rows[x] # NoCard /\ CardDiffers(x)}

MayWrite == Cardinality(pass.written) < PassLimit

\* The knowledge an entry names is rewritten; without an entry it is created, and
\* nothing names it yet.
WriteCard(x) ==
  /\ pass.at = "choose" /\ MayWrite /\ x \in OutOfDate
  /\ pass' = [at |-> "record", rows |-> pass.rows, edges |-> pass.edges,
              entries |-> pass.entries, written |-> pass.written,
              overtaken |-> pass.overtaken, element |-> x]
  /\ IF pass.entries[x] = NoCard THEN UNCHANGED <<weknoraVars, torn>>
     ELSE /\ knowledge' = [knowledge EXCEPT ![x] = Card(pass.rows, pass.edges, x)]
          /\ parsed' = parsed \ {x}
          /\ torn' = torn \cup {x}
  /\ UNCHANGED <<modelVars, entries, cut, settled>>

\* ta_index_record; the loop does not come back to this element.
RecordCard ==
  LET x == pass.element  card == Card(pass.rows, pass.edges, x) IN
  /\ pass.at = "record"
  /\ entries' = [entries EXCEPT ![x] = card]
  /\ knowledge' = [knowledge EXCEPT ![x] = card]
  /\ parsed' = parsed \ {x}
  /\ torn' = torn \ {x} /\ cut' = cut \ {x}
  /\ pass' = [at |-> "choose", rows |-> pass.rows, edges |-> pass.edges,
              entries |-> [pass.entries EXCEPT ![x] = card],
              written |-> pass.written \cup {x}, overtaken |-> pass.overtaken]
  /\ UNCHANGED <<modelVars, settled>>

LoopIsOver == pass.at = "choose" /\ (~MayWrite \/ OutOfDate = {})

\* Mutant: the batch that is parsed is empty.
ParseNothing == parsed' = parsed

ParseAll == parsed' = parsed \cup pass.written

\* client.reparseKnowledge(written), carried out.
ParseWritten ==
  /\ LoopIsOver /\ pass.written # {}
  /\ ParseAll
  /\ pass' = [pass EXCEPT !.at = "parsed"]
  /\ UNCHANGED <<modelVars, entries, knowledge, brokenVars, settled>>

\* There was nothing to parse, or it is done.
EndPass ==
  /\ pass.at = "parsed" \/ (LoopIsOver /\ pass.written = {})
  /\ settled' = (settled \/ (OutOfDate = {} /\ ~pass.overtaken))
  /\ pass' = Idle
  /\ UNCHANGED <<modelVars, entries, weknoraVars, brokenVars>>

\* A call fails and ends the pass, or the worker dies: nothing remembers what was
\* recorded and is still to be parsed. WeKnora may have carried the last call out.
PassFails ==
  /\ pass.at # "idle" /\ pass' = Idle
  /\ cut' = IF pass.at = "parsed" THEN cut ELSE cut \cup pass.written
  /\ UNCHANGED <<modelVars, entries, weknoraVars, torn, settled>>

IndexNext ==
  \/ \E x \in Nodes, fact \in Facts : ImportRow(x, fact)
  \/ \E e \in Edges : ImportEdge(e)
  \/ BeginPass \/ RecordCard \/ ParseWritten \/ EndPass \/ PassFails
  \/ \E x \in Nodes : WriteCard(x)

IndexSpec == IndexInit /\ [][IndexNext]_indexVars
------------------------------------------------------------------------------
\* Once a pass has done all it found and no import came since, the entry of every element
\* is its card, links included, and WeKnora holds that card and finds it by a search
\* (syncTaIndex compares the hash of the card with the entry). What a pass that broke off
\* left behind is excepted: knowledge it rewrote and did not record, and cards it recorded
\* and did not have parsed.
CardsAreCurrent == settled =>
  \A x \in Nodes : rows[x] # NoCard =>
    /\ entries[x] = Card(rows, edges, x)
    /\ x \notin torn \cup cut => knowledge[x] = entries[x] /\ x \in parsed

\* "Tried again in the next round", as the worker logs a pass that broke off: when a later
\* one has done all it found, every element can be found by a search.
BrokenPassIsTriedAgain == settled => \A x \in Nodes : rows[x] # NoCard => x \in parsed
==============================================================================
