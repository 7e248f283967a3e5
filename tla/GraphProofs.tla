------------------------------- MODULE GraphProofs ------------------------------
(***************************************************************************)
(* The knowledge graph (KnowledgeGraph), for every value of the constants: *)
(* GraphInv says that edges have their ends and that what an update saved  *)
(* stays but for the writes of others, QueryInv what a traversal knows of  *)
(* the graph while it goes on.  The steps of the graph keep both, and they *)
(* say what the graph and its traversals promise; StoresProofs states that *)
(* of the parts that are kept beside the runs.                             *)
(***************************************************************************)
EXTENDS KnowledgeGraph, SequenceTheorems, FiniteSetTheorems, WellFoundedInduction, TLAPS

\* A set of numbers has a least one.
LEMMA LeastNumber ==
  ASSUME NEW S \in SUBSET Nat, S # {}
  PROVE  \E x \in S : \A y \in S : x <= y
<1> DEFINE R == OpToRel(<, Nat)
<1>1. IsWellFoundedOn(R, Nat)
  BY NatLessThanWellFounded
<1>2. \A x, y \in Nat : y < x => <<y, x>> \in R
  BY DEF OpToRel
<1> HIDE DEF R
<1>3. PICK x \in S : \A y \in S : ~(<<y, x>> \in R)
  BY <1>1, WFMin
<1>4. ASSUME NEW y \in S PROVE x <= y
  <2>1. x \in Nat /\ y \in Nat
    OBVIOUS
  <2>2. ~(y < x)
    BY <1>2, <1>3, <2>1
  <2>3. QED
    BY <2>1, <2>2
<1>5. QED
  BY <1>4

-----------------------------------------------------------------------------
(* KnowledgeGraph: the rows of the graph and the edits of them.            *)

\* The tables as a step leaves them.
TablesTypeOK ==
  /\ DOMAIN nodes \subseteq NodeIds /\ DOMAIN edges \subseteq EdgeIds
  /\ \A n \in DOMAIN nodes : nodes[n] \in [Columns -> Values]
  /\ DOMAIN lastGiven = DOMAIN nodes \cup DOMAIN edges /\ DOMAIN lastGiven \subseteq usedIds

\* What a node or an edge holds now.
RowOf(i) == IF i \in NodeIds THEN nodes[i] ELSE edges[i]

\* What an update read of a row is what the row holds, unless another update of it
\* ran at the same time: rows are deleted but never made again.
EditIsFresh(c) ==
  edit[c] # NoEdit =>
    /\ edit[c].at = "read" /\ edit[c].id \in usedIds
    /\ edit[c].id \in NodeIds => /\ edit[c].row \in [Columns -> Values]
                                 /\ edit[c].input \in [Columns -> Values \cup {0}]
    /\ edit[c].id \in DOMAIN lastGiven \ overlapped => edit[c].row = RowOf(edit[c].id)
EditsAreFresh == \A c \in Editors : EditIsFresh(c)
EditsOverlap ==
  \A c, d \in Editors :
    c # d /\ edit[c] # NoEdit /\ edit[d] # NoEdit /\ edit[c].id = edit[d].id
      => edit[c].id \in overlapped

GraphInv ==
  /\ TablesTypeOK /\ edit \in [Editors -> {edit[c] : c \in Editors}]
  /\ EditsAreFresh /\ EditsOverlap /\ EdgesHaveTheirEnds /\ UpdatesStay
  /\ writes \in 0..MaxWrites /\ edits \in 0..MaxUpdates

LEMMA GraphStart == KnowledgeInit => GraphInv
<1> SUFFICES ASSUME KnowledgeInit PROVE GraphInv
  OBVIOUS
<1>1. FirstRow \in [Columns -> Values]
  BY KnowledgeAssumption DEF FirstRow
<1>2. DOMAIN edges \subseteq EdgeIds /\ \A e \in DOMAIN edges : Ends(edges[e]) \subseteq NodeIds
  BY KnowledgeAssumption DEF KnowledgeInit, Ends
<1>3. /\ DOMAIN nodes = NodeIds /\ \A n \in NodeIds : nodes[n] = FirstRow
      /\ usedIds = NodeIds \cup DOMAIN edges /\ DOMAIN lastGiven = usedIds
      /\ \A i \in usedIds : lastGiven[i] = IF i \in NodeIds THEN FirstRow ELSE edges[i]
  BY DEF KnowledgeInit
<1>4. TablesTypeOK /\ EdgesHaveTheirEnds
  BY <1>1, <1>2, <1>3 DEF TablesTypeOK, EdgesHaveTheirEnds
<1>5. UpdatesStay
  BY <1>3 DEF UpdatesStay
<1>6. edit = [c \in Editors |-> NoEdit]
  BY DEF KnowledgeInit
<1>7. EditsAreFresh /\ EditsOverlap /\ edit \in [Editors -> {edit[c] : c \in Editors}]
  BY <1>6 DEF EditsAreFresh, EditsOverlap, EditIsFresh
<1>8. writes \in 0..MaxWrites /\ edits \in 0..MaxUpdates
  BY KnowledgeAssumption DEF KnowledgeInit
<1>9. QED
  BY <1>4, <1>5, <1>7, <1>8 DEF GraphInv

\* A step that adds and deletes rows but changes none: what it leaves is as it was,
\* and what it adds was never there.
RowsStay(new) ==
  /\ \A n \in DOMAIN nodes' \ new : n \in DOMAIN nodes /\ nodes'[n] = nodes[n]
  /\ \A e \in DOMAIN edges' \ new : e \in DOMAIN edges /\ edges'[e] = edges[e]
  /\ \A i \in DOMAIN lastGiven' \ new : i \in DOMAIN lastGiven /\ lastGiven'[i] = lastGiven[i]
  /\ new \cap usedIds = {} /\ usedIds' = usedIds \cup new

LEMMA RowsStayFresh ==
  ASSUME GraphInv, NEW new, RowsStay(new), UNCHANGED <<edit, overlapped>>,
         DOMAIN lastGiven' \subseteq NodeIds \cup EdgeIds,
         DOMAIN lastGiven' = DOMAIN nodes' \cup DOMAIN edges',
         DOMAIN nodes' \subseteq NodeIds, DOMAIN edges' \subseteq EdgeIds
  PROVE  EditsAreFresh' /\ EditsOverlap'
<1>1. NodeIds \cap EdgeIds = {}
  BY KnowledgeAssumption
<1>2. EditsOverlap'
  BY DEF GraphInv, EditsOverlap
<1>3. ASSUME NEW c \in Editors, edit[c] # NoEdit
      PROVE  EditIsFresh(c)'
  <2> DEFINE i == edit[c].id
  <2>1. /\ edit[c].at = "read" /\ i \in usedIds
        /\ i \in NodeIds => /\ edit[c].row \in [Columns -> Values]
                            /\ edit[c].input \in [Columns -> Values \cup {0}]
        /\ i \in DOMAIN lastGiven \ overlapped => edit[c].row = RowOf(i)
    BY <1>3 DEF GraphInv, EditsAreFresh, EditIsFresh
  <2>2. edit' = edit /\ overlapped' = overlapped /\ i \in usedIds' /\ i \notin new /\ i' = i
    BY <2>1 DEF RowsStay
  <2> HIDE DEF i
  <2>3. ASSUME i \in DOMAIN lastGiven', i \notin overlapped PROVE edit[c].row = RowOf(i)'
    <3>1. i \in DOMAIN lastGiven
      BY <2>2, <2>3 DEF RowsStay
    <3>2. RowOf(i)' = RowOf(i)
      <4>1. CASE i \in NodeIds
        <5>1. i \in DOMAIN nodes'
          BY <4>1, <1>1, <2>3
        <5>2. nodes'[i] = nodes[i]
          BY <5>1, <2>2 DEF RowsStay
        <5>3. QED
          BY <5>2, <4>1, <2>2 DEF RowOf
      <4>2. CASE i \notin NodeIds
        <5>1. i \in DOMAIN edges'
          BY <4>2, <2>3
        <5>2. edges'[i] = edges[i]
          BY <5>1, <2>2 DEF RowsStay
        <5>3. QED
          BY <5>2, <4>2, <2>2 DEF RowOf
      <4>3. QED
        BY <4>1, <4>2
    <3>3. QED
      BY <2>1, <2>3, <3>1, <3>2
  <2>4. QED
    BY <2>1, <2>2, <2>3 DEF EditIsFresh, i
<1>4. ASSUME NEW c \in Editors, edit[c] = NoEdit PROVE EditIsFresh(c)'
  BY <1>4 DEF EditIsFresh
<1>5. QED
  BY <1>2, <1>3, <1>4 DEF EditsAreFresh

LEMMA RowsStayKept ==
  ASSUME GraphInv, NEW new, RowsStay(new), UNCHANGED <<edit, overlapped>>,
         TablesTypeOK', EdgesHaveTheirEnds', writes' \in 0..MaxWrites, edits' = edits,
         \A i \in new \cap DOMAIN lastGiven' : lastGiven'[i] = RowOf(i)'
  PROVE  GraphInv'
<1>1. EditsAreFresh' /\ EditsOverlap'
  <2>1. DOMAIN lastGiven' \subseteq NodeIds \cup EdgeIds
    BY DEF TablesTypeOK
  <2>2. QED
    BY <2>1, RowsStayFresh DEF TablesTypeOK
<1>2. ASSUME NEW i \in DOMAIN lastGiven', i \notin overlapped' PROVE lastGiven'[i] = RowOf(i)'
  <2>1. CASE i \in new
    BY <2>1
  <2>2. CASE i \notin new
    <3>1. i \in DOMAIN lastGiven /\ lastGiven'[i] = lastGiven[i] /\ i \notin overlapped
      BY <1>2, <2>2 DEF RowsStay
    <3>2. lastGiven[i] = RowOf(i)
      BY <3>1 DEF GraphInv, UpdatesStay, RowOf
    <3>3. i \in DOMAIN nodes' \/ i \in DOMAIN edges'
      BY <1>2 DEF TablesTypeOK
    <3>4. RowOf(i)' = RowOf(i)
      <4>1. NodeIds \cap EdgeIds = {} /\ DOMAIN nodes' \subseteq NodeIds /\ DOMAIN edges' \subseteq EdgeIds
        BY KnowledgeAssumption DEF TablesTypeOK
      <4>2. CASE i \in DOMAIN nodes'
        BY <4>1, <4>2, <2>2 DEF RowsStay, RowOf
      <4>3. CASE i \in DOMAIN edges'
        BY <4>1, <4>3, <2>2 DEF RowsStay, RowOf
      <4>4. QED
        BY <3>3, <4>2, <4>3
    <3>5. QED
      BY <3>1, <3>2, <3>4
  <2>3. QED
    BY <2>1, <2>2
<1>3. UpdatesStay'
  BY <1>2 DEF UpdatesStay, RowOf
<1>4. QED
  BY <1>1, <1>3 DEF GraphInv

LEMMA WrittenWithin ==
  ASSUME GraphInv, Wrote
  PROVE  writes' \in 0..MaxWrites
BY KnowledgeAssumption DEF GraphInv, Wrote

LEMMA DeletesKeep ==
  ASSUME GraphInv, NEW n, DeleteNode(n) \/ DeleteEdge(n), n \in NodeIds \cup EdgeIds
  PROVE  GraphInv'
<1> DEFINE goneNodes == DOMAIN nodes \ DOMAIN nodes'
           goneEdges == DOMAIN edges \ DOMAIN edges'
<1>0. NodeIds \cap EdgeIds = {} /\ TablesTypeOK
  BY KnowledgeAssumption DEF GraphInv
<1>1. writes' \in 0..MaxWrites /\ edits' = edits /\ UNCHANGED <<usedIds, edit, overlapped>>
  BY WrittenWithin DEF DeleteNode, DeleteEdge
<1>2. CASE DeleteNode(n)
  <2>1. /\ n \in DOMAIN nodes /\ DOMAIN nodes' = DOMAIN nodes \ {n}
        /\ \A m \in DOMAIN nodes' : nodes'[m] = nodes[m]
        /\ DOMAIN edges' = DOMAIN edges \ Incident(n)
        /\ \A e \in DOMAIN edges' : edges'[e] = edges[e]
        /\ DOMAIN lastGiven' = DOMAIN lastGiven \ ({n} \cup Incident(n))
        /\ \A i \in DOMAIN lastGiven' : lastGiven'[i] = lastGiven[i]
    BY <1>2 DEF DeleteNode, Without
  <2>2. Incident(n) \subseteq DOMAIN edges
    BY DEF Incident
  <2>3. TablesTypeOK'
    BY <1>0, <1>1, <2>1, <2>2 DEF TablesTypeOK
  <2>4. ASSUME NEW e \in DOMAIN edges' PROVE Ends(edges'[e]) \subseteq DOMAIN nodes'
    <3>1. e \in DOMAIN edges /\ e \notin Incident(n) /\ edges'[e] = edges[e]
      BY <2>1
    <3>2. n \notin Ends(edges[e])
      BY <3>1 DEF Incident
    <3>3. Ends(edges[e]) \subseteq DOMAIN nodes
      BY <3>1 DEF GraphInv, EdgesHaveTheirEnds
    <3>4. QED
      BY <2>1, <3>1, <3>2, <3>3
  <2>5. EdgesHaveTheirEnds'
    BY <2>4 DEF EdgesHaveTheirEnds, Ends
  <2>6. RowsStay({})
    BY <1>1, <2>1 DEF RowsStay
  <2>7. QED
    BY <1>1, <2>3, <2>5, <2>6, RowsStayKept
<1>3. CASE DeleteEdge(n)
  <2>1. /\ n \in DOMAIN edges /\ nodes' = nodes
        /\ DOMAIN edges' = DOMAIN edges \ {n}
        /\ \A e \in DOMAIN edges' : edges'[e] = edges[e]
        /\ DOMAIN lastGiven' = DOMAIN lastGiven \ {n}
        /\ \A i \in DOMAIN lastGiven' : lastGiven'[i] = lastGiven[i]
    BY <1>3 DEF DeleteEdge, Without
  <2>2. n \notin DOMAIN nodes
    BY <1>0, <2>1 DEF TablesTypeOK
  <2>3. TablesTypeOK'
    BY <1>0, <1>1, <2>1, <2>2 DEF TablesTypeOK
  <2>4. EdgesHaveTheirEnds'
    BY <2>1 DEF GraphInv, EdgesHaveTheirEnds, Ends
  <2>5. RowsStay({})
    BY <1>1, <2>1 DEF RowsStay
  <2>6. QED
    BY <1>1, <2>3, <2>4, <2>5, RowsStayKept
<1>4. QED
  BY <1>2, <1>3

LEMMA CreatesKeep ==
  ASSUME GraphInv,
         \/ \E n \in NodeIds : CreateNode(n, FirstRow)
         \/ \E e \in EdgeIds, source, target \in NodeIds : CreateEdge(e, source, target)
  PROVE  GraphInv'
<1>0. NodeIds \cap EdgeIds = {} /\ TablesTypeOK /\ FirstRow \in [Columns -> Values]
  BY KnowledgeAssumption DEF GraphInv, FirstRow
<1>1. CASE \E n \in NodeIds : CreateNode(n, FirstRow)
  <2>1. PICK n \in NodeIds : CreateNode(n, FirstRow)
    BY <1>1
  <2>2. writes' \in 0..MaxWrites /\ edits' = edits /\ UNCHANGED <<edges, edit, overlapped>>
        /\ n \notin usedIds /\ usedIds' = usedIds \cup {n}
    BY <2>1, WrittenWithin DEF CreateNode
  <2>3. /\ DOMAIN nodes' = DOMAIN nodes \cup {n}
        /\ \A m \in DOMAIN nodes' : nodes'[m] = IF m = n THEN FirstRow ELSE nodes[m]
        /\ DOMAIN lastGiven' = DOMAIN lastGiven \cup {n}
        /\ \A i \in DOMAIN lastGiven' : lastGiven'[i] = IF i = n THEN FirstRow ELSE lastGiven[i]
    BY <2>1 DEF CreateNode, With
  <2>4. n \notin DOMAIN nodes /\ n \notin DOMAIN edges
    BY <1>0, <2>2 DEF TablesTypeOK
  <2>5. TablesTypeOK'
    BY <1>0, <2>2, <2>3, <2>4 DEF TablesTypeOK
  <2>6. EdgesHaveTheirEnds'
    BY <2>2, <2>3 DEF GraphInv, EdgesHaveTheirEnds, Ends
  <2>7. RowsStay({n})
    BY <2>2, <2>3, <2>4 DEF RowsStay
  <2>8. \A i \in {n} \cap DOMAIN lastGiven' : lastGiven'[i] = RowOf(i)'
    BY <2>3 DEF RowOf
  <2>9. QED
    BY <2>2, <2>5, <2>6, <2>7, <2>8, RowsStayKept
<1>2. CASE \E e \in EdgeIds, source, target \in NodeIds : CreateEdge(e, source, target)
  <2>1. PICK e \in EdgeIds, source \in NodeIds, target \in NodeIds : CreateEdge(e, source, target)
    BY <1>2
  <2> DEFINE row == [source |-> source, target |-> target]
  <2>2. writes' \in 0..MaxWrites /\ edits' = edits /\ UNCHANGED <<nodes, edit, overlapped>>
        /\ e \notin usedIds /\ usedIds' = usedIds \cup {e} /\ {source, target} \subseteq DOMAIN nodes
    BY <2>1, WrittenWithin DEF CreateEdge
  <2>3. /\ DOMAIN edges' = DOMAIN edges \cup {e}
        /\ \A m \in DOMAIN edges' : edges'[m] = IF m = e THEN row ELSE edges[m]
        /\ DOMAIN lastGiven' = DOMAIN lastGiven \cup {e}
        /\ \A i \in DOMAIN lastGiven' : lastGiven'[i] = IF i = e THEN row ELSE lastGiven[i]
    BY <2>1 DEF CreateEdge, With
  <2>4. e \notin DOMAIN nodes /\ e \notin DOMAIN edges /\ e \notin NodeIds
    BY <1>0, <2>2 DEF TablesTypeOK
  <2>5. Ends(row) = {source, target}
    BY DEF Ends
  <2> HIDE DEF row
  <2>6. TablesTypeOK'
    BY <1>0, <2>2, <2>3, <2>4 DEF TablesTypeOK
  <2>7. EdgesHaveTheirEnds'
    <3>1. \A m \in DOMAIN edges' : Ends(edges'[m]) \subseteq DOMAIN nodes
      BY <2>2, <2>3, <2>5 DEF GraphInv, EdgesHaveTheirEnds
    <3>2. QED
      BY <3>1, <2>2 DEF EdgesHaveTheirEnds, Ends
  <2>8. RowsStay({e})
    BY <2>2, <2>3, <2>4 DEF RowsStay
  <2>9. \A i \in {e} \cap DOMAIN lastGiven' : lastGiven'[i] = RowOf(i)'
    BY <2>3, <2>4 DEF RowOf
  <2>10. QED
    BY <2>2, <2>6, <2>7, <2>8, <2>9, RowsStayKept
<1>3. QED
  BY <1>1, <1>2

\* The tables are left alone.
Leaves == UNCHANGED <<nodes, edges, usedIds, lastGiven, writes>>

LEMMA EditBeginsKeeps ==
  ASSUME GraphInv, NEW c \in Editors, NEW i \in DOMAIN lastGiven, NEW input,
         EditBegins(c, i, RowOf(i), input), i \in NodeIds => input \in NodeInputs
  PROVE  GraphInv'
<1> DEFINE begun == [at |-> "read", id |-> i, row |-> RowOf(i), input |-> input]
<1>1. /\ edit[c] = NoEdit /\ edits < MaxUpdates /\ edits' = edits + 1 /\ Leaves
      /\ edit' = [edit EXCEPT ![c] = begun]
      /\ overlapped' = IF \E d \in Editors : edit[d] # NoEdit /\ edit[d].id = i
                       THEN overlapped \cup {i} ELSE overlapped
  BY DEF EditBegins, Leaves
<1>2. begun.at = "read" /\ begun.id = i /\ begun.row = RowOf(i) /\ begun.input = input
  OBVIOUS
<1> HIDE DEF begun
<1>3. \A d \in Editors : edit'[d] = IF d = c THEN begun ELSE edit[d]
  BY <1>1 DEF GraphInv
<1>4. edit' \in [Editors -> {edit'[d] : d \in Editors}]
  BY <1>1 DEF GraphInv
<1>5. \A j : RowOf(j)' = RowOf(j)
  BY <1>1 DEF RowOf, Leaves
<1>6. TablesTypeOK' /\ EdgesHaveTheirEnds' /\ writes' \in 0..MaxWrites
  BY <1>1 DEF GraphInv, TablesTypeOK, EdgesHaveTheirEnds, Ends, Leaves
<1>7. UpdatesStay'
  <2>1. overlapped \subseteq overlapped'
    BY <1>1
  <2>2. QED
    BY <1>1, <2>1 DEF GraphInv, UpdatesStay, Leaves
<1>8. edits' \in 0..MaxUpdates
  BY <1>1, KnowledgeAssumption DEF GraphInv
<1>9. ASSUME NEW d \in Editors, edit'[d] # NoEdit
      PROVE  EditIsFresh(d)'
  <2>1. CASE d = c
    <3>1. i \in usedIds /\ (i \in NodeIds => nodes[i] \in [Columns -> Values])
      BY KnowledgeAssumption DEF GraphInv, TablesTypeOK
    <3>2. i \in NodeIds => input \in [Columns -> Values \cup {0}]
      BY KnowledgeAssumption
    <3>3. edit'[d] = begun /\ usedIds' = usedIds /\ RowOf(i)' = RowOf(i)
      BY <2>1, <1>1, <1>3, <1>5 DEF Leaves
    <3>4. i \in NodeIds => RowOf(i) = nodes[i]
      BY DEF RowOf
    <3>5. edit'[d].at = "read" /\ edit'[d].id = i /\ edit'[d].row = RowOf(i) /\ edit'[d].input = input
      BY <1>2, <3>3
    <3>6. RowOf(edit[d].id)' = RowOf(i)
      BY <3>3, <3>5 DEF RowOf
    <3>7. QED
      BY <3>1, <3>2, <3>3, <3>4, <3>5, <3>6 DEF EditIsFresh
  <2>2. CASE d # c
    <3>1. edit'[d] = edit[d] /\ overlapped \subseteq overlapped' /\ usedIds' = usedIds /\ lastGiven' = lastGiven
      BY <2>2, <1>1, <1>3 DEF Leaves
    <3>2. EditIsFresh(d)
      BY DEF GraphInv, EditsAreFresh
    <3>3. RowOf(edit[d].id)' = RowOf(edit[d].id)
      BY <3>1, <1>1 DEF RowOf, Leaves
    <3>4. QED
      BY <3>1, <3>2, <3>3 DEF EditIsFresh
  <2>3. QED
    BY <2>1, <2>2
<1>10. ASSUME NEW d \in Editors, NEW k \in Editors, d # k, edit'[d] # NoEdit, edit'[k] # NoEdit,
              edit'[d].id = edit'[k].id
       PROVE  edit'[d].id \in overlapped'
  <2>1. CASE d = c
    <3>1. edit'[k] = edit[k] /\ edit'[d].id = i
      BY <1>2, <1>3, <1>10, <2>1
    <3>2. edit[k] # NoEdit /\ edit[k].id = i
      BY <3>1, <1>10
    <3>3. i \in overlapped'
      BY <3>2, <1>1
    <3>4. QED
      BY <3>1, <3>3
  <2>2. CASE k = c
    <3>1. edit'[d] = edit[d] /\ edit'[k].id = i
      BY <1>2, <1>3, <1>10, <2>2
    <3>2. edit[d] # NoEdit /\ edit[d].id = i
      BY <3>1, <1>10
    <3>3. i \in overlapped'
      BY <3>2, <1>1
    <3>4. QED
      BY <3>1, <3>2, <3>3
  <2>3. CASE d # c /\ k # c
    <3>1. edit'[d] = edit[d] /\ edit'[k] = edit[k]
      BY <1>3, <2>3
    <3>2. edit[d].id \in overlapped
      BY <3>1, <1>10 DEF GraphInv, EditsOverlap
    <3>3. QED
      BY <3>1, <3>2, <1>1
  <2>4. QED
    BY <2>1, <2>2, <2>3
<1>11. EditsAreFresh'
  BY <1>9 DEF EditsAreFresh, EditIsFresh
<1>12. EditsOverlap'
  BY <1>10 DEF EditsOverlap
<1>13. QED
  BY <1>4, <1>6, <1>7, <1>8, <1>11, <1>12 DEF GraphInv

\* An update ends: it wrote the row it read, or nothing.
LEMMA EditEnds ==
  ASSUME GraphInv, NEW c \in Editors, edit[c] # NoEdit, edit' = [edit EXCEPT ![c] = NoEdit],
         overlapped' = overlapped, usedIds' = usedIds, edits' = edits, writes' = writes,
         TablesTypeOK', EdgesHaveTheirEnds', UpdatesStay', DOMAIN lastGiven' = DOMAIN lastGiven,
         \A i : i # edit[c].id => RowOf(i)' = RowOf(i)
  PROVE  GraphInv'
<1>1. \A d \in Editors : edit'[d] = IF d = c THEN NoEdit ELSE edit[d]
  BY DEF GraphInv
<1>2. edit' \in [Editors -> {edit'[d] : d \in Editors}]
  BY DEF GraphInv
<1>3. ASSUME NEW d \in Editors, edit'[d] # NoEdit PROVE EditIsFresh(d)'
  <2>1. d # c /\ edit'[d] = edit[d] /\ edit[d] # NoEdit
    BY <1>1, <1>3
  <2>2. EditIsFresh(d)
    BY DEF GraphInv, EditsAreFresh
  <2>3. edit[d].id = edit[c].id => edit[d].id \in overlapped
    BY <2>1 DEF GraphInv, EditsOverlap
  <2>4. edit[d].id # edit[c].id => RowOf(edit[d].id)' = RowOf(edit[d].id)
    <3>1. \A i : i # edit[c].id => (IF i \in NodeIds THEN nodes'[i] ELSE edges'[i]) = RowOf(i)
      BY DEF RowOf
    <3>2. RowOf(edit[d].id)' = IF edit'[d].id \in NodeIds THEN nodes'[edit'[d].id] ELSE edges'[edit'[d].id]
      BY DEF RowOf
    <3>3. QED
      BY <3>1, <3>2, <2>1
  <2>5. QED
    BY <2>1, <2>2, <2>3, <2>4 DEF EditIsFresh
<1>4. EditsAreFresh'
  BY <1>3 DEF EditsAreFresh, EditIsFresh
<1>5. EditsOverlap'
  BY <1>1 DEF GraphInv, EditsOverlap
<1>6. QED
  BY <1>2, <1>4, <1>5 DEF GraphInv

LEMMA EditFailsKeeps ==
  ASSUME GraphInv, NEW c \in Editors, edit[c] # NoEdit, EditFails(c)
  PROVE  GraphInv'
<1>1. edit' = [edit EXCEPT ![c] = NoEdit] /\ UNCHANGED <<nodes, edges, usedIds, lastGiven, overlapped, writes, edits>>
  BY DEF EditFails, tableVars
<1>2. TablesTypeOK' /\ EdgesHaveTheirEnds' /\ UpdatesStay'
  BY <1>1 DEF GraphInv, TablesTypeOK, EdgesHaveTheirEnds, UpdatesStay, Ends
<1>3. \A i : RowOf(i)' = RowOf(i)
  BY <1>1 DEF RowOf
<1>4. QED
  BY <1>1, <1>2, <1>3, EditEnds

LEMMA CoalescedRow ==
  ASSUME NEW row \in [Columns -> Values], NEW input \in [Columns -> Values \cup {0}]
  PROVE  Coalesce(row, input) \in [Columns -> Values]
BY DEF Coalesce

LEMMA UpdateNodeKeeps ==
  ASSUME GraphInv, NEW c \in Editors, UpdateNode(c)
  PROVE  GraphInv'
<1> DEFINE n == edit[c].id
           row == edit[c].row
           input == edit[c].input
<1>1. edit[c].at = "read" /\ n \in NodeIds
  BY DEF UpdateNode
<1>2. edit[c] # NoEdit
  BY <1>1 DEF NoEdit
<1>3. CASE n \notin DOMAIN nodes
  BY <1>2, <1>3, EditFailsKeeps DEF UpdateNode
<1>4. CASE n \in DOMAIN nodes
  <2>1. /\ nodes' = [nodes EXCEPT ![n] = Coalesce(row, input)]
        /\ lastGiven' = [lastGiven EXCEPT ![n] =
             [k \in Columns |-> IF input[k] = 0 THEN @[k] ELSE input[k]]]
        /\ edit' = [edit EXCEPT ![c] = NoEdit]
        /\ UNCHANGED <<edges, usedIds, overlapped, writes, edits>>
    BY <1>4 DEF UpdateNode
  <2>2. /\ row \in [Columns -> Values] /\ input \in [Columns -> Values \cup {0}]
        /\ n \in DOMAIN lastGiven \ overlapped => row = nodes[n]
    BY <1>1, <1>2 DEF GraphInv, EditsAreFresh, EditIsFresh, RowOf
  <2> DEFINE new == Coalesce(row, input)
             given == [k \in Columns |-> IF input[k] = 0 THEN lastGiven[n][k] ELSE input[k]]
  <2>3. new \in [Columns -> Values] /\ new = [k \in Columns |-> IF input[k] = 0 THEN row[k] ELSE input[k]]
    BY <2>2, CoalescedRow DEF Coalesce
  <2>4. /\ DOMAIN nodes' = DOMAIN nodes /\ \A m \in DOMAIN nodes : nodes'[m] = IF m = n THEN new ELSE nodes[m]
        /\ DOMAIN lastGiven' = DOMAIN lastGiven
        /\ \A i \in DOMAIN lastGiven : lastGiven'[i] = IF i = n THEN given ELSE lastGiven[i]
    BY <2>1
  <2>5. n \in DOMAIN lastGiven /\ (n \notin overlapped => lastGiven[n] = nodes[n])
    BY <1>1, <1>4 DEF GraphInv, TablesTypeOK, UpdatesStay
  <2>6. n \notin overlapped => given = new
    BY <2>2, <2>3, <2>5
  <2>10. \A i : i # n => RowOf(i)' = RowOf(i)
    BY <2>1 DEF RowOf
  <2> HIDE DEF n, row, input, new, given
  <2>7. TablesTypeOK'
    BY <2>1, <2>3, <2>4 DEF GraphInv, TablesTypeOK
  <2>8. EdgesHaveTheirEnds'
    BY <2>1, <2>4 DEF GraphInv, EdgesHaveTheirEnds, Ends
  <2>9. UpdatesStay'
    <3>1. ASSUME NEW i \in DOMAIN lastGiven \ overlapped
          PROVE  lastGiven'[i] = IF i \in NodeIds THEN nodes'[i] ELSE edges'[i]
      <4>1. lastGiven[i] = IF i \in NodeIds THEN nodes[i] ELSE edges[i]
        BY DEF GraphInv, UpdatesStay
      <4>2. CASE i = n
        <5>1. lastGiven'[i] = new /\ nodes'[i] = new
          BY <4>2, <2>4, <2>6, <1>4
        <5>2. QED
          BY <5>1, <4>2, <1>1
      <4>3. CASE i # n
        <5>1. i \in NodeIds => i \in DOMAIN nodes
          BY KnowledgeAssumption DEF GraphInv, TablesTypeOK
        <5>2. QED
          BY <4>1, <4>3, <5>1, <2>1, <2>4
      <4>4. QED
        BY <4>2, <4>3
    <3>2. QED
      BY <3>1, <2>1, <2>4 DEF UpdatesStay
  <2>11. QED
    BY <1>2, <2>1, <2>4, <2>7, <2>8, <2>9, <2>10, EditEnds DEF n
<1>5. QED
  BY <1>3, <1>4

LEMMA UpdateEdgeKeeps ==
  ASSUME GraphInv, NEW c \in Editors, UpdateEdge(c)
  PROVE  GraphInv'
<1> DEFINE e == edit[c].id
           row == edit[c].row
           input == edit[c].input
           new == Coalesce(row, input)
<1>1. edit[c].at = "read" /\ e \in EdgeIds /\ e \notin NodeIds
  BY KnowledgeAssumption DEF UpdateEdge
<1>2. edit[c] # NoEdit
  BY <1>1 DEF NoEdit
<1>3. CASE e \notin DOMAIN edges \/ ~(Ends(new) \subseteq DOMAIN nodes)
  BY <1>2, <1>3, EditFailsKeeps DEF UpdateEdge
<1>4. CASE e \in DOMAIN edges /\ Ends(new) \subseteq DOMAIN nodes
  <2>1. /\ edges' = [edges EXCEPT ![e] = new]
        /\ lastGiven' = [lastGiven EXCEPT ![e] =
             [k \in DOMAIN new |-> IF input[k] = 0 THEN @[k] ELSE input[k]]]
        /\ edit' = [edit EXCEPT ![c] = NoEdit]
        /\ UNCHANGED <<nodes, usedIds, overlapped, writes, edits>>
    BY <1>4 DEF UpdateEdge
  <2>2. e \in DOMAIN lastGiven \ overlapped => row = edges[e]
    BY <1>1, <1>2 DEF GraphInv, EditsAreFresh, EditIsFresh, RowOf
  <2> DEFINE given == [k \in DOMAIN new |-> IF input[k] = 0 THEN lastGiven[e][k] ELSE input[k]]
  <2>3. DOMAIN new = DOMAIN row /\ new = [k \in DOMAIN row |-> IF input[k] = 0 THEN row[k] ELSE input[k]]
    BY DEF Coalesce
  <2>4. /\ DOMAIN edges' = DOMAIN edges /\ \A m \in DOMAIN edges : edges'[m] = IF m = e THEN new ELSE edges[m]
        /\ DOMAIN lastGiven' = DOMAIN lastGiven
        /\ \A i \in DOMAIN lastGiven : lastGiven'[i] = IF i = e THEN given ELSE lastGiven[i]
    BY <2>1
  <2>5. e \in DOMAIN lastGiven /\ (e \notin overlapped => lastGiven[e] = edges[e])
    BY <1>1, <1>4 DEF GraphInv, TablesTypeOK, UpdatesStay
  <2>6. e \notin overlapped => given = new
    <3>1. e \notin overlapped => lastGiven[e] = row
      BY <2>2, <2>5
    <3> HIDE DEF e, row, input
    <3>2. QED
      BY <3>1, <2>3
  <2>10. \A i : i # e => RowOf(i)' = RowOf(i)
    BY <2>1 DEF RowOf
  <2> HIDE DEF e, row, input, new, given
  <2>7. TablesTypeOK'
    BY <2>1, <2>4 DEF GraphInv, TablesTypeOK
  <2>8. EdgesHaveTheirEnds'
    <3>1. \A m \in DOMAIN edges' : Ends(edges'[m]) \subseteq DOMAIN nodes
      BY <1>4, <2>4 DEF GraphInv, EdgesHaveTheirEnds
    <3>2. QED
      BY <3>1, <2>1 DEF EdgesHaveTheirEnds, Ends
  <2>9. UpdatesStay'
    <3>1. ASSUME NEW i \in DOMAIN lastGiven \ overlapped
          PROVE  lastGiven'[i] = IF i \in NodeIds THEN nodes'[i] ELSE edges'[i]
      <4>1. lastGiven[i] = IF i \in NodeIds THEN nodes[i] ELSE edges[i]
        BY DEF GraphInv, UpdatesStay
      <4>2. CASE i = e
        <5>1. lastGiven'[i] = new /\ edges'[i] = new
          BY <4>2, <2>4, <2>6, <1>4
        <5>2. QED
          BY <5>1, <4>2, <1>1
      <4>3. CASE i # e
        <5>1. i \notin NodeIds => i \in DOMAIN edges
          BY DEF GraphInv, TablesTypeOK
        <5>2. QED
          BY <4>1, <4>3, <5>1, <2>1, <2>4
      <4>4. QED
        BY <4>2, <4>3
    <3>2. QED
      BY <3>1, <2>1, <2>4 DEF UpdatesStay
  <2>11. QED
    BY <1>2, <2>1, <2>4, <2>7, <2>8, <2>9, <2>10, EditEnds DEF e
<1>5. QED
  BY <1>3, <1>4

LEMMA NothingStored ==
  ASSUME GraphInv, UNCHANGED <<nodes, edges, usedIds, edit, lastGiven, overlapped, writes, edits>>
  PROVE  GraphInv'
BY DEF GraphInv, TablesTypeOK, EditsAreFresh, EditIsFresh, EditsOverlap, EdgesHaveTheirEnds, UpdatesStay,
   Ends, RowOf

LEMMA TraversalsOnlyRead ==
  ASSUME GraphInv,
         \/ \E ref \in References :
              \/ \E depth \in 1..MaxDepth : NeighborsBegins(ref, depth)
              \/ \E end \in NodeIds : PathBegins(ref, end)
         \/ ListNeighbors \/ GetNeighbor \/ PathEnd \/ Scan \/ PathEdge \/ PathNode \/ QueryEnds
  PROVE  GraphInv'
<1>1. \E q : Asks(q)
  <2>1. CASE \E ref \in References : \E depth \in 1..MaxDepth : NeighborsBegins(ref, depth)
    BY <2>1 DEF NeighborsBegins
  <2>2. CASE \E ref \in References : \E end \in NodeIds : PathBegins(ref, end)
    BY <2>2 DEF PathBegins
  <2>3. CASE ListNeighbors
    BY <2>3, Zenon DEF ListNeighbors
  <2>4. CASE GetNeighbor
    BY <2>4, Zenon DEF GetNeighbor, QueryFails
  <2>5. CASE PathEnd
    BY <2>5, Zenon DEF PathEnd, QueryFails
  <2>6. CASE Scan
    BY <2>6, Zenon DEF Scan
  <2>7. CASE PathEdge
    BY <2>7, Zenon DEF PathEdge, QueryFails
  <2>8. CASE PathNode
    BY <2>8, Zenon DEF PathNode, QueryFails
  <2>9. CASE QueryEnds
    BY <2>9 DEF QueryEnds
  <2>10. QED
    BY <2>1, <2>2, <2>3, <2>4, <2>5, <2>6, <2>7, <2>8, <2>9
<1>2. UNCHANGED <<nodes, edges, usedIds, edit, lastGiven, overlapped, writes, edits>>
  BY <1>1 DEF Asks, tableVars
<1>3. QED
  BY <1>2, NothingStored

LEMMA GraphStep == GraphInv /\ [KnowledgeNext]_graphVars => GraphInv'
<1> SUFFICES ASSUME GraphInv, [KnowledgeNext]_graphVars PROVE GraphInv'
  OBVIOUS
<1>1. CASE UNCHANGED graphVars
  BY <1>1, NothingStored DEF graphVars
<1>2. CASE \E n \in NodeIds : DeleteNode(n) \/ CreateNode(n, FirstRow)
  BY <1>2, DeletesKeep, CreatesKeep
<1>3. CASE \E e \in EdgeIds : \/ DeleteEdge(e)
                               \/ \E source, target \in NodeIds : CreateEdge(e, source, target)
  BY <1>3, DeletesKeep, CreatesKeep
<1>4. CASE \E c \in Editors, ref \in References, input \in NodeInputs : EditNode(c, ref, input)
  <2>5. PICK c \in Editors, ref \in References, input \in NodeInputs :
          \E n \in GetNode(ref) : EditBegins(c, n, nodes[n], input)
    BY <1>4 DEF EditNode
  <2>1. PICK n \in GetNode(ref) : EditBegins(c, n, nodes[n], input)
    BY <2>5
  <2>2. n \in DOMAIN nodes
    BY <2>1 DEF GetNode
  <2>3. n \in DOMAIN lastGiven /\ RowOf(n) = nodes[n]
    BY <2>2 DEF GraphInv, TablesTypeOK, RowOf
  <2>4. QED
    BY <2>1, <2>3, EditBeginsKeeps
<1>5. CASE \E c \in Editors, e \in EdgeIds, input \in EdgeInputs : EditEdge(c, e, input)
  <2>1. PICK c \in Editors, e \in EdgeIds, input \in EdgeInputs :
          e \in DOMAIN edges /\ EditBegins(c, e, edges[e], input)
    BY <1>5 DEF EditEdge
  <2>2. e \in DOMAIN lastGiven /\ RowOf(e) = edges[e] /\ e \notin NodeIds
    BY <2>1, KnowledgeAssumption DEF GraphInv, TablesTypeOK, RowOf
  <2>3. QED
    BY <2>1, <2>2, EditBeginsKeeps
<1>6. CASE \E c \in Editors : UpdateNode(c) \/ UpdateEdge(c)
  BY <1>6, UpdateNodeKeeps, UpdateEdgeKeeps
<1>7. CASE \/ \E ref \in References :
                \/ \E depth \in 1..MaxDepth : NeighborsBegins(ref, depth)
                \/ \E end \in NodeIds : PathBegins(ref, end)
           \/ ListNeighbors \/ GetNeighbor \/ PathEnd \/ Scan \/ PathEdge \/ PathNode \/ QueryEnds
  BY <1>7, TraversalsOnlyRead
<1>8. QED
  BY <1>1, <1>2, <1>3, <1>4, <1>5, <1>6, <1>7 DEF KnowledgeNext

LEMMA GraphTells == GraphInv => KnowledgeTypeOK /\ EdgesHaveTheirEnds /\ UpdatesStay
BY DEF GraphInv, TablesTypeOK, KnowledgeTypeOK

-----------------------------------------------------------------------------
(* KnowledgeGraph: what Neighbors answers.                                 *)

\* A recursive function that computes the balls around n.
BallStep(f, n, k) == IF k = 0 THEN {n} ELSE f[k - 1] \cup Around(f[k - 1])
IsBall(f, n, d) == f = [k \in 0 .. d |-> BallStep(f, n, k)]

LEMMA BallExists ==
  ASSUME NEW n, NEW d \in Nat
  PROVE  \E f : IsBall(f, n, d)
<1> DEFINE Bad == {k \in Nat : ~ \E f : IsBall(f, n, k)}
<1> SUFFICES ASSUME d \in Bad PROVE FALSE
  OBVIOUS
<1>1. PICK k \in Bad : \A j \in Bad : k <= j
  <2>1. Bad \subseteq Nat
    OBVIOUS
  <2> HIDE DEF Bad
  <2>2. QED
    BY <2>1, LeastNumber
<1>2. k \in Nat /\ ~ \E f : IsBall(f, n, k)
  OBVIOUS
<1>3. CASE k = 0
  <2> DEFINE f == [j \in 0 .. 0 |-> {n}]
  <2>1. \A j \in 0 .. 0 : BallStep(f, n, j) = {n}
    BY DEF BallStep
  <2>2. IsBall(f, n, 0)
    BY <2>1 DEF IsBall
  <2>3. QED
    BY <2>2, <1>2, <1>3
<1>4. CASE k # 0
  <2>1. k - 1 \in Nat /\ k - 1 \notin Bad
    <3>1. k - 1 \in Nat /\ ~(k <= k - 1)
      BY <1>2, <1>4
    <3> HIDE DEF Bad
    <3>2. QED
      BY <1>1, <3>1
  <2>2. PICK g : IsBall(g, n, k - 1)
    BY <2>1
  <2> HIDE DEF Bad
  <2> DEFINE f == [j \in 0 .. k |-> IF j = k THEN BallStep(g, n, k) ELSE g[j]]
  <2>3. ASSUME NEW j \in 0 .. k PROVE f[j] = BallStep(f, n, j)
    <3>1. j # 0 => j - 1 \in 0 .. k /\ j - 1 # k
      BY <1>2
    <3>2. j # 0 => f[j - 1] = g[j - 1]
      BY <3>1
    <3>3. BallStep(f, n, j) = BallStep(g, n, j)
      <4> HIDE DEF f
      <4>1. QED
        BY <3>2 DEF BallStep
    <3>4. j # k => j \in 0 .. (k - 1)
      BY <1>2
    <3>5. j # k => g[j] = BallStep(g, n, j)
      BY <2>2, <3>4 DEF IsBall
    <3>6. f[j] = IF j = k THEN BallStep(g, n, k) ELSE g[j]
      OBVIOUS
    <3> HIDE DEF f
    <3>7. QED
      BY <3>3, <3>5, <3>6
  <2>4. f = [j \in 0 .. k |-> BallStep(f, n, j)]
    BY <2>3
  <2>5. QED
    BY <2>4, <1>2 DEF IsBall
<1>5. QED
  BY <1>3, <1>4

LEMMA BallComputes ==
  ASSUME NEW n, NEW d \in Nat
  PROVE  \E f : IsBall(f, n, d) /\ Ball(n, d) = f[d]
<1> DEFINE f == CHOOSE g : IsBall(g, n, d)
<1>1. IsBall(f, n, d)
  BY BallExists
<1>2. Ball(n, d) = f[d]
  BY DEF Ball, IsBall, BallStep
<1> HIDE DEF f
<1>3. QED
  BY <1>1, <1>2

\* The functions for two depths agree as far as both go.
LEMMA BallsAgree ==
  ASSUME NEW n, NEW d \in Nat, NEW c \in Nat, c <= d, NEW f, IsBall(f, n, d), NEW g, IsBall(g, n, c)
  PROVE  \A k \in 0 .. c : f[k] = g[k]
<1> DEFINE Bad == {k \in Nat : k <= c /\ f[k] # g[k]}
<1> SUFFICES ASSUME Bad # {} PROVE FALSE
  OBVIOUS
<1>1. PICK k \in Bad : \A j \in Bad : k <= j
  <2>1. Bad \subseteq Nat
    OBVIOUS
  <2> HIDE DEF Bad
  <2>2. QED
    BY <2>1, LeastNumber
<1>2. k \in Nat /\ k <= c /\ f[k] # g[k]
  OBVIOUS
<1>3. f[k] = BallStep(f, n, k) /\ g[k] = BallStep(g, n, k)
  <2>1. k \in 0 .. d /\ k \in 0 .. c
    BY <1>2
  <2>2. QED
    BY <2>1 DEF IsBall
<1>4. k # 0 => f[k - 1] = g[k - 1]
  <2>1. k # 0 => k - 1 \in Nat /\ k - 1 <= c /\ ~(k <= k - 1)
    BY <1>2
  <2>2. k # 0 => k - 1 \notin Bad
    <3> HIDE DEF Bad
    <3>1. QED
      BY <1>1, <2>1
  <2>3. QED
    BY <2>1, <2>2
<1> HIDE DEF Bad
<1>5. QED
  BY <1>2, <1>3, <1>4 DEF BallStep

LEMMA BallFacts ==
  ASSUME NEW n
  PROVE  /\ Ball(n, 0) = {n}
         /\ \A d \in Nat : Ball(n, d + 1) = Ball(n, d) \cup Around(Ball(n, d))
<1>1. Ball(n, 0) = {n}
  <2>1. PICK f : IsBall(f, n, 0) /\ Ball(n, 0) = f[0]
    BY BallComputes
  <2>2. QED
    BY <2>1 DEF IsBall, BallStep
<1>2. ASSUME NEW d \in Nat PROVE Ball(n, d + 1) = Ball(n, d) \cup Around(Ball(n, d))
  <2>1. PICK f : IsBall(f, n, d + 1) /\ Ball(n, d + 1) = f[d + 1]
    BY BallComputes
  <2>2. PICK g : IsBall(g, n, d) /\ Ball(n, d) = g[d]
    BY BallComputes
  <2>3. f[d] = g[d]
    BY <2>1, <2>2, BallsAgree
  <2>4. f[d + 1] = BallStep(f, n, d + 1)
    BY <2>1 DEF IsBall
  <2>5. BallStep(f, n, d + 1) = f[d] \cup Around(f[d])
    <3>1. d + 1 # 0 /\ (d + 1) - 1 = d
      OBVIOUS
    <3>2. QED
      BY <3>1 DEF BallStep
  <2>6. QED
    BY <2>1, <2>2, <2>3, <2>4, <2>5
<1>3. QED
  BY <1>1, <1>2

\* A ball that does not grow has everything that can be reached.
LEMMA BallStops ==
  ASSUME NEW n, NEW c \in Nat, Ball(n, c + 1) = Ball(n, c), NEW d \in Nat, c <= d
  PROVE  Ball(n, d) = Ball(n, c)
<1> DEFINE Bad == {k \in Nat : c <= k /\ Ball(n, k) # Ball(n, c)}
<1> SUFFICES ASSUME Bad # {} PROVE FALSE
  OBVIOUS
<1>1. PICK k \in Bad : \A j \in Bad : k <= j
  <2>1. Bad \subseteq Nat
    OBVIOUS
  <2> HIDE DEF Bad
  <2>2. QED
    BY <2>1, LeastNumber
<1>2. k \in Nat /\ c <= k /\ Ball(n, k) # Ball(n, c)
  OBVIOUS
<1>3. k # c
  BY <1>2
<1>4. k - 1 \in Nat /\ c <= k - 1 /\ ~(k <= k - 1)
  BY <1>2, <1>3
<1>5. k - 1 \notin Bad
  <2> HIDE DEF Bad
  <2>1. QED
    BY <1>1, <1>4
<1>6. Ball(n, k - 1) = Ball(n, c)
  BY <1>4, <1>5
<1> HIDE DEF Bad
<1>7. Ball(n, (k - 1) + 1) = Ball(n, k - 1) \cup Around(Ball(n, k - 1))
  BY <1>4, BallFacts
<1>8. (k - 1) + 1 = k
  BY <1>2
<1>9. Ball(n, c + 1) = Ball(n, c) \cup Around(Ball(n, c))
  BY BallFacts
<1>10. QED
  BY <1>2, <1>6, <1>7, <1>8, <1>9

\* A Neighbors query, and what it knows: everything in the ball below its level is
\* known, and the nodes of that ball that do not wait any more are done.
EdgeRow == [id : EdgeIds, source : NodeIds, target : NodeIds]
NeighborQuery ==
  [at : {"list", "neighbor", "answered"}, steady : BOOLEAN, start : NodeIds, depth : Nat, level : Nat,
   current : Seq(NodeIds), next : Seq(NodeIds), rows : Seq(EdgeRow), nodes : SUBSET NodeIds,
   edges : SUBSET EdgeIds]

In(s) == {s[i] : i \in 1 .. Len(s)}
Below(q) == Ball(q.start, q.level - 1)
Known(q, n) == Incident(n) \subseteq q.edges /\ \A e \in Incident(n) : Ends(edges[e]) \subseteq q.nodes
RowIsThere(r) == r.id \in DOMAIN edges /\ edges[r.id].source = r.source /\ edges[r.id].target = r.target

Progress(q) ==
  /\ 1 <= q.level /\ q.level <= q.depth
  /\ In(q.current) \subseteq Below(q)
  /\ q.nodes = Below(q) \cup In(q.next) /\ In(q.next) \subseteq Around(Below(q))
  /\ \A n \in Below(q) \ In(q.current) : Known(q, n)
  /\ q.edges \subseteq UNION {Incident(n) : n \in Below(q)}
RowsLeft(q) ==
  LET h == Head(q.current)
  IN /\ \A k \in 1 .. Len(q.rows) : RowIsThere(q.rows[k]) /\ q.rows[k].id \in Incident(h)
     /\ \A e \in Incident(h) : \/ e \in q.edges /\ Ends(edges[e]) \subseteq q.nodes
                               \/ \E k \in 1 .. Len(q.rows) : q.rows[k].id = e
Answers(q) ==
  /\ q.nodes = Ball(q.start, q.depth)
  /\ q.edges = UNION {Incident(n) : n \in Ball(q.start, q.depth - 1)}

NeighborFacts(q) ==
  /\ q.at # "answered" => Progress(q)
  /\ q.at = "neighbor" => RowsLeft(q)
  /\ q.at = "answered" => Answers(q)
NeighborTyped(q) ==
  /\ q \in NeighborQuery
  /\ q.at # "answered" => q.current # <<>>
  /\ q.at = "neighbor" => q.rows # <<>>

LEMMA AroundIsIncident ==
  ASSUME NEW S
  PROVE  /\ \A n \in S : \A e \in Incident(n) : Ends(edges[e]) \subseteq Around(S)
         /\ \A m \in Around(S) : \E n \in S : \E e \in Incident(n) : m \in Ends(edges[e])
<1>1. ASSUME NEW n \in S, NEW e \in Incident(n) PROVE Ends(edges[e]) \subseteq Around(S)
  BY DEF Around, Incident
<1>2. ASSUME NEW m \in Around(S) PROVE \E n \in S : \E e \in Incident(n) : m \in Ends(edges[e])
  <2>1. PICK e \in DOMAIN edges : Ends(edges[e]) \cap S # {} /\ m \in Ends(edges[e])
    BY DEF Around
  <2>2. PICK n \in S : n \in Ends(edges[e])
    BY <2>1
  <2>3. e \in Incident(n)
    BY <2>2 DEF Incident
  <2>4. QED
    BY <2>1, <2>2, <2>3
<1>3. QED
  BY <1>1, <1>2

LEMMA InTail ==
  ASSUME NEW S, NEW s \in Seq(S), s # <<>>
  PROVE  /\ Head(s) \in S /\ Tail(s) \in Seq(S) /\ In(s) = {Head(s)} \cup In(Tail(s))
         /\ In(s) \subseteq S
<1>1. Head(s) \in S /\ Tail(s) \in Seq(S) /\ Len(s) \in Nat \ {0} /\ Len(Tail(s)) = Len(s) - 1
  OBVIOUS
<1>2. Head(s) = s[1] /\ \A i \in 1 .. Len(s) - 1 : Tail(s)[i] = s[i + 1]
  OBVIOUS
<1>3. ASSUME NEW x \in In(s) PROVE x \in {Head(s)} \cup In(Tail(s))
  <2>1. PICK i \in 1 .. Len(s) : x = s[i]
    BY DEF In
  <2>2. CASE i = 1
    BY <2>1, <2>2, <1>2
  <2>3. CASE i # 1
    <3>1. i - 1 \in 1 .. Len(s) - 1 /\ (i - 1) + 1 = i
      BY <2>3, <1>1
    <3>2. x = Tail(s)[i - 1]
      BY <3>1, <1>2, <2>1
    <3>3. QED
      BY <3>1, <3>2, <1>1 DEF In
  <2>4. QED
    BY <2>2, <2>3
<1>4. ASSUME NEW x \in {Head(s)} \cup In(Tail(s)) PROVE x \in In(s)
  <2>1. CASE x = Head(s)
    BY <2>1, <1>1, <1>2 DEF In
  <2>2. CASE x \in In(Tail(s))
    <3>1. PICK i \in 1 .. Len(s) - 1 : x = Tail(s)[i]
      BY <2>2, <1>1 DEF In
    <3>2. i + 1 \in 1 .. Len(s) /\ x = s[i + 1]
      BY <3>1, <1>1, <1>2
    <3>3. QED
      BY <3>2 DEF In
  <2>3. QED
    BY <2>1, <2>2
<1>5. In(s) \subseteq S
  BY DEF In
<1>6. QED
  BY <1>1, <1>3, <1>4, <1>5

LEMMA InEmpty == In(<<>>) = {}
BY DEF In

LEMMA InAppend ==
  ASSUME NEW S, NEW s \in Seq(S), NEW x \in S
  PROVE  Append(s, x) \in Seq(S) /\ In(Append(s, x)) = In(s) \cup {x}
<1>1. Append(s, x) \in Seq(S) /\ Len(s) \in Nat /\ Len(Append(s, x)) = Len(s) + 1
  OBVIOUS
<1>2. Append(s, x)[Len(s) + 1] = x /\ \A i \in 1 .. Len(s) : Append(s, x)[i] = s[i]
  OBVIOUS
<1>3. In(Append(s, x)) \subseteq In(s) \cup {x}
  <2> SUFFICES ASSUME NEW y \in In(Append(s, x)) PROVE y \in In(s) \cup {x}
    OBVIOUS
  <2>1. PICK i \in 1 .. Len(s) + 1 : y = Append(s, x)[i]
    BY <1>1 DEF In
  <2>2. i = Len(s) + 1 \/ i \in 1 .. Len(s)
    BY <1>1
  <2>3. QED
    BY <2>1, <2>2, <1>2 DEF In
<1>4. In(s) \cup {x} \subseteq In(Append(s, x))
  <2>1. x \in In(Append(s, x))
    <3>1. Len(s) + 1 \in 1 .. Len(Append(s, x))
      BY <1>1
    <3>2. QED
      BY <3>1, <1>2 DEF In
  <2>2. ASSUME NEW y \in In(s) PROVE y \in In(Append(s, x))
    <3>1. PICK i \in 1 .. Len(s) : y = s[i]
      BY DEF In
    <3>2. i \in 1 .. Len(Append(s, x)) /\ y = Append(s, x)[i]
      BY <3>1, <1>1, <1>2
    <3>3. QED
      BY <3>2 DEF In
  <2>3. QED
    BY <2>1, <2>2
<1>5. QED
  BY <1>1, <1>3, <1>4

\* The query goes on where the last edge of a node leaves it.
Halfway(q) == Progress(q) /\ RowsLeft(q)

LEMMA NextOfTyped ==
  ASSUME NEW q \in NeighborQuery, q.current # <<>>
  PROVE  NeighborTyped(NextOf(q)) /\ NextOf(q).steady = q.steady
<1> DEFINE rest == Tail(q.current)
<1>1. rest \in Seq(NodeIds)
  BY InTail DEF NeighborQuery
<1> HIDE DEF rest
<1>2. CASE q.rows # <<>>
  <2>1. NextOf(q) = [q EXCEPT !.at = "neighbor"]
    BY <1>2 DEF NextOf
  <2>2. QED
    BY <2>1, <1>2 DEF NeighborTyped, NeighborQuery
<1>3. CASE q.rows = <<>> /\ rest # <<>>
  <2>1. NextOf(q) = [q EXCEPT !.at = "list", !.current = rest]
    BY <1>3 DEF NextOf, rest
  <2>2. QED
    BY <2>1, <1>1, <1>3 DEF NeighborTyped, NeighborQuery
<1>4. CASE q.rows = <<>> /\ rest = <<>> /\ q.level < q.depth /\ q.next # <<>>
  <2>1. NextOf(q) = [q EXCEPT !.at = "list", !.current = q.next, !.next = <<>>, !.level = @ + 1]
    BY <1>4 DEF NextOf, rest
  <2>2. q.level + 1 \in Nat /\ <<>> \in Seq(NodeIds)
    BY DEF NeighborQuery
  <2>3. QED
    BY <2>1, <2>2, <1>4 DEF NeighborTyped, NeighborQuery
<1>5. CASE q.rows = <<>> /\ rest = <<>> /\ ~(q.level < q.depth /\ q.next # <<>>)
  <2>1. NextOf(q) = [q EXCEPT !.at = "answered"]
    BY <1>5 DEF NextOf, rest
  <2>2. QED
    BY <2>1 DEF NeighborTyped, NeighborQuery
<1>6. QED
  BY <1>2, <1>3, <1>4, <1>5

LEMMA NextOfRight ==
  ASSUME NEW q \in NeighborQuery, q.current # <<>>, Halfway(q)
  PROVE  NeighborFacts(NextOf(q))
<1> DEFINE rest == Tail(q.current)
           h == Head(q.current)
           B == Below(q)
<1>1. /\ rest \in Seq(NodeIds) /\ In(q.current) = {h} \cup In(rest)
      /\ q.level \in Nat /\ q.depth \in Nat /\ 1 <= q.level /\ q.level <= q.depth
  BY InTail DEF NeighborQuery, Halfway, Progress
<1>2. /\ In(q.current) \subseteq B /\ q.nodes = B \cup In(q.next) /\ In(q.next) \subseteq Around(B)
      /\ \A n \in B \ In(q.current) : Known(q, n)
      /\ q.edges \subseteq UNION {Incident(n) : n \in B}
  BY DEF Halfway, Progress
<1>3. q.rows = <<>> => Known(q, h)
  BY DEF Halfway, RowsLeft, Known
<1>4. q.rows = <<>> => \A n \in B \ In(rest) : Known(q, n)
  BY <1>1, <1>2, <1>3
<1>5. B = Ball(q.start, q.level - 1)
  BY DEF Below
<1>6. Ball(q.start, q.level) = B \cup Around(B)
  <2>1. q.level - 1 \in Nat /\ (q.level - 1) + 1 = q.level
    BY <1>1
  <2>2. QED
    BY <2>1, <1>5, BallFacts
<1>7. CASE q.rows # <<>>
  <2>1. NextOf(q) = [q EXCEPT !.at = "neighbor"]
    BY <1>7 DEF NextOf
  <2> DEFINE r == [q EXCEPT !.at = "neighbor"]
  <2>2. /\ r.at = "neighbor" /\ r.start = q.start /\ r.depth = q.depth /\ r.level = q.level
        /\ r.current = q.current /\ r.next = q.next /\ r.rows = q.rows /\ r.nodes = q.nodes /\ r.edges = q.edges
    BY DEF NeighborQuery
  <2> HIDE DEF r
  <2>3. Progress(r) /\ RowsLeft(r)
    BY <2>2 DEF Halfway, Progress, RowsLeft, Below, Known
  <2>4. NeighborFacts(r)
    BY <2>2, <2>3 DEF NeighborFacts
  <2>5. QED
    BY <2>1, <2>4 DEF r
<1>8. CASE q.rows = <<>> /\ rest # <<>>
  <2>1. NextOf(q) = [q EXCEPT !.at = "list", !.current = rest]
    BY <1>8 DEF NextOf
  <2> DEFINE r == [q EXCEPT !.at = "list", !.current = rest]
  <2>2. /\ r.at = "list" /\ r.start = q.start /\ r.depth = q.depth /\ r.level = q.level
        /\ r.current = rest /\ r.next = q.next /\ r.nodes = q.nodes /\ r.edges = q.edges
    BY DEF NeighborQuery
  <2> HIDE DEF r
  <2>3. Below(r) = B
    BY <2>2 DEF Below
  <2> HIDE DEF rest, h, B
  <2>4. \A n \in B \ In(rest) : Known(r, n)
    BY <1>4, <1>8, <2>2 DEF Known
  <2>5. Progress(r)
    BY <1>1, <1>2, <2>2, <2>3, <2>4 DEF Progress
  <2>6. NeighborFacts(r)
    BY <2>2, <2>5 DEF NeighborFacts
  <2>7. QED
    BY <2>1, <2>6 DEF r
<1> DEFINE grown == B \cup Around(B)
<1>9. ASSUME q.rows = <<>>, rest = <<>>
      PROVE  /\ \A n \in B : Known(q, n)
             /\ q.nodes = grown
             /\ q.edges = UNION {Incident(n) : n \in B}
  <2>1. \A n \in B : Known(q, n)
    BY <1>4, <1>9, InEmpty
  <2>2. Around(B) \subseteq q.nodes
    BY <2>1, AroundIsIncident DEF Known
  <2>3. q.nodes = grown
    BY <1>2, <2>2
  <2>4. UNION {Incident(n) : n \in B} \subseteq q.edges
    BY <2>1 DEF Known
  <2>5. QED
    BY <2>1, <2>3, <2>4, <1>2
<1>10. CASE q.rows = <<>> /\ rest = <<>> /\ q.level < q.depth /\ q.next # <<>>
  <2>1. NextOf(q) = [q EXCEPT !.at = "list", !.current = q.next, !.next = <<>>, !.level = @ + 1]
    BY <1>10 DEF NextOf
  <2> DEFINE r == [q EXCEPT !.at = "list", !.current = q.next, !.next = <<>>, !.level = @ + 1]
  <2>2. /\ r.at = "list" /\ r.start = q.start /\ r.depth = q.depth /\ r.level = q.level + 1
        /\ r.current = q.next /\ r.next = <<>> /\ r.nodes = q.nodes /\ r.edges = q.edges
    BY DEF NeighborQuery
  <2> HIDE DEF r
  <2>3. r.level - 1 = q.level /\ 1 <= r.level /\ r.level <= r.depth
    BY <1>1, <1>10, <2>2
  <2>4. Below(r) = grown
    BY <2>2, <2>3, <1>6 DEF Below
  <2> HIDE DEF rest, h, B
  <2>5. \A n \in grown \ In(r.current) : Known(r, n)
    <3>1. \A n \in grown \ In(r.current) : n \in B
      BY <1>2, <1>9, <1>10, <2>2
    <3>2. \A n \in B : Known(r, n)
      BY <1>9, <1>10, <2>2 DEF Known
    <3>3. QED
      BY <3>1, <3>2
  <2>6. r.edges \subseteq UNION {Incident(n) : n \in grown}
    BY <1>2, <2>2
  <2>7. In(r.current) \subseteq grown /\ r.nodes = grown \cup In(r.next)
    BY <1>2, <1>9, <1>10, <2>2, InEmpty
  <2>8. In(r.next) \subseteq Around(Below(r))
    BY <2>2, InEmpty
  <2> HIDE DEF grown
  <2>9. Progress(r)
    BY <2>3, <2>4, <2>5, <2>6, <2>7, <2>8 DEF Progress
  <2>10. NeighborFacts(r)
    BY <2>2, <2>9 DEF NeighborFacts
  <2>11. QED
    BY <2>1, <2>10 DEF r
<1>11. CASE q.rows = <<>> /\ rest = <<>> /\ ~(q.level < q.depth /\ q.next # <<>>)
  <2>1. NextOf(q) = [q EXCEPT !.at = "answered"]
    BY <1>11 DEF NextOf
  <2> DEFINE r == [q EXCEPT !.at = "answered"]
  <2>2. /\ r.at = "answered" /\ r.start = q.start /\ r.depth = q.depth
        /\ r.nodes = q.nodes /\ r.edges = q.edges
    BY DEF NeighborQuery
  <2> HIDE DEF r
  <2>3. q.nodes = Ball(q.start, q.level) /\ q.edges = UNION {Incident(n) : n \in Ball(q.start, q.level - 1)}
    BY <1>5, <1>6, <1>9, <1>11
  <2>4. Ball(q.start, q.depth) = Ball(q.start, q.level)
        /\ Ball(q.start, q.depth - 1) = Ball(q.start, q.level - 1)
    <3>1. CASE ~(q.level < q.depth)
      <4>1. q.level = q.depth
        BY <3>1, <1>1
      <4>2. QED
        BY <4>1
    <3>2. CASE q.level < q.depth
      <4>1. q.next = <<>>
        BY <3>2, <1>11
      <4>2. q.nodes = B
        BY <4>1, <1>2, InEmpty
      <4>3. Ball(q.start, q.level) = Ball(q.start, q.level - 1)
        BY <4>2, <2>3, <1>5
      <4> DEFINE c == q.level - 1
      <4>4. c \in Nat /\ c + 1 = q.level /\ q.depth \in Nat /\ q.depth - 1 \in Nat
            /\ c <= q.depth /\ c <= q.depth - 1
        BY <1>1, <3>2
      <4>5. Ball(q.start, c + 1) = Ball(q.start, c)
        BY <4>3, <4>4
      <4> HIDE DEF c
      <4>6. Ball(q.start, q.depth) = Ball(q.start, c) /\ Ball(q.start, q.depth - 1) = Ball(q.start, c)
        BY <4>4, <4>5, BallStops
      <4>7. QED
        BY <4>3, <4>6 DEF c
    <3>3. QED
      BY <3>1, <3>2
  <2>5. Answers(r)
    BY <2>2, <2>3, <2>4 DEF Answers
  <2>6. NeighborFacts(r)
    BY <2>2, <2>5 DEF NeighborFacts
  <2>7. QED
    BY <2>1, <2>6 DEF r
<1>12. QED
  BY <1>7, <1>8, <1>10, <1>11

\* The rows that are read of a node are of its edges, and of all of them if there are
\* not too many.
LEMMA ListedRows ==
  ASSUME TablesTypeOK, EdgesHaveTheirEnds, IsFiniteSet(DOMAIN edges),
         NEW n \in NodeIds, NEW rows \in ListEdges(n)
  PROVE  /\ rows \in Seq(EdgeRow)
         /\ \A k \in 1 .. Len(rows) : RowIsThere(rows[k]) /\ rows[k].id \in Incident(n)
         /\ Cardinality(Incident(n)) <= EdgeLimit =>
              \A e \in Incident(n) : \E k \in 1 .. Len(rows) : rows[k].id = e
<1> DEFINE found == Incident(n)
           m == IF Cardinality(found) < EdgeLimit THEN Cardinality(found) ELSE EdgeLimit
<1>1. IsFiniteSet(found) /\ found \subseteq DOMAIN edges /\ Cardinality(found) \in Nat
  <2>1. found \subseteq DOMAIN edges
    BY DEF Incident
  <2>2. IsFiniteSet(found)
    BY <2>1, FS_Subset
  <2>3. QED
    BY <2>1, <2>2, FS_CardinalityType
<1>2. EdgeLimit \in Nat \ {0} /\ DOMAIN edges \subseteq EdgeIds
  BY KnowledgeAssumption DEF TablesTypeOK
<1>3. m \in Nat /\ (Cardinality(found) <= EdgeLimit => m = Cardinality(found))
  BY <1>1, <1>2
<1>4. PICK s \in {t \in [1 .. m -> found] : IsInjective(t)} :
        rows = [k \in 1 .. m |-> [id |-> s[k], source |-> edges[s[k]].source, target |-> edges[s[k]].target]]
  BY Zenon DEF ListEdges
<1> HIDE DEF m, found
<1>5. s \in [1 .. m -> found] /\ IsInjective(s)
  OBVIOUS
<1>6. ASSUME NEW e \in found PROVE edges[e].source \in NodeIds /\ edges[e].target \in NodeIds
  BY <1>1 DEF TablesTypeOK, EdgesHaveTheirEnds, Ends
<1>7. ASSUME NEW k \in 1 .. m
      PROVE  /\ rows[k] = [id |-> s[k], source |-> edges[s[k]].source, target |-> edges[s[k]].target]
             /\ rows[k] \in EdgeRow /\ rows[k].id = s[k] /\ s[k] \in found
  <2>1. rows[k] = [id |-> s[k], source |-> edges[s[k]].source, target |-> edges[s[k]].target]
    BY <1>4
  <2>2. s[k] \in found
    BY <1>5
  <2>3. QED
    BY <2>1, <2>2, <1>1, <1>2, <1>6 DEF EdgeRow
<1>8. rows \in [1 .. m -> EdgeRow]
  BY <1>4, <1>7
<1>9. rows \in Seq(EdgeRow) /\ Len(rows) = m
  BY <1>3, <1>8
<1>10. \A k \in 1 .. Len(rows) : RowIsThere(rows[k]) /\ rows[k].id \in Incident(n)
  BY <1>7, <1>9, <1>1 DEF RowIsThere, found
<1>11. ASSUME Cardinality(found) <= EdgeLimit, NEW e \in found
       PROVE \E k \in 1 .. Len(rows) : rows[k].id = e
  <2>1. m = Cardinality(found)
    BY <1>3, <1>11
  <2>2. IsFiniteSet(1 .. m) /\ Cardinality(1 .. m) = m
    BY <1>3, FS_Interval
  <2>3. s \in Injection(1 .. m, found)
    BY <1>5 DEF Injection
  <2>4. s \in Surjection(1 .. m, found)
    BY <2>1, <2>2, <2>3, <1>1, FS_Injection
  <2>5. PICK k \in 1 .. m : s[k] = e
    BY <2>4 DEF Surjection
  <2>6. QED
    BY <2>5, <1>7, <1>9
<1>12. QED
  BY <1>9, <1>10, <1>11 DEF found

Narrow == \A n \in NodeIds : Cardinality(Incident(n)) <= EdgeLimit

LEMMA ListKeeps ==
  ASSUME TablesTypeOK, EdgesHaveTheirEnds, IsFiniteSet(DOMAIN edges),
         NEW q, NeighborTyped(q), q.at = "list",
         NEW rows \in ListEdges(Head(q.current))
  PROVE  LET p == NextOf([q EXCEPT !.rows = rows])
         IN /\ NeighborTyped(p) /\ p.steady = q.steady
            /\ NeighborFacts(q) /\ Narrow => NeighborFacts(p)
<1> DEFINE p == [q EXCEPT !.rows = rows]
           h == Head(q.current)
<1>1. q \in NeighborQuery /\ q.current # <<>> /\ q.current \in Seq(NodeIds) /\ h \in NodeIds
  BY InTail DEF NeighborTyped, NeighborQuery
<1>2. /\ rows \in Seq(EdgeRow)
      /\ \A k \in 1 .. Len(rows) : RowIsThere(rows[k]) /\ rows[k].id \in Incident(h)
      /\ Cardinality(Incident(h)) <= EdgeLimit =>
              \A e \in Incident(h) : \E k \in 1 .. Len(rows) : rows[k].id = e
  BY <1>1, ListedRows
<1>3. /\ p \in NeighborQuery /\ p.start = q.start /\ p.depth = q.depth /\ p.level = q.level
      /\ p.current = q.current /\ p.next = q.next /\ p.rows = rows /\ p.nodes = q.nodes /\ p.edges = q.edges
      /\ p.steady = q.steady
  BY <1>1, <1>2 DEF NeighborQuery
<1> HIDE DEF p, h
<1>4. NeighborTyped(NextOf(p)) /\ NextOf(p).steady = q.steady
  BY <1>1, <1>3, NextOfTyped
<1>5. ASSUME NeighborFacts(q), Narrow PROVE NeighborFacts(NextOf(p))
  <2>1. Progress(q)
    BY <1>5 DEF NeighborFacts
  <2>2. Progress(p)
    BY <2>1, <1>3 DEF Progress, Below, Known
  <2>3. RowsLeft(p)
    <3>1. Head(p.current) = h
      BY <1>3 DEF h
    <3>2. Cardinality(Incident(h)) <= EdgeLimit
      BY <1>1, <1>5 DEF Narrow
    <3>3. QED
      BY <3>1, <3>2, <1>2, <1>3 DEF RowsLeft
  <2>4. QED
    BY <2>2, <2>3, <1>1, <1>3, NextOfRight DEF Halfway
<1>6. QED
  BY <1>4, <1>5 DEF p

\* The edge that is read next is taken in, with the node behind it.
Taken(q) ==
  LET n == Other(Head(q.rows), Head(q.current))
  IN [q EXCEPT !.rows = Tail(@), !.edges = @ \cup {Head(q.rows).id},
               !.nodes = @ \cup {n}, !.next = IF n \in q.nodes THEN @ ELSE Append(@, n)]

LEMMA GetKeeps ==
  ASSUME NEW q, NeighborTyped(q), q.at = "neighbor"
  PROVE  /\ NeighborTyped(NextOf(Taken(q))) /\ NextOf(Taken(q)).steady = q.steady
         /\ NeighborFacts(q) => NeighborFacts(NextOf(Taken(q)))
<1> DEFINE n == Other(Head(q.rows), Head(q.current))
           p == Taken(q)
<1>10. /\ n = Other(Head(q.rows), Head(q.current))
       /\ p = [q EXCEPT !.rows = Tail(@), !.edges = @ \cup {Head(q.rows).id},
                        !.nodes = @ \cup {n}, !.next = IF n \in q.nodes THEN @ ELSE Append(@, n)]
  BY DEF Taken
<1> HIDE DEF n, p
<1> DEFINE edge == Head(q.rows)
           h == Head(q.current)
           rest == Tail(q.rows)
           next == IF n \in q.nodes THEN q.next ELSE Append(q.next, n)
<1>1. /\ q \in NeighborQuery /\ q.current # <<>> /\ q.current \in Seq(NodeIds) /\ h \in In(q.current)
      /\ q.rows \in Seq(EdgeRow) /\ q.rows # <<>> /\ q.next \in Seq(NodeIds)
      /\ q.nodes \subseteq NodeIds /\ q.edges \subseteq EdgeIds
  BY InTail DEF NeighborTyped, NeighborQuery
<1>2. edge \in EdgeRow /\ rest \in Seq(EdgeRow) /\ n \in NodeIds
  <2>1. edge \in EdgeRow /\ rest \in Seq(EdgeRow)
    BY <1>1
  <2>2. n = edge.source \/ n = edge.target
    BY <1>10 DEF Other
  <2>3. QED
    BY <2>1, <2>2 DEF EdgeRow
<1>3. next \in Seq(NodeIds) /\ In(next) = IF n \in q.nodes THEN In(q.next) ELSE In(q.next) \cup {n}
  <2>1. CASE n \in q.nodes
    BY <2>1, <1>1
  <2>2. CASE n \notin q.nodes
    <3>1. next = Append(q.next, n)
      BY <2>2
    <3> HIDE DEF next
    <3>2. QED
      BY <3>1, <2>2, <1>1, <1>2, InAppend
  <2>3. QED
    BY <2>1, <2>2
<1>4. /\ p \in NeighborQuery /\ p.start = q.start /\ p.depth = q.depth /\ p.level = q.level
      /\ p.current = q.current /\ p.next = next /\ p.rows = rest /\ p.nodes = q.nodes \cup {n}
      /\ p.edges = q.edges \cup {edge.id} /\ p.steady = q.steady
  <2> HIDE DEF next
  <2>1. p = [q EXCEPT !.rows = rest, !.edges = q.edges \cup {edge.id},
                       !.nodes = q.nodes \cup {n}, !.next = next]
    BY <1>1, <1>10 DEF next, NeighborQuery
  <2>2. q.edges \cup {edge.id} \subseteq EdgeIds /\ q.nodes \cup {n} \subseteq NodeIds
    BY <1>1, <1>2 DEF EdgeRow
  <2> HIDE DEF edge, rest, h
  <2>3. QED
    BY <2>1, <2>2, <1>1, <1>2, <1>3 DEF NeighborQuery
<1>5. NeighborTyped(NextOf(p)) /\ NextOf(p).steady = q.steady
  BY <1>1, <1>4, NextOfTyped
<1> HIDE DEF next
<1>6. ASSUME NeighborFacts(q) PROVE NeighborFacts(NextOf(p))
  <2>1. Progress(q) /\ RowsLeft(q)
    BY <1>6 DEF NeighborFacts
  <2>2. /\ \A k \in 1 .. Len(q.rows) : RowIsThere(q.rows[k]) /\ q.rows[k].id \in Incident(h)
        /\ \A e \in Incident(h) : \/ e \in q.edges /\ Ends(edges[e]) \subseteq q.nodes
                                  \/ \E k \in 1 .. Len(q.rows) : q.rows[k].id = e
    BY <2>1 DEF RowsLeft
  <2>3. /\ In(q.current) \subseteq Below(q)
        /\ q.nodes = Below(q) \cup In(q.next) /\ In(q.next) \subseteq Around(Below(q))
        /\ \A m \in Below(q) \ In(q.current) : Known(q, m)
        /\ q.edges \subseteq UNION {Incident(m) : m \in Below(q)}
    BY <2>1 DEF Progress
  <2>4. /\ Len(q.rows) \in Nat \ {0} /\ edge = q.rows[1] /\ Len(rest) = Len(q.rows) - 1
        /\ \A k \in 1 .. Len(q.rows) - 1 : rest[k] = q.rows[k + 1]
    BY <1>1
  <2> HIDE DEF edge, rest, h
  <2>5. RowIsThere(edge) /\ edge.id \in Incident(h)
    BY <2>2, <2>4
  <2>6. h \in Ends(edges[edge.id]) /\ Ends(edges[edge.id]) = {h, n}
    BY <2>5, <1>10 DEF RowIsThere, Incident, Ends, Other, edge, h
  <2>7. h \in Below(q) /\ n \in Around(Below(q))
    <3>1. h \in Below(q)
      BY <1>1, <2>3
    <3>2. QED
      BY <3>1, <2>5, <2>6, AroundIsIncident
  <2>8. Below(p) = Below(q)
    BY <1>4 DEF Below
  <2>9. Progress(p)
    <3>1. \A m \in Below(q) \ In(q.current) : Known(p, m)
      BY <2>3, <1>4 DEF Known
    <3>2. p.nodes = Below(q) \cup In(next)
      BY <2>3, <1>3, <1>4
    <3>3. In(next) \subseteq Around(Below(q))
      BY <2>3, <2>7, <1>3
    <3>4. p.edges \subseteq UNION {Incident(m) : m \in Below(q)}
      BY <2>3, <2>5, <2>7, <1>4
    <3>5. 1 <= p.level /\ p.level <= p.depth
      BY <2>1, <1>4 DEF Progress
    <3>6. QED
      BY <3>1, <3>2, <3>3, <3>4, <3>5, <2>3, <2>8, <1>4 DEF Progress
  <2>10. RowsLeft(p)
    <3>1. \A k \in 1 .. Len(rest) : RowIsThere(rest[k]) /\ rest[k].id \in Incident(h)
      <4> TAKE k \in 1 .. Len(rest)
      <4>1. k + 1 \in 1 .. Len(q.rows) /\ rest[k] = q.rows[k + 1]
        BY <2>4
      <4>2. QED
        BY <4>1, <2>2
    <3>2. ASSUME NEW e \in Incident(h)
          PROVE  \/ e \in p.edges /\ Ends(edges[e]) \subseteq p.nodes
                 \/ \E k \in 1 .. Len(rest) : rest[k].id = e
      <4>1. CASE e \in q.edges /\ Ends(edges[e]) \subseteq q.nodes
        BY <4>1, <1>4
      <4>2. CASE e = edge.id
        <5>1. Ends(edges[e]) \subseteq p.nodes
          BY <4>2, <2>3, <2>6, <2>7, <1>4
        <5>2. QED
          BY <5>1, <4>2, <1>4
      <4>3. ASSUME NEW k \in 1 .. Len(q.rows), q.rows[k].id = e, k # 1
            PROVE \E j \in 1 .. Len(rest) : rest[j].id = e
        <5>1. k - 1 \in 1 .. Len(rest) /\ (k - 1) + 1 = k /\ k - 1 \in 1 .. Len(q.rows) - 1
          BY <2>4, <4>3
        <5>2. rest[k - 1] = q.rows[k]
          BY <5>1, <2>4
        <5>3. QED
          BY <5>1, <5>2, <4>3
      <4>4. QED
        BY <4>1, <4>2, <4>3, <2>2, <2>4
    <3>3. Head(p.current) = h
      BY <1>4 DEF h
    <3>4. QED
      BY <3>1, <3>2, <3>3, <1>4 DEF RowsLeft
  <2>11. QED
    BY <2>9, <2>10, <1>1, <1>4, NextOfRight DEF Halfway
<1>7. QED
  BY <1>5, <1>6 DEF p

-----------------------------------------------------------------------------
(* KnowledgeGraph: what ShortestPath answers.                              *)

LEMMA BallGrows ==
  ASSUME NEW n, NEW c \in Nat, NEW d \in Nat, c <= d
  PROVE  Ball(n, c) \subseteq Ball(n, d)
<1> DEFINE Bad == {k \in Nat : c <= k /\ ~(Ball(n, c) \subseteq Ball(n, k))}
<1> SUFFICES ASSUME Bad # {} PROVE FALSE
  OBVIOUS
<1>1. PICK k \in Bad : \A j \in Bad : k <= j
  <2>1. Bad \subseteq Nat
    OBVIOUS
  <2> HIDE DEF Bad
  <2>2. QED
    BY <2>1, LeastNumber
<1>2. k \in Nat /\ c <= k /\ ~(Ball(n, c) \subseteq Ball(n, k))
  OBVIOUS
<1>3. k - 1 \in Nat /\ c <= k - 1 /\ ~(k <= k - 1) /\ (k - 1) + 1 = k
  <2>1. k # c
    BY <1>2
  <2>2. QED
    BY <1>2, <2>1
<1>4. k - 1 \notin Bad
  <2> HIDE DEF Bad
  <2>1. QED
    BY <1>1, <1>3
<1>5. Ball(n, c) \subseteq Ball(n, k - 1)
  BY <1>3, <1>4
<1> HIDE DEF Bad
<1>6. Ball(n, (k - 1) + 1) = Ball(n, k - 1) \cup Around(Ball(n, k - 1))
  BY <1>3, BallFacts
<1>7. QED
  BY <1>2, <1>3, <1>5, <1>6

\* What is near a node is one edge farther from its neighbors.
LEMMA BallNextTo ==
  ASSUME NEW e \in DOMAIN edges, NEW m \in Ends(edges[e]), NEW n \in Ends(edges[e]), NEW d \in Nat
  PROVE  Ball(m, d) \subseteq Ball(n, d + 1)
<1> DEFINE Bad == {k \in Nat : ~(Ball(m, k) \subseteq Ball(n, k + 1))}
<1> SUFFICES ASSUME Bad # {} PROVE FALSE
  OBVIOUS
<1>1. PICK k \in Bad : \A j \in Bad : k <= j
  <2>1. Bad \subseteq Nat
    OBVIOUS
  <2> HIDE DEF Bad
  <2>2. QED
    BY <2>1, LeastNumber
<1>2. k \in Nat /\ ~(Ball(m, k) \subseteq Ball(n, k + 1))
  OBVIOUS
<1>3. CASE k = 0
  <2>1. Ball(m, 0) = {m} /\ Ball(n, 0 + 1) = {n} \cup Around({n})
    BY BallFacts
  <2>2. e \in Incident(n)
    BY DEF Incident
  <2>3. m \in Around({n})
    BY <2>2, AroundIsIncident
  <2>4. QED
    BY <1>2, <1>3, <2>1, <2>3
<1>4. CASE k # 0
  <2>1. k - 1 \in Nat /\ ~(k <= k - 1) /\ (k - 1) + 1 = k
    BY <1>2, <1>4
  <2>2. k - 1 \notin Bad
    <3> HIDE DEF Bad
    <3>1. QED
      BY <1>1, <2>1
  <2>3. Ball(m, k - 1) \subseteq Ball(n, k)
    BY <2>1, <2>2
  <2> HIDE DEF Bad
  <2>4. Ball(m, (k - 1) + 1) = Ball(m, k - 1) \cup Around(Ball(m, k - 1))
    BY <2>1, BallFacts
  <2>5. Ball(n, k + 1) = Ball(n, k) \cup Around(Ball(n, k))
    BY <1>2, BallFacts
  <2>6. Around(Ball(m, k - 1)) \subseteq Around(Ball(n, k))
    BY <2>3 DEF Around
  <2>7. QED
    BY <1>2, <2>1, <2>3, <2>4, <2>5, <2>6
<1>5. QED
  BY <1>3, <1>4

\* The loop over rows, from state q on, for the edges of n.
ScanStep(f, q, rows, n, k) == IF k = 0 THEN q ELSE Looked(f[k - 1], rows[k], n)
IsScan(f, q, rows, n, m) == f = [k \in 0 .. m |-> ScanStep(f, q, rows, n, k)]

LEMMA ScanExists ==
  ASSUME NEW q, NEW rows, NEW n, NEW m \in Nat
  PROVE  \E f : IsScan(f, q, rows, n, m)
<1> DEFINE Bad == {k \in Nat : ~ \E f : IsScan(f, q, rows, n, k)}
<1> SUFFICES ASSUME m \in Bad PROVE FALSE
  OBVIOUS
<1>1. PICK k \in Bad : \A j \in Bad : k <= j
  <2>1. Bad \subseteq Nat
    OBVIOUS
  <2> HIDE DEF Bad
  <2>2. QED
    BY <2>1, LeastNumber
<1>2. k \in Nat /\ ~ \E f : IsScan(f, q, rows, n, k)
  OBVIOUS
<1>3. CASE k = 0
  <2> DEFINE f == [j \in 0 .. 0 |-> q]
  <2>1. \A j \in 0 .. 0 : ScanStep(f, q, rows, n, j) = q
    BY DEF ScanStep
  <2>2. IsScan(f, q, rows, n, 0)
    BY <2>1 DEF IsScan
  <2>3. QED
    BY <2>2, <1>2, <1>3
<1>4. CASE k # 0
  <2>1. k - 1 \in Nat /\ k - 1 \notin Bad
    <3>1. k - 1 \in Nat /\ ~(k <= k - 1)
      BY <1>2, <1>4
    <3> HIDE DEF Bad
    <3>2. QED
      BY <1>1, <3>1
  <2>2. PICK g : IsScan(g, q, rows, n, k - 1)
    BY <2>1
  <2> HIDE DEF Bad
  <2> DEFINE f == [j \in 0 .. k |-> IF j = k THEN ScanStep(g, q, rows, n, k) ELSE g[j]]
  <2>3. ASSUME NEW j \in 0 .. k PROVE f[j] = ScanStep(f, q, rows, n, j)
    <3>1. j # 0 => j - 1 \in 0 .. k /\ j - 1 # k
      BY <1>2
    <3>2. j # 0 => f[j - 1] = g[j - 1]
      BY <3>1
    <3>3. ScanStep(f, q, rows, n, j) = ScanStep(g, q, rows, n, j)
      <4> HIDE DEF f
      <4>1. QED
        BY <3>2 DEF ScanStep
    <3>4. j # k => j \in 0 .. (k - 1)
      BY <1>2
    <3>5. j # k => g[j] = ScanStep(g, q, rows, n, j)
      BY <2>2, <3>4 DEF IsScan
    <3>6. f[j] = IF j = k THEN ScanStep(g, q, rows, n, k) ELSE g[j]
      OBVIOUS
    <3> HIDE DEF f
    <3>7. QED
      BY <3>3, <3>5, <3>6
  <2>4. f = [j \in 0 .. k |-> ScanStep(f, q, rows, n, j)]
    BY <2>3
  <2>5. QED
    BY <2>4, <1>2 DEF IsScan
<1>5. QED
  BY <1>3, <1>4

LEMMA ScannedIsLooked ==
  ASSUME NEW q, NEW rows, NEW n, Len(rows) \in Nat
  PROVE  \E f : /\ f[0] = q /\ Scanned(q, rows, n) = f[Len(rows)]
                /\ \A k \in 1 .. Len(rows) : f[k] = Looked(f[k - 1], rows[k], n)
<1> DEFINE f == CHOOSE g : IsScan(g, q, rows, n, Len(rows))
<1>1. IsScan(f, q, rows, n, Len(rows))
  BY ScanExists
<1>2. Scanned(q, rows, n) = f[Len(rows)]
  BY DEF Scanned, IsScan, ScanStep
<1> HIDE DEF f
<1>3. f[0] = q
  BY <1>1 DEF IsScan, ScanStep
<1>4. ASSUME NEW k \in 1 .. Len(rows) PROVE f[k] = Looked(f[k - 1], rows[k], n)
  <2>1. k \in 0 .. Len(rows) /\ k # 0
    OBVIOUS
  <2>2. f[k] = ScanStep(f, q, rows, n, k)
    BY <1>1, <2>1 DEF IsScan
  <2>3. QED
    BY <2>1, <2>2 DEF ScanStep
<1>5. QED
  BY <1>2, <1>3, <1>4

\* What is visited is a tree with the start at its root: far tells how many edges
\* away from the start a node is, which is as few as can be.
PathFields ==
  {"at", "steady", "start", "end", "queue", "visited", "prev", "node", "nodes", "edges"}
LeadsBack(q, far, m) ==
  LET p == q.prev[m]
  IN /\ p.node \in q.visited /\ far[m] = far[p.node] + 1
     /\ p.edge \in DOMAIN edges /\ Ends(edges[p.edge]) = {m, p.node}
Tree(q, far) ==
  /\ q.start \in q.visited /\ q.visited \subseteq NodeIds /\ q.end \in NodeIds
  /\ far \in [q.visited -> Nat] /\ far[q.start] = 0
  /\ \A m \in q.visited : m \in Ball(q.start, far[m]) /\ \A k \in Nat : k < far[m] => m \notin Ball(q.start, k)
  /\ DOMAIN q.prev = q.visited \ {q.start}
  /\ \A m \in q.visited \ {q.start} : LeadsBack(q, far, m)

\* The queue has nodes at distance k and k + 1, in this order, and everything up to k
\* is visited.
Level(q, far, k) ==
  /\ q.queue \in Seq(q.visited)
  /\ \A i \in 1 .. Len(q.queue) : far[q.queue[i]] \in {k, k + 1}
  /\ \A i, j \in 1 .. Len(q.queue) : i <= j => far[q.queue[i]] <= far[q.queue[j]]
Exhausted(q, m) == \A e \in Incident(m) : Ends(edges[e]) \subseteq q.visited

\* The loop has looked at j of the edges of n, which is at distance k.
Midway(s, far, n, k, rows, j) ==
  /\ DOMAIN s = PathFields /\ Tree(s, far)
  /\ n \in s.visited /\ k \in Nat /\ far[n] = k /\ Ball(s.start, k) \subseteq s.visited
  /\ s.end \notin s.visited =>
       /\ Level(s, far, k)
       /\ \A m \in s.visited \ (In(s.queue) \cup {n}) : Exhausted(s, m)
       /\ \A i \in 1 .. j : Other(rows[i], n) \in s.visited

LEMMA LookedKeeps ==
  ASSUME NEW n, NEW k, NEW rows, NEW j \in Nat, NEW s, NEW far, Midway(s, far, n, k, rows, j),
         RowIsThere(rows[j + 1]), rows[j + 1].id \in Incident(n), Other(rows[j + 1], n) \in NodeIds,
         NEW t, t = Looked(s, rows[j + 1], n)
  PROVE  /\ \E g : Midway(t, g, n, k, rows, j + 1)
         /\ t.start = s.start /\ t.end = s.end
<1> DEFINE row == rows[j + 1]
           m == Other(row, n)
<1>1. /\ DOMAIN s = PathFields /\ Tree(s, far) /\ n \in s.visited /\ k \in Nat /\ far[n] = k
      /\ Ball(s.start, k) \subseteq s.visited
  BY DEF Midway
<1>2. CASE m \in s.visited \/ s.end \in s.visited
  <2>1. t = s
    BY <1>2 DEF Looked
  <2>2. s.end \notin s.visited => \A i \in 1 .. (j + 1) : Other(rows[i], n) \in s.visited
    <3> SUFFICES ASSUME s.end \notin s.visited, NEW i \in 1 .. (j + 1) PROVE Other(rows[i], n) \in s.visited
      OBVIOUS
    <3>1. i = j + 1 \/ i \in 1 .. j
      OBVIOUS
    <3>2. QED
      BY <3>1, <1>2 DEF Midway
  <2>3. Midway(s, far, n, k, rows, j + 1)
    BY <2>2 DEF Midway
  <2>4. QED
    BY <2>1, <2>3
<1>3. CASE m \notin s.visited /\ s.end \notin s.visited
  <2> DEFINE g == [x \in s.visited \cup {m} |-> IF x = m THEN k + 1 ELSE far[x]]
             step == [node |-> n, edge |-> row.id]
             queue == IF m = s.end THEN s.queue ELSE Append(s.queue, m)
  <2>1. t = [s EXCEPT !.visited = s.visited \cup {m}, !.prev = With(s.prev, m, step), !.queue = queue]
    BY <1>1, <1>3 DEF Looked, Enqueued, PathFields
  <2> HIDE DEF queue, step
  <2>2. /\ DOMAIN t = PathFields /\ t.visited = s.visited \cup {m} /\ t.prev = With(s.prev, m, step)
        /\ t.queue = queue /\ t.start = s.start /\ t.end = s.end
    BY <2>1, <1>1 DEF PathFields
  <2>3. /\ row.id \in DOMAIN edges /\ Ends(edges[row.id]) = {m, n} /\ row.id \in Incident(n)
        /\ m \in NodeIds
    BY DEF RowIsThere, Incident, Ends, Other
  <2>4. m \in Around(Ball(s.start, k))
    <3>1. n \in Ball(s.start, k)
      BY <1>1 DEF Tree
    <3>2. QED
      BY <3>1, <2>3, AroundIsIncident
  <2> HIDE DEF row, m
  <2>5. /\ g \in [s.visited \cup {m} -> Nat] /\ g[m] = k + 1 /\ \A x \in s.visited : g[x] = far[x]
    BY <1>1, <1>3 DEF Tree
  <2> HIDE DEF g
  <2>6. m \in Ball(s.start, k + 1) /\ \A d \in Nat : d < k + 1 => m \notin Ball(s.start, d)
    <3>1. Ball(s.start, k + 1) = Ball(s.start, k) \cup Around(Ball(s.start, k))
      BY <1>1, BallFacts
    <3>2. ASSUME NEW d \in Nat, d < k + 1 PROVE m \notin Ball(s.start, d)
      <4>1. d <= k
        BY <1>1, <3>2
      <4>2. QED
        BY <4>1, <1>1, <1>3, BallGrows
    <3>3. QED
      BY <3>1, <3>2, <2>4
  <2>7. Tree(t, g)
    <3>1. t.start \in t.visited /\ t.visited \subseteq NodeIds /\ t.end \in NodeIds
          /\ g \in [t.visited -> Nat] /\ g[t.start] = 0 /\ m # s.start
      BY <1>1, <1>3, <2>2, <2>3, <2>5 DEF Tree
    <3>2. ASSUME NEW x \in t.visited
          PROVE  x \in Ball(t.start, g[x]) /\ \A d \in Nat : d < g[x] => x \notin Ball(t.start, d)
      <4>1. CASE x = m
        BY <4>1, <2>2, <2>5, <2>6
      <4>2. CASE x \in s.visited
        BY <4>2, <2>2, <2>5, <1>1 DEF Tree
      <4>3. QED
        BY <4>1, <4>2, <2>2
    <3>3. DOMAIN s.prev = s.visited \ {s.start}
      BY <1>1 DEF Tree
    <3>4. /\ DOMAIN t.prev = (s.visited \ {s.start}) \cup {m} /\ t.prev[m] = step
          /\ \A x \in s.visited \ {s.start} : t.prev[x] = s.prev[x]
      BY <3>3, <2>2, <1>3 DEF With
    <3>5. DOMAIN t.prev = t.visited \ {t.start}
      BY <3>4, <3>1, <2>2
    <3>6. ASSUME NEW x \in t.visited \ {t.start} PROVE LeadsBack(t, g, x)
      <4>1. CASE x = m
        <5>1. t.prev[x].node = n /\ t.prev[x].edge = row.id
          BY <4>1, <3>4 DEF step
        <5>2. g[n] = k /\ g[x] = k + 1 /\ n \in t.visited
          BY <4>1, <1>1, <2>2, <2>5
        <5>3. QED
          BY <5>1, <5>2, <2>3, <4>1 DEF LeadsBack
      <4>2. CASE x \in s.visited
        <5>1. x \in s.visited \ {s.start}
          BY <4>2, <2>2
        <5>2. LeadsBack(s, far, x)
          BY <5>1, <1>1 DEF Tree
        <5>3. t.prev[x] = s.prev[x]
          BY <5>1, <3>4
        <5>4. g[x] = far[x] /\ (s.prev[x].node \in s.visited => g[s.prev[x].node] = far[s.prev[x].node])
          BY <4>2, <2>5
        <5>5. QED
          BY <5>2, <5>3, <5>4, <2>2 DEF LeadsBack
      <4>3. QED
        BY <4>1, <4>2, <2>2
    <3>7. QED
      BY <3>1, <3>2, <3>5, <3>6 DEF Tree
  <2>8. n \in t.visited /\ g[n] = k /\ Ball(t.start, k) \subseteq t.visited
    BY <1>1, <2>2, <2>5
  <2>9. ASSUME t.end \notin t.visited
        PROVE  /\ Level(t, g, k)
               /\ \A x \in t.visited \ (In(t.queue) \cup {n}) : Exhausted(t, x)
               /\ \A i \in 1 .. (j + 1) : Other(rows[i], n) \in t.visited
    <3>1. queue = Append(s.queue, m)
      BY <2>9, <2>2 DEF queue
    <3>2. /\ Level(s, far, k) /\ \A x \in s.visited \ (In(s.queue) \cup {n}) : Exhausted(s, x)
          /\ \A i \in 1 .. j : Other(rows[i], n) \in s.visited
      BY <1>3 DEF Midway
    <3>3. s.queue \in Seq(s.visited) /\ s.queue \in Seq(t.visited) /\ m \in t.visited
      BY <3>2, <2>2 DEF Level
    <3>4. t.queue \in Seq(t.visited) /\ In(t.queue) = In(s.queue) \cup {m}
      BY <3>1, <3>3, <2>2, InAppend
    <3>5. /\ Len(s.queue) \in Nat /\ Len(t.queue) = Len(s.queue) + 1 /\ t.queue[Len(s.queue) + 1] = m
          /\ \A i \in 1 .. Len(s.queue) : t.queue[i] = s.queue[i] /\ s.queue[i] \in s.visited
      BY <3>1, <3>3, <2>2
    <3>6. ASSUME NEW i \in 1 .. Len(t.queue)
          PROVE  /\ g[t.queue[i]] \in {k, k + 1}
                 /\ i = Len(t.queue) => g[t.queue[i]] = k + 1
                 /\ i # Len(t.queue) => i \in 1 .. Len(s.queue) /\ g[t.queue[i]] = far[s.queue[i]]
      <4>1. CASE i = Len(t.queue)
        BY <4>1, <3>5, <2>5
      <4>2. CASE i # Len(t.queue)
        <5>1. i \in 1 .. Len(s.queue)
          BY <4>2, <3>5
        <5>2. g[t.queue[i]] = far[s.queue[i]]
          BY <5>1, <3>5, <2>5
        <5>3. QED
          BY <5>1, <5>2, <4>2, <3>2 DEF Level
      <4>3. QED
        BY <4>1, <4>2
    <3>7. ASSUME NEW a \in 1 .. Len(t.queue), NEW b \in 1 .. Len(t.queue), a <= b
          PROVE  g[t.queue[a]] <= g[t.queue[b]]
      <4>1. CASE b = Len(t.queue)
        BY <4>1, <3>6, <1>1
      <4>2. CASE b # Len(t.queue)
        <5>1. a # Len(t.queue)
          BY <4>2, <3>5, <3>7
        <5>2. QED
          BY <5>1, <4>2, <3>6, <3>7, <3>2 DEF Level
      <4>3. QED
        BY <4>1, <4>2
    <3>8. Level(t, g, k)
      BY <3>4, <3>6, <3>7 DEF Level
    <3>9. ASSUME NEW x \in t.visited \ (In(t.queue) \cup {n}) PROVE Exhausted(t, x)
      <4>1. x \in s.visited \ (In(s.queue) \cup {n})
        BY <3>4, <2>2
      <4>2. QED
        BY <4>1, <3>2, <2>2 DEF Exhausted
    <3>10. ASSUME NEW i \in 1 .. (j + 1) PROVE Other(rows[i], n) \in t.visited
      <4>1. i = j + 1 \/ i \in 1 .. j
        OBVIOUS
      <4>2. QED
        BY <4>1, <3>2, <2>2 DEF m, row
    <3>11. QED
      BY <3>8, <3>9, <3>10
  <2>10. Midway(t, g, n, k, rows, j + 1)
    BY <2>2, <2>7, <2>8, <2>9, <1>1 DEF Midway
  <2>11. QED
    BY <2>2, <2>10
<1>4. QED
  BY <1>2, <1>3

LEMMA ScanLoops ==
  ASSUME NEW q, NEW n, NEW k, NEW rows \in Seq(EdgeRow), NEW far, Midway(q, far, n, k, rows, 0),
         \A j \in 1 .. Len(rows) : RowIsThere(rows[j]) /\ rows[j].id \in Incident(n)
  PROVE  LET t == Scanned(q, rows, n)
         IN /\ t.start = q.start /\ t.end = q.end
            /\ \E g : Midway(t, g, n, k, rows, Len(rows))
<1>1. Len(rows) \in Nat /\ \A j \in 1 .. Len(rows) : rows[j] \in EdgeRow
  OBVIOUS
<1>2. PICK f : /\ f[0] = q /\ Scanned(q, rows, n) = f[Len(rows)]
               /\ \A j \in 1 .. Len(rows) : f[j] = Looked(f[j - 1], rows[j], n)
  BY <1>1, ScannedIsLooked
<1> DEFINE Fine(j) == /\ f[j].start = q.start /\ f[j].end = q.end
                      /\ \E g : Midway(f[j], g, n, k, rows, j)
           Bad == {j \in Nat : j <= Len(rows) /\ ~Fine(j)}
<1> SUFFICES ASSUME ~Fine(Len(rows)) PROVE FALSE
  BY <1>2
<1> HIDE DEF Fine
<1>3. Len(rows) \in Bad
  BY <1>1
<1>4. PICK j \in Bad : \A i \in Bad : j <= i
  <2>1. Bad \subseteq Nat
    OBVIOUS
  <2> HIDE DEF Bad
  <2>2. QED
    BY <1>3, <2>1, LeastNumber
<1>5. j \in Nat /\ j <= Len(rows) /\ ~Fine(j)
  OBVIOUS
<1>6. j # 0
  BY <1>2, <1>5 DEF Fine
<1> DEFINE i == j - 1
<1>7. i \in Nat /\ i + 1 = j /\ i <= Len(rows) /\ ~(j <= i) /\ j \in 1 .. Len(rows)
  BY <1>1, <1>5, <1>6
<1>8. i \notin Bad
  <2> HIDE DEF Bad
  <2>1. QED
    BY <1>4, <1>7
<1>9. Fine(i)
  BY <1>7, <1>8
<1> HIDE DEF Bad, i
<1>10. PICK g : Midway(f[i], g, n, k, rows, i)
  BY <1>9 DEF Fine
<1>11. f[j] = Looked(f[i], rows[i + 1], n)
  BY <1>2, <1>7 DEF i
<1>12. RowIsThere(rows[i + 1]) /\ rows[i + 1].id \in Incident(n) /\ Other(rows[i + 1], n) \in NodeIds
  BY <1>1, <1>7 DEF EdgeRow, Other
<1>13. (\E h : Midway(f[j], h, n, k, rows, i + 1)) /\ f[j].start = f[i].start /\ f[j].end = f[i].end
  <2>1. PICK s : s = f[i]
    OBVIOUS
  <2>2. PICK t : t = Looked(s, rows[i + 1], n)
    OBVIOUS
  <2>3. Midway(s, g, n, k, rows, i)
    BY <1>10, <2>1
  <2>4. (\E h : Midway(t, h, n, k, rows, i + 1)) /\ t.start = s.start /\ t.end = s.end
    BY <1>7, <1>12, <2>2, <2>3, LookedKeeps
  <2>5. t = f[j]
    BY <1>11, <2>1, <2>2
  <2>6. QED
    BY <2>1, <2>4, <2>5
<1>14. Fine(j)
  BY <1>7, <1>9, <1>13 DEF Fine
<1>15. QED
  BY <1>5, <1>14

\* Before a node's edges are asked for: who is not in the queue any more is exhausted.
Searches(q, far) ==
  /\ q.start # q.end /\ q.end \notin q.visited
  /\ q.queue # <<>> /\ Level(q, far, far[Head(q.queue)])
  /\ Ball(q.start, far[Head(q.queue)]) \subseteq q.visited
  /\ \A m \in q.visited \ In(q.queue) : Exhausted(q, m)

LEMMA SearchIsMidway ==
  ASSUME NEW q, NEW far, DOMAIN q = PathFields, Tree(q, far), Searches(q, far),
         NEW s, s = [q EXCEPT !.queue = Tail(q.queue)], NEW n, n = Head(q.queue), NEW rows
  PROVE  Midway(s, far, n, far[n], rows, 0) /\ n \in NodeIds /\ s.start = q.start /\ s.end = q.end
<1> DEFINE k == far[n]
           rest == Tail(q.queue)
<1>1. /\ DOMAIN s = PathFields /\ s.queue = rest /\ s.visited = q.visited /\ s.prev = q.prev
      /\ s.start = q.start /\ s.end = q.end
  BY DEF PathFields
<1>2. q.queue \in Seq(q.visited) /\ q.queue # <<>>
  BY DEF Searches, Level
<1>3. n \in q.visited /\ rest \in Seq(q.visited) /\ In(q.queue) = {n} \cup In(rest)
  BY <1>2, InTail
<1>4. /\ Len(q.queue) \in Nat \ {0} /\ Len(rest) = Len(q.queue) - 1
      /\ \A i \in 1 .. Len(rest) : rest[i] = q.queue[i + 1] /\ i + 1 \in 1 .. Len(q.queue)
  BY <1>2
<1> HIDE DEF rest
<1>5. k \in Nat /\ n \in NodeIds
  BY <1>3 DEF Tree
<1>6. Level(s, far, k)
  <2>1. \A i \in 1 .. Len(rest) : far[rest[i]] \in {k, k + 1}
    BY <1>4 DEF Searches, Level
  <2>2. ASSUME NEW i \in 1 .. Len(rest), NEW j \in 1 .. Len(rest), i <= j PROVE far[rest[i]] <= far[rest[j]]
    <3>1. i + 1 <= j + 1
      BY <2>2
    <3>2. QED
      BY <3>1, <1>4 DEF Searches, Level
  <2> HIDE DEF k
  <2>3. QED
    BY <2>1, <2>2, <1>1, <1>3 DEF Level
<1>7. \A m \in s.visited \ (In(s.queue) \cup {n}) : Exhausted(s, m)
  BY <1>1, <1>3 DEF Searches, Exhausted
<1>8. Tree(s, far)
  BY <1>1 DEF Tree, LeadsBack
<1>9. Ball(s.start, k) \subseteq s.visited
  BY <1>1 DEF Searches
<1>10. /\ \A i \in 1 .. 0 : Other(rows[i], n) \in s.visited
       /\ far[n] = k /\ n \in s.visited
  BY <1>1, <1>3
<1> HIDE DEF k
<1>11. Midway(s, far, n, k, rows, 0)
  BY <1>1, <1>5, <1>6, <1>7, <1>8, <1>9, <1>10 DEF Midway
<1>12. QED
  BY <1>1, <1>5, <1>11 DEF k

\* When all edges of a node were looked at, the search goes on from the next one.
LEMMA MidwaySearches ==
  ASSUME NEW s, NEW far, NEW n, NEW k, NEW rows, NEW j \in Nat, Midway(s, far, n, k, rows, j),
         s.end \notin s.visited, s.start # s.end,
         \A i \in 1 .. j : RowIsThere(rows[i]) /\ rows[i].id \in Incident(n),
         \A e \in Incident(n) : \E i \in 1 .. j : rows[i].id = e
  PROVE  /\ \A m \in s.visited \ In(s.queue) : Exhausted(s, m)
         /\ s.queue # <<>> => Searches(s, far)
<1>1. /\ Tree(s, far) /\ n \in s.visited /\ k \in Nat /\ far[n] = k /\ Ball(s.start, k) \subseteq s.visited
      /\ Level(s, far, k) /\ \A m \in s.visited \ (In(s.queue) \cup {n}) : Exhausted(s, m)
      /\ \A i \in 1 .. j : Other(rows[i], n) \in s.visited
  BY DEF Midway
<1>2. Exhausted(s, n)
  <2> SUFFICES ASSUME NEW e \in Incident(n) PROVE Ends(edges[e]) \subseteq s.visited
    BY DEF Exhausted
  <2>1. PICK i \in 1 .. j : rows[i].id = e
    OBVIOUS
  <2>2. RowIsThere(rows[i]) /\ Other(rows[i], n) \in s.visited
    BY <1>1
  <2>3. Ends(edges[e]) = {n, Other(rows[i], n)}
    BY <2>1, <2>2 DEF RowIsThere, Incident, Ends, Other
  <2>4. QED
    BY <2>2, <2>3, <1>1
<1>3. \A m \in s.visited \ In(s.queue) : Exhausted(s, m)
  BY <1>1, <1>2
<1>4. ASSUME s.queue # <<>> PROVE Searches(s, far)
  <2> DEFINE h == Head(s.queue)
             d == far[h]
  <2>1. /\ s.queue \in Seq(s.visited) /\ Len(s.queue) \in Nat \ {0} /\ h = s.queue[1] /\ h \in s.visited
        /\ \A i \in 1 .. Len(s.queue) : s.queue[i] \in s.visited
    BY <1>1, <1>4 DEF Level
  <2>2. d \in {k, k + 1} /\ \A i \in 1 .. Len(s.queue) : d <= far[s.queue[i]]
    BY <1>1, <2>1 DEF Level
  <2> HIDE DEF h
  <2>3. \A i \in 1 .. Len(s.queue) : far[s.queue[i]] \in {k, k + 1} /\ far[s.queue[i]] \in Nat
    BY <1>1, <2>1 DEF Level, Tree
  <2>4. \A i \in 1 .. Len(s.queue) : far[s.queue[i]] \in {d, d + 1}
    BY <1>1, <2>2, <2>3
  <2>5. Level(s, far, d)
    <3> HIDE DEF d
    <3>1. QED
      BY <1>1, <2>4 DEF Level
  <2>6. Ball(s.start, d) \subseteq s.visited
    <3>1. CASE d = k
      BY <3>1, <1>1
    <3>2. CASE d = k + 1
      <4>1. ASSUME NEW x \in Ball(s.start, k) PROVE Exhausted(s, x)
        <5>1. x \in s.visited
          BY <1>1
        <5>2. ~(k < far[x]) /\ far[x] \in Nat
          BY <5>1, <1>1 DEF Tree
        <5>3. x \notin In(s.queue)
          <6> SUFFICES ASSUME x \in In(s.queue) PROVE FALSE
            OBVIOUS
          <6>1. PICK i \in 1 .. Len(s.queue) : x = s.queue[i]
            BY DEF In
          <6>2. k + 1 <= far[x]
            BY <6>1, <2>2, <3>2
          <6>3. QED
            BY <6>2, <5>2, <1>1
        <5>4. QED
          BY <5>1, <5>3, <1>3
      <4>2. Around(Ball(s.start, k)) \subseteq s.visited
        BY <4>1, AroundIsIncident DEF Exhausted
      <4>3. Ball(s.start, k + 1) = Ball(s.start, k) \cup Around(Ball(s.start, k))
        BY <1>1, BallFacts
      <4> HIDE DEF d
      <4>4. QED
        BY <3>2, <4>2, <4>3, <1>1
    <3>3. QED
      BY <3>1, <3>2, <2>2
  <2>7. QED
    BY <2>5, <2>6, <1>3, <1>4 DEF Searches, h, d
<1>5. QED
  BY <1>3, <1>4

\* When the queue is empty there is nothing else to visit.
LEMMA ExhaustedIsAll ==
  ASSUME NEW q, NEW far, Tree(q, far), \A m \in q.visited : Exhausted(q, m), NEW d \in Nat
  PROVE  Ball(q.start, d) \subseteq q.visited
<1> DEFINE Bad == {k \in Nat : ~(Ball(q.start, k) \subseteq q.visited)}
<1> SUFFICES ASSUME Bad # {} PROVE FALSE
  OBVIOUS
<1>1. PICK k \in Bad : \A j \in Bad : k <= j
  <2>1. Bad \subseteq Nat
    OBVIOUS
  <2> HIDE DEF Bad
  <2>2. QED
    BY <2>1, LeastNumber
<1>2. k \in Nat /\ ~(Ball(q.start, k) \subseteq q.visited)
  OBVIOUS
<1>3. k # 0
  BY <1>2, BallFacts DEF Tree
<1>4. k - 1 \in Nat /\ ~(k <= k - 1) /\ (k - 1) + 1 = k
  BY <1>2, <1>3
<1>5. k - 1 \notin Bad
  <2> HIDE DEF Bad
  <2>1. QED
    BY <1>1, <1>4
<1>6. Ball(q.start, k - 1) \subseteq q.visited
  BY <1>4, <1>5
<1> HIDE DEF Bad
<1>7. Ball(q.start, (k - 1) + 1) = Ball(q.start, k - 1) \cup Around(Ball(q.start, k - 1))
  BY <1>4, BallFacts
<1>8. Around(Ball(q.start, k - 1)) \subseteq q.visited
  BY <1>6, AroundIsIncident DEF Exhausted
<1>9. QED
  BY <1>2, <1>4, <1>6, <1>7, <1>8

\* The way back: path has the nodes from the one that is reached to the end, each at its
\* distance, and the edges taken so far are those that lead to them from distance from on.
Found(q, far, path, from) ==
  /\ q.start # q.end /\ q.end \in q.visited /\ q.node \in q.visited /\ far[q.node] <= far[q.end]
  /\ path \in [far[q.node] .. far[q.end] -> q.visited]
  /\ path[far[q.node]] = q.node /\ path[far[q.end]] = q.end
  /\ \A d \in far[q.node] .. far[q.end] :
        far[path[d]] = d /\ (d # far[q.node] => path[d - 1] = q.prev[path[d]].node)
  /\ q.edges = {q.prev[path[d]].edge : d \in from .. far[q.end]}
  /\ q.nodes = {q.start, q.end} \cup {path[d] : d \in far[q.node] .. far[q.end]}

PathAnswers(q) ==
  LET last == Cardinality(NodeIds)
      used == UNION {Ends(edges[e]) : e \in q.edges}
  IN IF q.start = q.end \/ q.end \notin Ball(q.start, last)
     THEN q.edges = {} /\ q.nodes = {q.start, q.end}
     ELSE LET length == CHOOSE d \in 1..last : q.end \in Ball(q.start, d)
                                                /\ q.end \notin Ball(q.start, d - 1)
          IN /\ Cardinality(q.edges) = length /\ q.nodes = used
             /\ \A d \in 0..length : \E n \in used : n \in Ball(q.start, d)
                                       /\ q.end \in Ball(n, length - d)

LEMMA NodesAreFinite == IsFiniteSet(NodeIds) /\ Cardinality(NodeIds) \in Nat
BY KnowledgeAssumption, FS_CardinalityType

LEMMA FoundAnswers ==
  ASSUME NEW q, NEW far, Tree(q, far), NEW path, Found(q, far, path, 1), q.node = q.start
  PROVE  PathAnswers(q)
<1> DEFINE L == far[q.end]
           last == Cardinality(NodeIds)
           by(d) == q.prev[path[d]].edge
           used == UNION {Ends(edges[e]) : e \in q.edges}
<1>1. far[q.start] = 0 /\ far[q.node] = 0 /\ L \in Nat /\ last \in Nat
  BY NodesAreFinite DEF Tree, Found
<1>2. /\ path \in [0 .. L -> q.visited] /\ path[0] = q.start /\ path[L] = q.end /\ q.start # q.end
      /\ \A d \in 0 .. L : far[path[d]] = d /\ (d # 0 => path[d - 1] = q.prev[path[d]].node)
      /\ q.edges = {by(d) : d \in 1 .. L}
      /\ q.nodes = {q.start, q.end} \cup {path[d] : d \in 0 .. L}
  BY <1>1 DEF Found
<1>3. L # 0
  BY <1>2
<1> HIDE DEF by
<1>4. ASSUME NEW d \in 1 .. L
      PROVE  /\ path[d] \in q.visited \ {q.start} /\ d - 1 \in 0 .. L /\ far[path[d]] = d
             /\ by(d) \in DOMAIN edges /\ Ends(edges[by(d)]) = {path[d], path[d - 1]}
  <2>1. d \in 0 .. L /\ d # 0 /\ d - 1 \in 0 .. L
    BY <1>1
  <2>2. path[d] \in q.visited /\ far[path[d]] = d /\ path[d - 1] = q.prev[path[d]].node
    BY <2>1, <1>2
  <2>3. path[d] # q.start
    BY <2>1, <2>2, <1>1
  <2>4. LeadsBack(q, far, path[d])
    BY SMTT(30), <2>2, <2>3 DEF Tree
  <2>5. by(d) \in DOMAIN edges /\ Ends(edges[by(d)]) = {path[d], path[d - 1]}
    BY ZenonT(30), <2>2, <2>4 DEF LeadsBack, by
  <2>6. QED
    BY <2>1, <2>2, <2>3, <2>5
<1> HIDE DEF L, last
\* As many edges as the distance.
<1>5. ASSUME NEW c \in 1 .. L, NEW d \in 1 .. L, by(c) = by(d) PROVE c = d
  <2>1. {path[c], path[c - 1]} = {path[d], path[d - 1]}
    BY <1>4, <1>5
  <2>2. far[path[c]] = c /\ far[path[c - 1]] = c - 1 /\ far[path[d]] = d /\ far[path[d - 1]] = d - 1
    BY <1>2, <1>4
  <2>3. (path[c] = path[d] \/ path[c] = path[d - 1]) /\ (path[d] = path[c] \/ path[d] = path[c - 1])
    BY <2>1
  <2>4. (c = d \/ c = d - 1) /\ (d = c \/ d = c - 1)
    BY <2>2, <2>3
  <2>5. QED
    BY <2>4, <1>1
<1>6. IsFiniteSet(q.edges) /\ Cardinality(q.edges) = L
  <2> DEFINE f == [d \in 1 .. L |-> by(d)]
  <2>1. f \in [1 .. L -> q.edges] /\ \A e \in q.edges : \E d \in 1 .. L : f[d] = e
    BY <1>2
  <2>2. \A c, d \in 1 .. L : f[c] = f[d] => c = d
    BY <1>5
  <2> HIDE DEF f
  <2>3. f \in Surjection(1 .. L, q.edges)
    BY <2>1 DEF Surjection
  <2>4. f \in Injection(1 .. L, q.edges)
    BY <2>1, <2>2 DEF Injection, IsInjective
  <2>5. IsFiniteSet(1 .. L) /\ Cardinality(1 .. L) = L
    BY <1>1, FS_Interval
  <2>6. QED
    BY <2>3, <2>4, <2>5, FS_Surjection
\* The distance is no more than there are nodes.
<1>7. L <= last
  <2>1. path \in [0 .. L -> NodeIds]
    BY <1>2 DEF Tree
  <2>2. \A c, d \in 0 .. L : path[c] = path[d] => c = d
    <3> SUFFICES ASSUME NEW c \in 0 .. L, NEW d \in 0 .. L, path[c] = path[d] PROVE c = d
      OBVIOUS
    <3>1. far[path[c]] = c /\ far[path[d]] = d
      BY <1>2
    <3>2. QED
      BY <3>1
  <2>3. path \in Injection(0 .. L, NodeIds)
    BY <2>1, <2>2 DEF Injection, IsInjective
  <2>4. Cardinality(0 .. L) <= Cardinality(NodeIds)
    BY <2>3, NodesAreFinite, FS_Injection
  <2>5. Cardinality(0 .. L) = L + 1
    BY <1>1, FS_Interval
  <2>6. QED
    BY <2>4, <2>5, <1>1 DEF last
\* It is the length of a shortest path.
<1>8. /\ q.end \in Ball(q.start, L) /\ \A k \in Nat : k < L => q.end \notin Ball(q.start, k)
  <2>1. q.end \in q.visited
    BY DEF Found
  <2>2. QED
    BY <2>1 DEF Tree, L
<1>9. q.end \in Ball(q.start, last)
  BY <1>1, <1>7, <1>8, BallGrows
<1> DEFINE Right(d) == q.end \in Ball(q.start, d) /\ q.end \notin Ball(q.start, d - 1)
           length == CHOOSE d \in 1 .. last : Right(d)
<1>10. L \in 1 .. last /\ Right(L)
  BY <1>1, <1>3, <1>7, <1>8
<1>11. ASSUME NEW d \in 1 .. last, Right(d) PROVE d = L
  <2>1. d \in Nat /\ d - 1 \in Nat
    BY <1>1
  <2>2. ~(d < L)
    BY <2>1, <1>8, <1>11
  <2>3. ~(L <= d - 1)
    BY <2>1, <1>1, <1>8, <1>11, BallGrows
  <2>4. QED
    BY <2>1, <2>2, <2>3, <1>1
<1> HIDE DEF Right
<1>12. length = L
  BY <1>10, <1>11
<1> HIDE DEF length
<1>13. used = {path[d] : d \in 0 .. L}
  <2>1. ASSUME NEW d \in 0 .. L PROVE path[d] \in used
    <3>1. CASE d # 0
      <4>1. d \in 1 .. L
        BY <3>1
      <4>2. by(d) \in q.edges
        BY <4>1, <1>2
      <4>3. path[d] \in Ends(edges[by(d)])
        <5>1. Ends(edges[by(d)]) = {path[d], path[d - 1]}
          BY <4>1, <1>4
        <5>2. QED
          BY <5>1
      <4>4. QED
        BY <4>2, <4>3
    <3>2. CASE d = 0
      <4>1. PICK c \in 1 .. L : c - 1 = 0
        BY <1>1, <1>3
      <4>2. by(c) \in q.edges
        BY <1>2
      <4>3. path[0] \in Ends(edges[by(c)])
        BY <4>1, <1>4
      <4>4. QED
        BY <4>2, <4>3, <3>2
    <3>3. QED
      BY <3>1, <3>2
  <2>2. ASSUME NEW x \in used PROVE x \in {path[d] : d \in 0 .. L}
    <3>1. PICK e \in q.edges : x \in Ends(edges[e])
      OBVIOUS
    <3>2. PICK d \in 1 .. L : e = by(d)
      BY <1>2
    <3>3. Ends(edges[e]) = {path[d], path[d - 1]}
      BY <3>2, <1>4
    <3>4. x = path[d] \/ x = path[d - 1]
      BY <3>1, <3>3
    <3>5. d \in 0 .. L /\ d - 1 \in 0 .. L
      BY <1>4
    <3>6. QED
      BY <3>4, <3>5
  <2> HIDE DEF used
  <2>3. QED
    BY <2>1, <2>2
<1>14. q.nodes = used
  <2>1. 0 \in 0 .. L /\ L \in 0 .. L
    BY <1>1
  <2>2. q.start \in {path[d] : d \in 0 .. L} /\ q.end \in {path[d] : d \in 0 .. L}
    BY <2>1, <1>2
  <2> HIDE DEF used
  <2>3. QED
    BY <2>2, <1>2, <1>13
\* Each of its nodes is on a shortest path.
<1>15. ASSUME NEW d \in 0 .. L PROVE q.end \in Ball(path[d], L - d)
  <2> DEFINE Bad == {k \in Nat : k <= L /\ q.end \notin Ball(path[L - k], k)}
  <2> SUFFICES ASSUME q.end \notin Ball(path[d], L - d) PROVE FALSE
    OBVIOUS
  <2>1. L - d \in Bad
    <3>1. L - d \in Nat /\ L - d <= L /\ L - (L - d) = d
      BY <1>1
    <3>2. QED
      BY <3>1
  <2>2. PICK k \in Bad : \A j \in Bad : k <= j
    <3>1. Bad \subseteq Nat
      OBVIOUS
    <3> HIDE DEF Bad
    <3>2. QED
      BY <2>1, <3>1, LeastNumber
  <2>3. k \in Nat /\ k <= L /\ q.end \notin Ball(path[L - k], k)
    OBVIOUS
  <2>4. k # 0
    <3>1. L - 0 = L /\ Ball(path[L], 0) = {path[L]}
      BY <1>1, BallFacts
    <3>2. QED
      BY <2>3, <3>1, <1>2
  <2>5. k - 1 \in Nat /\ k - 1 <= L /\ ~(k <= k - 1) /\ (k - 1) + 1 = k
    BY <2>3, <2>4, <1>1
  <2>6. k - 1 \notin Bad
    <3> HIDE DEF Bad
    <3>1. QED
      BY <2>2, <2>5
  <2> DEFINE c == L - k + 1
  <2>7. c \in 1 .. L /\ L - (k - 1) = c /\ c - 1 = L - k
    BY <2>3, <2>4, <1>1
  <2>8. q.end \in Ball(path[c], k - 1)
    BY <2>5, <2>6, <2>7
  <2> HIDE DEF Bad, c
  <2>9. by(c) \in DOMAIN edges /\ path[c] \in Ends(edges[by(c)]) /\ path[c - 1] \in Ends(edges[by(c)])
    BY <2>7, <1>4
  <2>10. Ball(path[c], k - 1) \subseteq Ball(path[c - 1], (k - 1) + 1)
    BY <2>5, <2>9, BallNextTo
  <2>11. QED
    BY <2>3, <2>5, <2>7, <2>8, <2>10
<1>16. ASSUME NEW d \in 0 .. L
       PROVE \E n \in used : n \in Ball(q.start, d) /\ q.end \in Ball(n, L - d)
  <2>1. path[d] \in used
    BY <1>13
  <2>2. path[d] \in Ball(q.start, d)
    <3>1. path[d] \in q.visited /\ far[path[d]] = d
      BY <1>2
    <3>2. QED
      BY <3>1 DEF Tree
  <2> HIDE DEF used
  <2>3. QED
    BY <2>1, <2>2, <1>15
<1> HIDE DEF used
<1>17. Cardinality(q.edges) = length /\ q.nodes = used
       /\ \A d \in 0 .. length : \E n \in used : n \in Ball(q.start, d) /\ q.end \in Ball(n, length - d)
  BY <1>6, <1>12, <1>14, <1>16
<1>18. ~(q.start = q.end \/ q.end \notin Ball(q.start, last))
  BY <1>2, <1>9
<1>19. QED
  BY <1>17, <1>18 DEF PathAnswers, used, length, Right, last

\* What a query for a path knows.
PathFacts(q) ==
  /\ q.at = "end" => /\ q.start \in NodeIds /\ q.end \in NodeIds /\ q.visited = {q.start}
                     /\ q.queue = <<q.start>> /\ DOMAIN q.prev = {}
                     /\ q.nodes = {q.start} /\ q.edges = {} /\ q.node = q.end
  /\ q.at = "scan" => /\ \E far : Tree(q, far) /\ Searches(q, far)
                      /\ q.nodes = {q.start, q.end} /\ q.edges = {} /\ q.node = q.end
  /\ q.at = "edge" => /\ q.node # q.start
                      /\ \E far, path : Tree(q, far) /\ Found(q, far, path, far[q.node] + 1)
  /\ q.at = "node" => /\ q.node # q.start
                      /\ \E far, path : Tree(q, far) /\ Found(q, far, path, far[q.node])
  /\ q.at = "answered" => PathAnswers(q)

-----------------------------------------------------------------------------
(* KnowledgeGraph: the steps of a query.                                   *)

\* A query is a Neighbors query or one for a path; what it knows holds as long as
\* nobody writes.
PathAsked(q) == DOMAIN q = PathFields /\ q.at \in {"end", "scan", "edge", "node", "answered"}
QueryInv ==
  /\ IsFiniteSet(DOMAIN edges)
  /\ query = NoQuery \/ NeighborTyped(query) \/ PathAsked(query)
  /\ NeighborTyped(query) /\ query.steady /\ Narrow => NeighborFacts(query)
  /\ PathAsked(query) /\ query.steady /\ Narrow => PathFacts(query)

LEMMA NeighborIsNoPath ==
  ASSUME NEW q, NeighborTyped(q)
  PROVE  /\ DOMAIN q = {"at", "steady", "start", "depth", "level", "current", "next", "rows", "nodes", "edges"}
         /\ "end" \notin DOMAIN q /\ q # NoQuery
         /\ q.at \in {"list", "neighbor", "answered"} /\ ~PathAsked(q)
<1>1. /\ DOMAIN q = {"at", "steady", "start", "depth", "level", "current", "next", "rows", "nodes", "edges"}
      /\ q.at \in {"list", "neighbor", "answered"}
  BY DEF NeighborTyped, NeighborQuery
<1>2. NoQuery.at = "idle"
  BY DEF NoQuery
<1>3. QED
  BY <1>1, <1>2 DEF PathAsked, PathFields

LEMMA NothingAsked == NoQuery.at = "idle" /\ ~NeighborTyped(NoQuery) /\ ~PathAsked(NoQuery)
<1>1. NoQuery.at = "idle"
  BY DEF NoQuery
<1>2. QED
  BY <1>1, NeighborIsNoPath DEF PathAsked

LEMMA QueryStart == KnowledgeInit => QueryInv
BY NothingAsked, KnowledgeAssumption DEF KnowledgeInit, QueryInv

\* A write ends what the query knows.
LEMMA WritesDisturb ==
  ASSUME QueryInv, Disturbs, IsFiniteSet(DOMAIN edges')
  PROVE  QueryInv'
<1>1. CASE query = NoQuery
  <2>1. query' = NoQuery
    BY <1>1, NothingAsked DEF Disturbs
  <2>2. QED
    BY <2>1, NothingAsked DEF QueryInv, NeighborTyped, PathAsked
<1>2. CASE NeighborTyped(query)
  <2>1. query' = [query EXCEPT !.steady = FALSE]
    BY <1>2, NeighborIsNoPath DEF Disturbs
  <2>2. NeighborTyped(query') /\ query'.steady = FALSE
    BY <2>1, <1>2 DEF NeighborTyped, NeighborQuery
  <2>3. ~PathAsked(query')
    BY <2>2, NeighborIsNoPath
  <2>4. QED
    BY <2>2, <2>3 DEF QueryInv, NeighborTyped, PathAsked
<1>3. CASE PathAsked(query)
  <2>1. query' = [query EXCEPT !.steady = FALSE]
    BY <1>3 DEF Disturbs, PathAsked
  <2>2. PathAsked(query') /\ query'.steady = FALSE
    BY <2>1, <1>3 DEF PathAsked, PathFields
  <2>3. ~NeighborTyped(query')
    BY <2>2, NeighborIsNoPath
  <2>4. QED
    BY <2>2, <2>3 DEF QueryInv, NeighborTyped, PathAsked
<1>4. QED
  BY <1>1, <1>2, <1>3 DEF QueryInv

\* What a query knows depends on the edges only.
LEMMA SameGraph ==
  ASSUME edges' = edges
  PROVE  /\ Narrow' <=> Narrow
         /\ \A q : NeighborFacts(q)' <=> NeighborFacts(q)
         /\ \A q : PathFacts(q)' <=> PathFacts(q)
<1>1. Narrow' <=> Narrow
  BY DEF Narrow, Incident
<1>2. \A q : NeighborFacts(q)' <=> NeighborFacts(q)
  BY DEF NeighborFacts, Progress, RowsLeft, Answers, Below, Known, RowIsThere, Incident, Around, Ball
<1>3. /\ \A n : (Around(n) = Around(n))'
      /\ \A q, far : Tree(q, far)' <=> Tree(q, far)
  BY DEF Tree, LeadsBack, Around, Ball
<1>4. \A q, far : Searches(q, far)' <=> Searches(q, far)
  BY DEF Searches, Exhausted, Incident, Around, Ball
<1>5. \A q : PathAnswers(q)' <=> PathAnswers(q)
  BY DEF PathAnswers, Around, Ball
<1>6. \A q : PathFacts(q)' <=> PathFacts(q)
  BY <1>3, <1>4, <1>5 DEF PathFacts
<1>7. QED
  BY <1>1, <1>2, <1>6

LEMMA AsksKeep ==
  ASSUME QueryInv, NEW q, Asks(q),
         \/ q = NoQuery
         \/ PathAsked(q) /\ (q.steady /\ Narrow => PathFacts(q))
         \/ NeighborTyped(q) /\ (q.steady /\ Narrow => NeighborFacts(q))
  PROVE  QueryInv'
<1>1. query' = q /\ edges' = edges
  BY DEF Asks, tableVars
<1>2. QED
  BY <1>1, SameGraph, NothingAsked, NeighborIsNoPath DEF QueryInv, NeighborTyped, PathAsked

LEMMA NeighborsBeginsKeeps ==
  ASSUME TablesTypeOK, QueryInv, NEW ref \in References, NEW depth \in 1 .. MaxDepth,
         NeighborsBegins(ref, depth)
  PROVE  QueryInv'
<1>1. PICK n \in GetNode(ref) :
        Asks([at |-> "list", steady |-> TRUE, start |-> n, depth |-> depth, level |-> 1,
              current |-> <<n>>, next |-> <<>>, rows |-> <<>>, nodes |-> {n}, edges |-> {}])
  BY DEF NeighborsBegins
<1> DEFINE q == [at |-> "list", steady |-> TRUE, start |-> n, depth |-> depth, level |-> 1,
                 current |-> <<n>>, next |-> <<>>, rows |-> <<>>, nodes |-> {n}, edges |-> {}]
<1>2. n \in NodeIds
  BY DEF GetNode, TablesTypeOK
<1>3. depth \in Nat /\ 1 <= depth
  OBVIOUS
<1>4. NeighborTyped(q)
  <2>1. <<n>> \in Seq(NodeIds) /\ <<n>> # <<>> /\ <<>> \in Seq(NodeIds) /\ <<>> \in Seq(EdgeRow)
    BY <1>2
  <2>2. QED
    BY <2>1, <1>2, <1>3 DEF NeighborTyped, NeighborQuery
<1>5. NeighborFacts(q)
  <2>1. /\ q.at = "list" /\ q.level = 1 /\ q.depth = depth /\ q.current = <<n>> /\ q.next = <<>>
        /\ q.nodes = {n} /\ q.edges = {} /\ q.start = n
    OBVIOUS
  <2> HIDE DEF q
  <2>2. Below(q) = {n}
    BY <2>1, BallFacts DEF Below
  <2>3. In(q.current) = {n} /\ In(q.next) = {}
    BY <2>1 DEF In
  <2>4. Progress(q)
    BY <2>1, <2>2, <2>3, <1>3 DEF Progress
  <2>5. QED
    BY <2>1, <2>4 DEF NeighborFacts
<1> HIDE DEF q
<1>6. QED
  BY <1>1, <1>4, <1>5, AsksKeep DEF q

LEMMA PathBeginsKeeps ==
  ASSUME TablesTypeOK, QueryInv, NEW ref \in References, NEW end \in NodeIds, PathBegins(ref, end)
  PROVE  QueryInv'
<1>1. PICK n \in GetNode(ref) :
        Asks([at |-> "end", steady |-> TRUE, start |-> n, end |-> end, queue |-> <<n>>,
              visited |-> {n}, prev |-> <<>>, node |-> end, nodes |-> {n}, edges |-> {}])
  BY DEF PathBegins
<1> DEFINE q == [at |-> "end", steady |-> TRUE, start |-> n, end |-> end, queue |-> <<n>>,
                 visited |-> {n}, prev |-> <<>>, node |-> end, nodes |-> {n}, edges |-> {}]
<1>2. n \in NodeIds /\ DOMAIN <<>> = {}
  BY DEF GetNode, TablesTypeOK
<1>3. PathAsked(q) /\ PathFacts(q)
  BY <1>2 DEF PathAsked, PathFields, PathFacts
<1> HIDE DEF q
<1>4. QED
  BY <1>1, <1>3, AsksKeep DEF q

LEMMA PathEndKeeps ==
  ASSUME QueryInv, PathEnd
  PROVE  QueryInv'
<1>1. query.at = "end"
  BY DEF PathEnd
<1>2. PathAsked(query)
  BY <1>1, NothingAsked, NeighborIsNoPath DEF QueryInv
<1>3. PICK p : p = query
  OBVIOUS
<1> DEFINE q == [p EXCEPT !.at = IF p.start = p.end THEN "answered" ELSE "scan",
                          !.nodes = p.nodes \cup {p.end}]
<1>4. CASE Asks(NoQuery)
  BY <1>4, AsksKeep
<1>5. CASE Asks(q)
  <2> DEFINE at == IF p.start = p.end THEN "answered" ELSE "scan"
  <2>1. /\ DOMAIN q = PathFields /\ q.at = at /\ q.steady = p.steady /\ q.start = p.start /\ q.end = p.end
        /\ q.queue = p.queue /\ q.visited = p.visited /\ q.prev = p.prev /\ q.node = p.node
        /\ q.nodes = p.nodes \cup {p.end} /\ q.edges = p.edges
    BY <1>2, <1>3 DEF PathAsked, PathFields
  <2> HIDE DEF q
  <2>2. PathAsked(q)
    BY <2>1 DEF PathAsked
  <2>3. ASSUME q.steady, Narrow PROVE PathFacts(q)
    <3>1. /\ q.start \in NodeIds /\ q.end \in NodeIds /\ q.visited = {q.start} /\ q.queue = <<q.start>>
          /\ DOMAIN q.prev = {} /\ q.nodes = {q.start, q.end} /\ q.edges = {} /\ q.node = q.end
      <4>1. PathFacts(p)
        BY <2>1, <2>3, <1>2, <1>3 DEF QueryInv
      <4>2. /\ p.start \in NodeIds /\ p.end \in NodeIds /\ p.visited = {p.start}
            /\ p.queue = <<p.start>> /\ DOMAIN p.prev = {}
            /\ p.nodes = {p.start} /\ p.edges = {} /\ p.node = p.end
        BY <4>1, <1>1, <1>3 DEF PathFacts
      <4>3. QED
        BY <4>2, <2>1
    <3>2. CASE q.start = q.end
      <4>1. q.at = "answered"
        BY <3>2, <2>1
      <4>2. PathAnswers(q)
        BY <3>1, <3>2 DEF PathAnswers
      <4>3. QED
        BY <4>1, <4>2 DEF PathFacts
    <3>3. CASE q.start # q.end
      <4> DEFINE far == [x \in {q.start} |-> 0]
      <4>1. far \in [q.visited -> Nat] /\ far[q.start] = 0
        BY <3>1
      <4> HIDE DEF far
      <4>2. Tree(q, far)
        <5>1. q.start \in Ball(q.start, 0) /\ \A k \in Nat : ~(k < 0)
          BY BallFacts
        <5>2. QED
          BY <3>1, <4>1, <5>1 DEF Tree
      <4>3. /\ q.queue \in Seq(q.visited) /\ q.queue # <<>> /\ Head(q.queue) = q.start
            /\ Len(q.queue) = 1 /\ q.queue[1] = q.start /\ In(q.queue) = {q.start}
        <5>1. In(<<q.start>>) = {q.start}
          BY DEF In
        <5>2. QED
          BY <5>1, <3>1
      <4>4. Level(q, far, 0)
        BY <4>1, <4>3 DEF Level
      <4>5. Ball(q.start, 0) \subseteq q.visited
        BY <3>1, BallFacts
      <4>6. q.end \notin q.visited /\ \A m \in q.visited \ In(q.queue) : Exhausted(q, m)
        BY <3>1, <3>3, <4>3
      <4>7. Searches(q, far)
        BY <3>3, <4>1, <4>3, <4>4, <4>5, <4>6 DEF Searches
      <4>8. q.at = "scan"
        BY <3>3, <2>1
      <4>9. QED
        BY <4>2, <4>7, <4>8, <3>1 DEF PathFacts
    <3>4. QED
      BY <3>2, <3>3
  <2>4. QED
    BY <1>5, <2>2, <2>3, AsksKeep
<1>6. Asks(NoQuery) \/ Asks(q)
  BY <1>2, <1>3 DEF PathEnd, QueryFails, PathAsked, PathFields
<1>7. QED
  BY <1>4, <1>5, <1>6

\* A scan goes on, finds the end or finds that there is no path.
LEMMA ScanKeeps ==
  ASSUME TablesTypeOK, EdgesHaveTheirEnds, QueryInv, Scan
  PROVE  QueryInv'
<1>1. query.at = "scan"
  BY DEF Scan
<1>2. PathAsked(query)
  BY <1>1, NothingAsked, NeighborIsNoPath DEF QueryInv
<1>3. PICK p : p = query
  OBVIOUS
<1> DEFINE n == Head(p.queue)
           s == [p EXCEPT !.queue = Tail(p.queue)]
<1>4. PICK rows \in ListEdges(n) :
        LET t == Scanned(s, rows, n)
        IN Asks([p EXCEPT !.queue = t.queue, !.visited = t.visited, !.prev = t.prev,
                          !.at = IF p.end \in t.visited THEN "edge"
                                 ELSE IF t.queue = <<>> THEN "answered" ELSE "scan"])
  <2>1. s = [query EXCEPT !.queue = Tail(@)]
    BY <1>2, <1>3 DEF PathAsked, PathFields
  <2> HIDE DEF s
  <2>2. QED
    BY <2>1, <1>3, Zenon DEF Scan
<1>5. PICK t : t = Scanned(s, rows, n)
  OBVIOUS
<1> DEFINE at == IF p.end \in t.visited THEN "edge" ELSE IF t.queue = <<>> THEN "answered" ELSE "scan"
           q == [p EXCEPT !.queue = t.queue, !.visited = t.visited, !.prev = t.prev, !.at = at]
<1>6. Asks(q)
  BY <1>4, <1>5
<1>7. /\ DOMAIN q = PathFields /\ q.at = at /\ q.steady = p.steady /\ q.start = p.start /\ q.end = p.end
      /\ q.queue = t.queue /\ q.visited = t.visited /\ q.prev = t.prev /\ q.node = p.node
      /\ q.nodes = p.nodes /\ q.edges = p.edges
  BY <1>2, <1>3 DEF PathAsked, PathFields
<1> HIDE DEF q
<1>8. PathAsked(q)
  BY <1>7 DEF PathAsked
<1>9. ASSUME q.steady, Narrow PROVE PathFacts(q)
  <2>1. PathFacts(p)
    BY <1>2, <1>3, <1>7, <1>9 DEF QueryInv
  <2>2. p.nodes = {p.start, p.end} /\ p.edges = {} /\ p.node = p.end
    BY <2>1, <1>1, <1>3 DEF PathFacts
  <2>3. PICK far : Tree(p, far) /\ Searches(p, far)
    BY <2>1, <1>1, <1>3 DEF PathFacts
  <2>4. DOMAIN p = PathFields
    BY <1>2, <1>3 DEF PathAsked
  <2> HIDE DEF n, s, at
  <2>5. Midway(s, far, n, far[n], rows, 0) /\ n \in NodeIds /\ s.start = p.start /\ s.end = p.end
    BY <2>3, <2>4, SearchIsMidway DEF n, s
  <2>6. Cardinality(Incident(n)) <= EdgeLimit
    BY <2>5, <1>9 DEF Narrow
  <2>7. /\ rows \in Seq(EdgeRow)
        /\ \A j \in 1 .. Len(rows) : RowIsThere(rows[j]) /\ rows[j].id \in Incident(n)
        /\ \A e \in Incident(n) : \E j \in 1 .. Len(rows) : rows[j].id = e
    BY <2>5, <2>6, ListedRows DEF QueryInv
  <2>8. t.start = p.start /\ t.end = p.end /\ \E g : Midway(t, g, n, far[n], rows, Len(rows))
    BY <1>5, <2>5, <2>7, ScanLoops
  <2>9. PICK g : Midway(t, g, n, far[n], rows, Len(rows))
    BY <2>8
  <2>10. Tree(t, g) /\ Tree(q, g)
    <3>1. Tree(t, g)
      BY <2>9 DEF Midway
    <3>2. QED
      BY <3>1, <2>8, <1>7 DEF Tree, LeadsBack
  <2>11. p.start # p.end
    BY <2>3 DEF Searches
  <2>12. CASE p.end \in t.visited
    <3>1. q.at = "edge" /\ q.end \in q.visited /\ q.node = q.end /\ q.start # q.end
      BY <2>2, <2>11, <2>12, <1>7 DEF at
    <3> DEFINE L == g[q.end]
               path == [d \in L .. L |-> q.end]
    <3>2. L \in Nat
      BY <2>10, <3>1 DEF Tree
    <3> HIDE DEF L
    <3>3. /\ path \in [L .. L -> q.visited] /\ path[L] = q.end
          /\ \A d \in L .. L : d = L /\ path[d] = q.end
      BY <3>1, <3>2
    <3> HIDE DEF path
    <3>4. {q.prev[path[d]].edge : d \in (L + 1) .. L} = {}
      BY <3>2
    <3>5. {path[d] : d \in L .. L} \subseteq {q.end}
      BY <3>3
    <3>6. Found(q, g, path, L + 1)
      BY <3>1, <3>2, <3>3, <3>4, <3>5, <2>2, <1>7 DEF Found, L
    <3>7. QED
      BY <3>1, <3>6, <2>10 DEF PathFacts, L
  <2>13. CASE p.end \notin t.visited
    <3>1. Len(rows) \in Nat
      BY <2>7
    <3>2. /\ \A m \in t.visited \ In(t.queue) : Exhausted(t, m)
          /\ t.queue # <<>> => Searches(t, g)
      BY <3>1, <2>7, <2>8, <2>9, <2>11, <2>13, MidwaySearches
    <3>3. CASE t.queue = <<>>
      <4>1. q.at = "answered"
        BY <2>13, <3>3, <1>7 DEF at
      <4>2. \A m \in t.visited : Exhausted(t, m)
        BY <3>2, <3>3, InEmpty
      <4>3. t.end \notin Ball(t.start, Cardinality(NodeIds))
        BY <4>2, <2>8, <2>10, <2>13, NodesAreFinite, ExhaustedIsAll
      <4>4. PathAnswers(q)
        BY <4>3, <2>2, <2>8, <1>7 DEF PathAnswers
      <4>5. QED
        BY <4>1, <4>4 DEF PathFacts
    <3>4. CASE t.queue # <<>>
      <4>1. q.at = "scan"
        BY <2>13, <3>4, <1>7 DEF at
      <4>2. Searches(q, g)
        BY <3>2, <3>4, <2>8, <1>7 DEF Searches, Level, Exhausted
      <4>3. QED
        BY <4>1, <4>2, <2>2, <2>10, <1>7 DEF PathFacts
    <3>5. QED
      BY <3>3, <3>4
  <2>14. QED
    BY <2>12, <2>13
<1>10. QED
  BY <1>6, <1>8, <1>9, AsksKeep

LEMMA PathEdgeKeeps ==
  ASSUME QueryInv, PathEdge
  PROVE  QueryInv'
<1>1. query.at = "edge"
  BY DEF PathEdge
<1>2. PathAsked(query)
  BY <1>1, NothingAsked, NeighborIsNoPath DEF QueryInv
<1>3. PICK p : p = query
  OBVIOUS
<1> DEFINE e == p.prev[p.node].edge
           q == [p EXCEPT !.at = "node", !.edges = p.edges \cup {e}]
<1>4. Asks(NoQuery) \/ Asks(q)
  BY <1>2, <1>3 DEF PathEdge, QueryFails, PathAsked, PathFields
<1>5. /\ DOMAIN q = PathFields /\ q.at = "node" /\ q.steady = p.steady /\ q.start = p.start /\ q.end = p.end
      /\ q.queue = p.queue /\ q.visited = p.visited /\ q.prev = p.prev /\ q.node = p.node
      /\ q.nodes = p.nodes /\ q.edges = p.edges \cup {e}
  BY <1>2, <1>3 DEF PathAsked, PathFields
<1> HIDE DEF q
<1>6. PathAsked(q)
  BY <1>5 DEF PathAsked
<1>7. ASSUME q.steady, Narrow PROVE PathFacts(q)
  <2>1. PathFacts(p)
    BY <1>2, <1>3, <1>5, <1>7 DEF QueryInv
  <2>2. p.node # p.start
    BY <2>1, <1>1, <1>3 DEF PathFacts
  <2>3. PICK far, path : Tree(p, far) /\ Found(p, far, path, far[p.node] + 1)
    BY <2>1, <1>1, <1>3 DEF PathFacts
  <2>4. Tree(q, far)
    BY <2>3, <1>5 DEF Tree, LeadsBack
  <2> DEFINE low == far[p.node]
             L == far[p.end]
  <2>5. low \in Nat /\ L \in Nat /\ low <= L /\ path[low] = p.node
    BY <2>3 DEF Tree, Found
  <2>6. q.edges = {q.prev[path[d]].edge : d \in low .. L}
    <3>1. p.edges = {p.prev[path[d]].edge : d \in (low + 1) .. L}
      BY <2>3 DEF Found
    <3> HIDE DEF low, L
    <3>2. ASSUME NEW d \in low .. L PROVE d = low \/ d \in (low + 1) .. L
      BY <2>5
    <3>3. low \in low .. L /\ \A d \in (low + 1) .. L : d \in low .. L
      BY <2>5
    <3>4. QED
      BY <3>1, <3>2, <3>3, <2>5, <1>5
  <2>7. Found(q, far, path, low)
    BY <2>3, <2>6, <1>5 DEF Found
  <2>8. QED
    BY <2>2, <2>4, <2>7, <1>5 DEF PathFacts
<1>8. QED
  BY <1>4, <1>6, <1>7, AsksKeep

LEMMA PathNodeKeeps ==
  ASSUME QueryInv, PathNode
  PROVE  QueryInv'
<1>1. query.at = "node"
  BY DEF PathNode
<1>2. PathAsked(query)
  BY <1>1, NothingAsked, NeighborIsNoPath DEF QueryInv
<1>3. PICK p : p = query
  OBVIOUS
<1> DEFINE n == p.prev[p.node].node
           at == IF n = p.start THEN "answered" ELSE "edge"
           q == [p EXCEPT !.at = at, !.node = n, !.nodes = p.nodes \cup {n}]
<1>4. Asks(NoQuery) \/ Asks(q)
  BY <1>2, <1>3 DEF PathNode, QueryFails, PathAsked, PathFields
<1>5. /\ DOMAIN q = PathFields /\ q.at = at /\ q.steady = p.steady /\ q.start = p.start /\ q.end = p.end
      /\ q.queue = p.queue /\ q.visited = p.visited /\ q.prev = p.prev /\ q.node = n
      /\ q.nodes = p.nodes \cup {n} /\ q.edges = p.edges
  BY <1>2, <1>3 DEF PathAsked, PathFields
<1> HIDE DEF q
<1>6. PathAsked(q)
  BY <1>5 DEF PathAsked
<1>7. ASSUME q.steady, Narrow PROVE PathFacts(q)
  <2>1. PathFacts(p)
    BY <1>2, <1>3, <1>5, <1>7 DEF QueryInv
  <2>2. p.node # p.start
    BY <2>1, <1>1, <1>3 DEF PathFacts
  <2>3. PICK far, path : Tree(p, far) /\ Found(p, far, path, far[p.node])
    BY <2>1, <1>1, <1>3 DEF PathFacts
  <2>4. Tree(q, far)
    BY <2>3, <1>5 DEF Tree, LeadsBack
  <2> DEFINE low == far[p.node]
             L == far[p.end]
             c == far[n]
  <2>5. /\ low \in Nat /\ L \in Nat /\ low <= L /\ path \in [low .. L -> p.visited]
        /\ path[low] = p.node /\ path[L] = p.end /\ p.node \in p.visited /\ p.end \in p.visited
        /\ \A d \in low .. L : far[path[d]] = d /\ (d # low => path[d - 1] = p.prev[path[d]].node)
        /\ p.edges = {p.prev[path[d]].edge : d \in low .. L} /\ p.start # p.end
        /\ p.nodes = {p.start, p.end} \cup {path[d] : d \in low .. L}
    BY <2>3 DEF Tree, Found
  <2>6. n \in p.visited /\ low = c + 1 /\ c \in Nat
    <3>1. LeadsBack(p, far, p.node)
      BY <2>2, <2>3, <2>5 DEF Tree
    <3>2. QED
      BY <3>1, <2>3 DEF LeadsBack, Tree
  <2> DEFINE back == [d \in c .. L |-> IF d = c THEN n ELSE path[d]]
  <2> HIDE DEF low, L, c, n
  <2>7. c \in c .. L /\ L \in c .. L /\ L # c /\ \A d \in c .. L : d # c => d \in low .. L
    BY <2>5, <2>6
  <2>8. /\ back \in [c .. L -> p.visited] /\ back[c] = n /\ back[L] = p.end
        /\ \A d \in low .. L : d \in c .. L /\ back[d] = path[d]
    BY <2>5, <2>6, <2>7
  <2> HIDE DEF back
  <2>9. ASSUME NEW d \in c .. L
        PROVE  far[back[d]] = d /\ (d # c => back[d - 1] = p.prev[back[d]].node)
    <3>1. CASE d = c
      BY <3>1, <2>8 DEF c
    <3>2. CASE d # c
      <4>1. d \in low .. L /\ back[d] = path[d] /\ far[path[d]] = d
        BY <3>2, <2>5, <2>7, <2>8
      <4>2. CASE d = low
        <5>1. back[d - 1] = n /\ back[d] = p.node
          BY <4>1, <4>2, <2>5, <2>6, <2>8
        <5>2. QED
          BY <4>1, <5>1 DEF n
      <4>3. CASE d # low
        <5>1. d - 1 \in low .. L
          BY <4>1, <4>3, <2>5
        <5>2. back[d - 1] = path[d - 1]
          BY <5>1, <2>8
        <5>3. QED
          BY <4>1, <4>3, <5>2, <2>5
      <4>4. QED
        BY <4>2, <4>3
    <3>3. QED
      BY <3>1, <3>2
  <2>10. q.edges = {q.prev[back[d]].edge : d \in (c + 1) .. L}
    BY <2>5, <2>6, <2>8, <1>5
  <2>11. q.nodes = {q.start, q.end} \cup {back[d] : d \in c .. L}
    <3>1. {back[d] : d \in c .. L} = {path[d] : d \in low .. L} \cup {n}
      <4>1. ASSUME NEW d \in c .. L PROVE back[d] \in {path[i] : i \in low .. L} \cup {n}
        BY <2>7, <2>8
      <4>2. ASSUME NEW d \in low .. L PROVE path[d] \in {back[i] : i \in c .. L}
        BY <2>8
      <4>3. n \in {back[i] : i \in c .. L}
        BY <2>7, <2>8
      <4>4. QED
        BY <4>1, <4>2, <4>3
    <3>2. q.nodes = p.nodes \cup {n} /\ q.start = p.start /\ q.end = p.end
      BY <1>5 DEF n
    <3>3. QED
      BY <3>1, <3>2, <2>5
  <2>12. Found(q, far, back, c + 1)
    <3>1. far[q.node] = c /\ far[q.end] = L /\ q.node = n /\ q.visited = p.visited /\ q.prev = p.prev
          /\ q.start = p.start /\ q.end = p.end
      BY <1>5 DEF c, L, n
    <3>2. c <= L
      BY <2>5, <2>6
    <3>3. QED
      BY <3>1, <3>2, <2>5, <2>6, <2>8, <2>9, <2>10, <2>11 DEF Found
  <2>13. CASE n = p.start
    <3>1. q.at = "answered" /\ q.node = q.start
      BY <2>13, <1>5 DEF n
    <3>2. c = 0
      BY <2>3, <2>13 DEF Tree, c
    <3>3. Found(q, far, back, 1)
      BY <2>12, <3>2
    <3>4. PathAnswers(q)
      BY <3>1, <3>3, <2>4, FoundAnswers
    <3>5. QED
      BY <3>1, <3>4 DEF PathFacts
  <2>14. CASE n # p.start
    <3>1. q.at = "edge" /\ q.node # q.start /\ far[q.node] = c
      BY <2>14, <1>5 DEF n, c
    <3>2. QED
      BY <3>1, <2>4, <2>12 DEF PathFacts
  <2>15. QED
    BY <2>13, <2>14
<1>8. QED
  BY <1>4, <1>6, <1>7, AsksKeep

LEMMA PathsKeep ==
  ASSUME TablesTypeOK, EdgesHaveTheirEnds, QueryInv,
         \/ \E ref \in References : \E end \in NodeIds : PathBegins(ref, end)
         \/ PathEnd \/ Scan \/ PathEdge \/ PathNode \/ QueryEnds
  PROVE  QueryInv'
<1>1. CASE QueryEnds
  BY <1>1, AsksKeep DEF QueryEnds
<1>2. QED
  BY <1>1, PathBeginsKeeps, PathEndKeeps, ScanKeeps, PathEdgeKeeps, PathNodeKeeps

LEMMA ListNeighborsKeeps ==
  ASSUME TablesTypeOK, EdgesHaveTheirEnds, QueryInv, ListNeighbors
  PROVE  QueryInv'
<1>1. query.at = "list"
  BY DEF ListNeighbors
<1>2. NeighborTyped(query)
  BY <1>1, NothingAsked DEF QueryInv, PathAsked
<1>3. PICK rows \in ListEdges(Head(query.current)) : Asks(NextOf([query EXCEPT !.rows = rows]))
  BY DEF ListNeighbors
<1> DEFINE p == NextOf([query EXCEPT !.rows = rows])
<1>4. NeighborTyped(p) /\ p.steady = query.steady /\ (NeighborFacts(query) /\ Narrow => NeighborFacts(p))
  BY <1>1, <1>2, ListKeeps DEF QueryInv
<1> HIDE DEF p
<1>5. QED
  BY <1>2, <1>3, <1>4, AsksKeep DEF p, QueryInv

LEMMA GetNeighborKeeps ==
  ASSUME QueryInv, GetNeighbor
  PROVE  QueryInv'
<1>1. query.at = "neighbor"
  BY DEF GetNeighbor
<1>2. NeighborTyped(query)
  BY <1>1, NothingAsked DEF QueryInv, PathAsked
<1>3. Asks(NoQuery) \/ Asks(NextOf(Taken(query)))
  BY DEF GetNeighbor, QueryFails, Taken
<1>4. QED
  BY <1>1, <1>2, <1>3, GetKeeps, AsksKeep DEF QueryInv

LEMMA RowsKeepQuery ==
  ASSUME TablesTypeOK, QueryInv,
         \/ \E n \in NodeIds : DeleteNode(n) \/ CreateNode(n, FirstRow)
         \/ \E e \in EdgeIds : \/ DeleteEdge(e)
                               \/ \E source, target \in NodeIds : CreateEdge(e, source, target)
  PROVE  QueryInv'
<1>1. IsFiniteSet(DOMAIN edges)
  BY DEF QueryInv
<1>2. CASE \E n \in NodeIds : DeleteNode(n)
  <2>1. PICK n \in NodeIds : DeleteNode(n)
    BY <1>2
  <2>2. DOMAIN edges' \subseteq DOMAIN edges /\ Disturbs
    BY <2>1 DEF DeleteNode, Without, Wrote
  <2>3. QED
    BY <1>1, <2>2, FS_Subset, WritesDisturb
<1>3. CASE \E n \in NodeIds : CreateNode(n, FirstRow)
  BY <1>1, <1>3, WritesDisturb DEF CreateNode, Wrote
<1>4. CASE \E e \in EdgeIds : DeleteEdge(e)
  <2>1. PICK e \in EdgeIds : DeleteEdge(e)
    BY <1>4
  <2>2. DOMAIN edges' \subseteq DOMAIN edges /\ Disturbs
    BY <2>1 DEF DeleteEdge, Without, Wrote
  <2>3. QED
    BY <1>1, <2>2, FS_Subset, WritesDisturb
<1>5. CASE \E e \in EdgeIds : \E source, target \in NodeIds : CreateEdge(e, source, target)
  <2>1. PICK e \in EdgeIds, source \in NodeIds, target \in NodeIds : CreateEdge(e, source, target)
    BY <1>5
  <2>2. DOMAIN edges' = DOMAIN edges \cup {e} /\ Disturbs
    BY <2>1 DEF CreateEdge, With, Wrote
  <2>3. QED
    BY <1>1, <2>2, FS_AddElement, WritesDisturb
<1>6. QED
  BY <1>2, <1>3, <1>4, <1>5

LEMMA EditsKeepQuery ==
  ASSUME QueryInv, NEW c \in Editors,
         \/ \E ref \in References, input \in NodeInputs : EditNode(c, ref, input)
         \/ \E e \in EdgeIds, input \in EdgeInputs : EditEdge(c, e, input)
         \/ UpdateNode(c) \/ UpdateEdge(c)
  PROVE  QueryInv'
<1>1. ASSUME UNCHANGED <<edges, query>> PROVE QueryInv'
  BY <1>1, SameGraph DEF QueryInv, NeighborTyped, PathAsked
<1>2. IsFiniteSet(DOMAIN edges)
  BY DEF QueryInv
<1>3. ASSUME EditFails(c) PROVE UNCHANGED <<edges, query>>
  BY <1>3 DEF EditFails, tableVars
<1>4. CASE \E ref \in References, input \in NodeInputs : EditNode(c, ref, input)
  BY <1>1, <1>4 DEF EditNode, EditBegins
<1>5. CASE \E e \in EdgeIds, input \in EdgeInputs : EditEdge(c, e, input)
  BY <1>1, <1>5 DEF EditEdge, EditBegins
<1>6. CASE UpdateNode(c)
  <2>1. EditFails(c) \/ (Disturbs /\ edges' = edges)
    BY <1>6 DEF UpdateNode
  <2>2. QED
    BY <2>1, <1>1, <1>2, <1>3, WritesDisturb
<1>7. CASE UpdateEdge(c)
  <2>1. EditFails(c) \/ (Disturbs /\ DOMAIN edges' = DOMAIN edges)
    BY <1>7 DEF UpdateEdge
  <2>2. QED
    BY <2>1, <1>1, <1>2, <1>3, WritesDisturb
<1>8. QED
  BY <1>4, <1>5, <1>6, <1>7

LEMMA QueryStep ==
  ASSUME TablesTypeOK, EdgesHaveTheirEnds, QueryInv, [KnowledgeNext]_graphVars
  PROVE  QueryInv'
<1>1. CASE UNCHANGED graphVars
  BY <1>1, SameGraph DEF QueryInv, NeighborTyped, PathAsked, graphVars
<1>2. CASE \/ \E n \in NodeIds : DeleteNode(n) \/ CreateNode(n, FirstRow)
           \/ \E e \in EdgeIds : \/ DeleteEdge(e)
                                 \/ \E source, target \in NodeIds : CreateEdge(e, source, target)
  BY <1>2, RowsKeepQuery
<1>3. CASE \E c \in Editors :
             \/ \E ref \in References, input \in NodeInputs : EditNode(c, ref, input)
             \/ \E e \in EdgeIds, input \in EdgeInputs : EditEdge(c, e, input)
             \/ UpdateNode(c) \/ UpdateEdge(c)
  BY <1>3, EditsKeepQuery
<1>4. CASE \E ref \in References : \E depth \in 1 .. MaxDepth : NeighborsBegins(ref, depth)
  BY <1>4, NeighborsBeginsKeeps
<1>5. CASE \/ \E ref \in References : \E end \in NodeIds : PathBegins(ref, end)
           \/ PathEnd \/ Scan \/ PathEdge \/ PathNode \/ QueryEnds
  BY <1>5, PathsKeep
<1>6. CASE ListNeighbors \/ GetNeighbor
  BY <1>6, ListNeighborsKeeps, GetNeighborKeeps
<1>7. QED
  BY <1>1, <1>2, <1>3, <1>4, <1>5, <1>6 DEF KnowledgeNext

LEMMA QueryTells == QueryInv => TraversalsAreRight
<1> SUFFICES ASSUME QueryInv, Undisturbed
             PROVE  /\ "end" \notin DOMAIN query => Answers(query)
                    /\ "end" \in DOMAIN query => PathAnswers(query)
  BY DEF TraversalsAreRight, NeighborsAreRight, ShortestPathIsRight, Answers, PathAnswers
<1>1. query.at = "answered" /\ query.steady /\ Narrow
  BY DEF Undisturbed, Narrow
<1>2. "end" \notin DOMAIN query => NeighborTyped(query)
  BY <1>1, NothingAsked DEF QueryInv, PathAsked, PathFields
<1>3. "end" \in DOMAIN query => PathAsked(query)
  BY <1>1, NothingAsked, NeighborIsNoPath DEF QueryInv
<1>4. QED
  BY <1>1, <1>2, <1>3 DEF QueryInv, NeighborFacts, PathFacts
================================================================================
