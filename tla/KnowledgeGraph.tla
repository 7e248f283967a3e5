----------------------------- MODULE KnowledgeGraph -----------------------------
(***************************************************************************)
(* The knowledge graph: internal/knowledge/store.go with the commands in   *)
(* cmd/kb_nodes.go and cmd/kb_edges.go.  Every query is a statement of its *)
(* own and none of the operations is a transaction: an update reads a row  *)
(* and writes all of it back, and a traversal asks for the edges of one    *)
(* node after the other while other processes change the graph.            *)
(***************************************************************************)
EXTENDS Naturals, Sequences, FiniteSets, SequencesExt

Columns == {"name", "content"}

CONSTANTS
  NodeIds,        \* numbers: ids in their order
  EdgeIds,        \* numbers that are no node ids
  ShortIds,       \* numbers for beginnings of ids that a caller may write instead
  BeginsWith,     \* pairs <<short id, node id>>
  Graphs,         \* what may be stored at the start: functions of edge ids
  Values,          \* values of the columns, numbers; 0 in an input is "not given"
  NodeInputs, EdgeInputs,   \* what updates are asked for
  Editors,        \* calls of UpdateNode and UpdateEdge
  EdgeLimit,      \* the most edges that a traversal sees of one node
  MaxDepth, MaxWrites, MaxUpdates   \* bounds

ASSUME KnowledgeAssumption ==
  /\ NodeIds \subseteq Nat \ {0} /\ IsFiniteSet(NodeIds) /\ EdgeIds \subseteq Nat \ NodeIds
  /\ ShortIds \subseteq Nat \ NodeIds /\ Values \subseteq Nat \ {0} /\ Values # {} /\ EdgeLimit \in Nat \ {0}
  /\ NodeInputs \subseteq [Columns -> Values \cup {0}]
  /\ \A input \in EdgeInputs : {input.source, input.target} \subseteq NodeIds \cup {0}
  /\ \A g \in Graphs : DOMAIN g \subseteq EdgeIds /\ IsFiniteSet(DOMAIN g)
                       /\ \A e \in DOMAIN g : g[e].source \in NodeIds /\ g[e].target \in NodeIds
  /\ MaxWrites \in Nat /\ MaxUpdates \in Nat

VARIABLES
  nodes, edges,   \* the two tables: functions of the ids that are there
  usedIds,        \* uuids are never given twice
  edit,           \* what each update has read
  lastGiven,      \* for every row, the value that was last given for each column
  overlapped,     \* rows that two updates changed at the same time
  query,          \* the traversal that is running
  writes, edits

graphVars == <<nodes, edges, usedIds, edit, lastGiven, overlapped, query, writes, edits>>
tableVars == <<nodes, edges, usedIds, lastGiven, overlapped, writes>>

NoEdit == [at |-> "idle"]
NoQuery == [at |-> "idle", steady |-> TRUE]
FirstRow == [c \in Columns |-> CHOOSE t \in Values : TRUE]

KnowledgeInit ==
  /\ nodes = [n \in NodeIds |-> FirstRow]
  /\ edges \in Graphs
  /\ usedIds = NodeIds \cup DOMAIN edges
  /\ edit = [c \in Editors |-> NoEdit]
  /\ lastGiven = [i \in usedIds |-> IF i \in NodeIds THEN FirstRow ELSE edges[i]]
  /\ overlapped = {} /\ query = NoQuery /\ writes = 0 /\ edits = 0

\* The tables change under the traversal that is running.
Disturbs == query' = IF query.at = "idle" THEN query ELSE [query EXCEPT !.steady = FALSE]
Wrote == writes < MaxWrites /\ writes' = writes + 1 /\ Disturbs

Without(rows, ids) == [i \in DOMAIN rows \ ids |-> rows[i]]
With(rows, i, row) == [j \in DOMAIN rows \cup {i} |-> IF j = i THEN row ELSE rows[j]]
Ends(edge) == {edge.source, edge.target}
Incident(n) == {e \in DOMAIN edges : n \in Ends(edges[e])}

\* GetNode: an id, or the first node whose id begins with what was written.
GetNode(ref) ==
  LET begins == {n \in DOMAIN nodes : <<ref, n>> \in BeginsWith}
  IN IF ref \in NodeIds THEN {ref} \cap DOMAIN nodes
     ELSE {n \in begins : \A m \in begins : n <= m}

-----------------------------------------------------------------------------
(* Rows.                                                                   *)

\* Mutant: edges are left behind.
DeleteNodeOnly(n) ==
  /\ n \in DOMAIN nodes /\ Wrote
  /\ nodes' = Without(nodes, {n}) /\ lastGiven' = Without(lastGiven, {n})
  /\ UNCHANGED <<edges, usedIds, edit, overlapped, edits>>

\* ON DELETE CASCADE, with foreign keys on for the one connection there is.
DeleteNode(n) ==
  /\ n \in DOMAIN nodes /\ Wrote
  /\ nodes' = Without(nodes, {n})
  /\ edges' = Without(edges, Incident(n))
  /\ lastGiven' = Without(lastGiven, {n} \cup Incident(n))
  /\ UNCHANGED <<usedIds, edit, overlapped, edits>>

CreateEdge(e, source, target) ==
  /\ e \notin usedIds /\ {source, target} \subseteq DOMAIN nodes /\ Wrote
  /\ usedIds' = usedIds \cup {e}
  /\ edges' = With(edges, e, [source |-> source, target |-> target])
  /\ lastGiven' = With(lastGiven, e, [source |-> source, target |-> target])
  /\ UNCHANGED <<nodes, edit, overlapped, edits>>

CreateNode(n, row) ==
  /\ n \notin usedIds /\ Wrote
  /\ usedIds' = usedIds \cup {n}
  /\ nodes' = With(nodes, n, row) /\ lastGiven' = With(lastGiven, n, row)
  /\ UNCHANGED <<edges, edit, overlapped, edits>>

DeleteEdge(e) ==
  /\ e \in DOMAIN edges /\ Wrote
  /\ edges' = Without(edges, {e}) /\ lastGiven' = Without(lastGiven, {e})
  /\ UNCHANGED <<nodes, usedIds, edit, overlapped, edits>>

\* An update begins by reading the row.
EditBegins(c, i, row, input) ==
  /\ edit[c] = NoEdit /\ edits < MaxUpdates /\ edits' = edits + 1
  /\ edit' = [edit EXCEPT ![c] = [at |-> "read", id |-> i, row |-> row, input |-> input]]
  /\ overlapped' = IF \E d \in Editors : edit[d] # NoEdit /\ edit[d].id = i
                   THEN overlapped \cup {i} ELSE overlapped
  /\ UNCHANGED <<nodes, edges, usedIds, lastGiven, query, writes>>

EditNode(c, ref, input) == \E n \in GetNode(ref) : EditBegins(c, n, nodes[n], input)
EditEdge(c, e, input) == e \in DOMAIN edges /\ EditBegins(c, e, edges[e], input)

\* Mutant: a column that was not given is written as it came.
CoalesceNothing(row, input) == input

\* coalesce: a column that was not given keeps the value that was read.
Coalesce(row, input) ==
  [c \in DOMAIN row |-> IF input[c] = 0 THEN row[c] ELSE input[c]]

EditFails(c) ==
  /\ edit' = [edit EXCEPT ![c] = NoEdit]
  /\ UNCHANGED <<tableVars, query, edits>>

UpdateNode(c) ==
  /\ edit[c].at = "read" /\ edit[c].id \in NodeIds
  /\ LET n == edit[c].id
     IN IF n \notin DOMAIN nodes THEN EditFails(c)
        ELSE /\ Disturbs
             /\ nodes' = [nodes EXCEPT ![n] = Coalesce(edit[c].row, edit[c].input)]
             /\ lastGiven' = [lastGiven EXCEPT ![n] =
                  [k \in Columns |-> IF edit[c].input[k] = 0 THEN @[k] ELSE edit[c].input[k]]]
             /\ edit' = [edit EXCEPT ![c] = NoEdit]
             /\ UNCHANGED <<edges, usedIds, overlapped, writes, edits>>

\* An end that is gone violates the foreign key.
UpdateEdge(c) ==
  /\ edit[c].at = "read" /\ edit[c].id \in EdgeIds
  /\ LET e == edit[c].id
         row == Coalesce(edit[c].row, edit[c].input)
     IN IF e \notin DOMAIN edges \/ ~(Ends(row) \subseteq DOMAIN nodes) THEN EditFails(c)
        ELSE /\ Disturbs
             /\ edges' = [edges EXCEPT ![e] = row]
             /\ lastGiven' = [lastGiven EXCEPT ![e] =
                  [k \in DOMAIN row |-> IF edit[c].input[k] = 0 THEN @[k] ELSE edit[c].input[k]]]
             /\ edit' = [edit EXCEPT ![c] = NoEdit]
             /\ UNCHANGED <<nodes, usedIds, overlapped, writes, edits>>

-----------------------------------------------------------------------------
(* Traversals.                                                             *)

\* The rows of a node's edges, in any order: what was changed last comes first,
\* but times are compared as text without the zeros at their end.
ListEdges(n) ==
  LET found == Incident(n)
      m == IF Cardinality(found) < EdgeLimit THEN Cardinality(found) ELSE EdgeLimit
  IN {[k \in 1..m |-> [id |-> s[k], source |-> edges[s[k]].source, target |-> edges[s[k]].target]] :
        s \in {t \in [1..m -> found] : IsInjective(t)}}

Other(edge, n) == IF edge.source = n THEN edge.target ELSE edge.source
Asks(q) == query' = q /\ UNCHANGED <<tableVars, edit, edits>>
QueryFails == Asks(NoQuery)

NeighborsBegins(ref, depth) ==
  /\ query = NoQuery
  /\ \E n \in GetNode(ref) :
       Asks([at |-> "list", steady |-> TRUE, start |-> n, depth |-> depth, level |-> 1,
             current |-> <<n>>, next |-> <<>>, rows |-> <<>>, nodes |-> {n}, edges |-> {}])

\* What comes after the last edge of a node.
NextOf(q) ==
  LET rest == Tail(q.current)
  IN IF q.rows # <<>> THEN [q EXCEPT !.at = "neighbor"]
     ELSE IF rest # <<>> THEN [q EXCEPT !.at = "list", !.current = rest]
     ELSE IF q.level < q.depth /\ q.next # <<>>
     THEN [q EXCEPT !.at = "list", !.current = q.next, !.next = <<>>, !.level = @ + 1]
     ELSE [q EXCEPT !.at = "answered"]

ListNeighbors ==
  /\ query.at = "list"
  /\ \E rows \in ListEdges(Head(query.current)) : Asks(NextOf([query EXCEPT !.rows = rows]))

\* A neighbor that was deleted since its edge was read fails the whole call.
GetNeighbor ==
  /\ query.at = "neighbor"
  /\ LET edge == Head(query.rows)
         n == Other(edge, Head(query.current))
         seen == n \in query.nodes
     IN IF ~seen /\ n \notin DOMAIN nodes THEN QueryFails
        ELSE Asks(NextOf([query EXCEPT !.rows = Tail(@), !.edges = @ \cup {edge.id},
                            !.nodes = @ \cup {n}, !.next = IF seen THEN @ ELSE Append(@, n)]))

PathBegins(ref, end) ==
  /\ query = NoQuery
  /\ \E n \in GetNode(ref) :
       Asks([at |-> "end", steady |-> TRUE, start |-> n, end |-> end, queue |-> <<n>>,
             visited |-> {n}, prev |-> <<>>, node |-> end, nodes |-> {n}, edges |-> {}])

PathEnd ==
  /\ query.at = "end"
  /\ IF query.end \notin DOMAIN nodes THEN QueryFails
     ELSE Asks([query EXCEPT !.at = IF query.start = query.end THEN "answered" ELSE "scan",
                             !.nodes = @ \cup {query.end}])

\* Mutant: the newest node is looked at first.
EnqueuedFirst(queue, n) == <<n>> \o queue
Enqueued(queue, n) == Append(queue, n)

\* The loop over the edges of a node; the end is never put in the queue.
Looked(s, edge, n) ==
  LET m == Other(edge, n)
  IN IF m \in s.visited \/ s.end \in s.visited THEN s
     ELSE [s EXCEPT !.visited = @ \cup {m},
                    !.prev = With(@, m, [node |-> n, edge |-> edge.id]),
                    !.queue = IF m = s.end THEN @ ELSE Enqueued(@, m)]
Scanned(q, rows, n) ==
  LET scan[k \in 0..Len(rows)] == IF k = 0 THEN q ELSE Looked(scan[k - 1], rows[k], n)
  IN scan[Len(rows)]

Scan ==
  /\ query.at = "scan"
  /\ \E rows \in ListEdges(Head(query.queue)) :
       LET q == Scanned([query EXCEPT !.queue = Tail(@)], rows, Head(query.queue))
       IN Asks([query EXCEPT !.queue = q.queue, !.visited = q.visited, !.prev = q.prev,
                             !.at = IF query.end \in q.visited THEN "edge"
                                    ELSE IF q.queue = <<>> THEN "answered" ELSE "scan"])

\* The way back from the end reads every edge and node of the path again.
PathEdge ==
  /\ query.at = "edge"
  /\ LET e == query.prev[query.node].edge
     IN IF e \notin DOMAIN edges THEN QueryFails
        ELSE Asks([query EXCEPT !.at = "node", !.edges = @ \cup {e}])

PathNode ==
  /\ query.at = "node"
  /\ LET n == query.prev[query.node].node
     IN IF n \notin DOMAIN nodes THEN QueryFails
        ELSE Asks([query EXCEPT !.at = IF n = query.start THEN "answered" ELSE "edge",
                                !.node = n, !.nodes = @ \cup {n}])

QueryEnds == query.at = "answered" /\ Asks(NoQuery)

References == NodeIds \cup ShortIds

KnowledgeNext ==
  \/ \E n \in NodeIds : DeleteNode(n) \/ CreateNode(n, FirstRow)
  \/ \E e \in EdgeIds :
       \/ DeleteEdge(e)
       \/ \E source, target \in NodeIds : CreateEdge(e, source, target)
  \/ \E c \in Editors :
       \/ \E ref \in References, input \in NodeInputs : EditNode(c, ref, input)
       \/ \E e \in EdgeIds, input \in EdgeInputs : EditEdge(c, e, input)
       \/ UpdateNode(c) \/ UpdateEdge(c)
  \/ \E ref \in References :
       \/ \E depth \in 1..MaxDepth : NeighborsBegins(ref, depth)
       \/ \E end \in NodeIds : PathBegins(ref, end)
  \/ ListNeighbors \/ GetNeighbor \/ PathEnd \/ Scan \/ PathEdge \/ PathNode \/ QueryEnds

KnowledgeSpec == KnowledgeInit /\ [][KnowledgeNext]_graphVars

-----------------------------------------------------------------------------
(* Properties.                                                             *)

KnowledgeTypeOK ==
  /\ DOMAIN nodes \subseteq NodeIds /\ DOMAIN edges \subseteq EdgeIds
  /\ \A n \in DOMAIN nodes : nodes[n] \in [Columns -> Values]
  /\ DOMAIN lastGiven = DOMAIN nodes \cup DOMAIN edges /\ DOMAIN lastGiven \subseteq usedIds
  /\ writes \in 0..MaxWrites /\ edits \in 0..MaxUpdates

\* Every edge leads from a node that is there to a node that is there, whatever
\* is deleted while edges are created and moved (CreateEdge, UpdateEdge, DeleteNode).
EdgesHaveTheirEnds == \A e \in DOMAIN edges : Ends(edges[e]) \subseteq DOMAIN nodes

\* A row has in each column what was last given for it, unless two updates of the
\* row ran at the same time: an update changes what it was asked to change and
\* nothing else (UpdateNode, UpdateEdge).
UpdatesStay ==
  \A i \in DOMAIN lastGiven \ overlapped :
    lastGiven[i] = IF i \in NodeIds THEN nodes[i] ELSE edges[i]

\* The nodes at most d edges away, whichever way the edges point.
Around(S) == UNION {Ends(edges[e]) : e \in {f \in DOMAIN edges : Ends(edges[f]) \cap S # {}}}
Ball(n, d) ==
  LET ball[k \in 0..d] == IF k = 0 THEN {n} ELSE ball[k - 1] \cup Around(ball[k - 1])
  IN ball[d]

\* A traversal has its answer, and nobody wrote meanwhile, and it saw all edges of each node.
Undisturbed ==
  query.at = "answered" /\ query.steady /\ \A n \in NodeIds : Cardinality(Incident(n)) <= EdgeLimit

\* Neighbors answers the nodes up to the depth and the edges that lead to them.
NeighborsAreRight ==
  Undisturbed /\ "end" \notin DOMAIN query =>
    /\ query.nodes = Ball(query.start, query.depth)
    /\ query.edges = UNION {Incident(n) : n \in Ball(query.start, query.depth - 1)}

\* ShortestPath answers edges that join the two nodes and are as few as can be, with
\* the nodes on them, or no edges if there is no path.
ShortestPathIsRight ==
  Undisturbed /\ "end" \in DOMAIN query =>
    LET last == Cardinality(NodeIds)
        used == UNION {Ends(edges[e]) : e \in query.edges}
    IN IF query.start = query.end \/ query.end \notin Ball(query.start, last)
       THEN query.edges = {} /\ query.nodes = {query.start, query.end}
       ELSE LET length == CHOOSE d \in 1..last : query.end \in Ball(query.start, d)
                                                  /\ query.end \notin Ball(query.start, d - 1)
            IN /\ Cardinality(query.edges) = length /\ query.nodes = used
               /\ \A d \in 0..length : \E n \in used : n \in Ball(query.start, d)
                                         /\ query.end \in Ball(n, length - d)

\* A traversal that nobody wrote under, of nodes with at most EdgeLimit edges,
\* answers what the graph says (Neighbors, ShortestPath).
TraversalsAreRight == NeighborsAreRight /\ ShortestPathIsRight
===============================================================================
