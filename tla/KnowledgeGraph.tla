--------------------------- MODULE KnowledgeGraph ---------------------------
(***************************************************************************)
(* The knowledge graph of the bridge (native/niyah_graph.c): nodes with    *)
(* unique identifiers, edges in an array of the graph and, as the same     *)
(* objects, in the list of the node they leave.  Every allocation may      *)
(* fail.  An edge is known by its number in the order of creation.         *)
(***************************************************************************)
EXTENDS Naturals, Sequences, SequencesExt

CONSTANTS
  NodeId,
  FirstNodes, FirstEdges, FirstOut,  \* capacities of the first growths: 16, 16, 4
  MaxGraphEdges                      \* bound: edges created

GraphAssumption ==
  {FirstNodes, FirstEdges, FirstOut} \subseteq Nat \ {0} /\ MaxGraphEdges \in Nat

VARIABLES
  gnodes,   \* graph->nodes: identifiers
  gedges,   \* graph->edges: from, to, and a number
  out,      \* node->edges: identifier -> edges
  room,     \* node_capacity, edge_capacity, and each node's edge_capacity
  made      \* edges created so far

vars == <<gnodes, gedges, out, room, made>>

Init ==
  /\ gnodes = <<>> /\ gedges = <<>> /\ out = [id \in NodeId |-> <<>>]
  /\ room = [nodes |-> 0, edges |-> 0, out |-> [id \in NodeId |-> 0]]
  /\ made = 0

Holds(ids, id) == \E i \in DOMAIN ids : ids[i] = id

Doubled(n, first) == IF n = 0 THEN first ELSE 2 * n

\* The capacities a growth may leave: grown when it was full and memory is there
RoomFor(n, have, first) == IF n = have THEN Doubled(have, first) ELSE have

\* add_node: the states of the node array it may leave, with what it returned;
\* the array may have grown although the node could not be made
AddedNode(g, id) ==
  IF Holds(g.ids, id) THEN {[ids |-> g.ids, room |-> g.room, ok |-> TRUE]}
  ELSE LET grown == RoomFor(Len(g.ids), g.room, FirstNodes)
       IN  {[ids |-> g.ids, room |-> r, ok |-> FALSE] : r \in {g.room, grown}}
           \cup {[ids |-> Append(g.ids, id), room |-> grown, ok |-> TRUE]}

GraphNodes == [ids |-> gnodes, room |-> room.nodes]

AddNode(id) ==
  \E g \in AddedNode(GraphNodes, id) :
    /\ gnodes' = g.ids /\ room' = [room EXCEPT !.nodes = g.room]
    /\ UNCHANGED <<gedges, out, made>>

\* add_edge makes its nodes first.  The second is asked for although the first
\* failed, and both stay when the edge cannot be made.
WithNodes(from, to) ==
  UNION {{<<f, t>> : t \in AddedNode(f, to)} : f \in AddedNode(GraphNodes, from)}

EdgeRoom == RoomFor(Len(gedges), room.edges, FirstEdges)
OutRoom(id) == RoomFor(Len(out[id]), room.out[id], FirstOut)

\* A failed node, a failed growth of the edge array, a failed edge, or a failed
\* growth of the node's list
AddEdgeFails(from, to) ==
  \E p \in WithNodes(from, to) :
    /\ gnodes' = p[2].ids
    /\ \E edgeRoom \in IF p[1].ok /\ p[2].ok THEN {room.edges, EdgeRoom} ELSE {room.edges} :
         room' = [room EXCEPT !.nodes = p[2].room, !.edges = edgeRoom]
    /\ UNCHANGED <<gedges, out, made>>

\* Mutant: the edge is hung on its node before the graph has room for it
AddEdgeListedFirst(from, to) ==
  \E p \in WithNodes(from, to), stored \in BOOLEAN :
    LET edge == [number |-> made + 1, from |-> from, to |-> to]
    IN  /\ p[1].ok /\ p[2].ok /\ made < MaxGraphEdges
        /\ made' = made + 1 /\ gnodes' = p[2].ids
        /\ room' = [nodes |-> p[2].room, edges |-> EdgeRoom,
                    out |-> [room.out EXCEPT ![from] = OutRoom(from)]]
        /\ out' = [out EXCEPT ![from] = Append(@, edge)]
        /\ gedges' = IF stored THEN Append(gedges, edge) ELSE gedges

AddEdge(from, to) ==
  \E p \in WithNodes(from, to) :
    LET edge == [number |-> made + 1, from |-> from, to |-> to]
    IN  /\ p[1].ok /\ p[2].ok /\ made < MaxGraphEdges
        /\ made' = made + 1 /\ gnodes' = p[2].ids
        /\ room' = [nodes |-> p[2].room, edges |-> EdgeRoom,
                    out |-> [room.out EXCEPT ![from] = OutRoom(from)]]
        /\ out' = [out EXCEPT ![from] = Append(@, edge)]
        /\ gedges' = Append(gedges, edge)

Next ==
  \/ \E id \in NodeId : AddNode(id)
  \/ \E from, to \in NodeId : AddEdgeFails(from, to) \/ AddEdge(from, to)

Spec == Init /\ [][Next]_vars

\* neighbors: the nodes that up to max_out edges of a node lead to
Neighbors(id, max_out) ==
  IF ~Holds(gnodes, id) THEN <<>>
  ELSE LET n == IF Len(out[id]) < max_out THEN Len(out[id]) ELSE max_out
       IN  [i \in 1 .. n |-> out[id][i].to]

-----------------------------------------------------------------------------
(* Properties                                                              *)

\* The edges of the graph that leave a node, in the order they were made
Leaving(id) ==
  FoldLeft(LAMBDA list, e : IF e.from = id THEN Append(list, e) ELSE list, <<>>, gedges)

\* Whichever allocation fails, an edge hangs on the node it leaves exactly when
\* the graph owns it, so destroy frees each once and neighbors sees them all;
\* no identifier has two nodes, and no array is fuller than its capacity.
EdgesListedOnce ==
  /\ \A id \in NodeId : out[id] = Leaving(id)
  /\ \A i, j \in DOMAIN gnodes : gnodes[i] = gnodes[j] => i = j
  /\ \A i \in DOMAIN gedges : Holds(gnodes, gedges[i].from) /\ Holds(gnodes, gedges[i].to)
  /\ \A id \in NodeId : \A i \in DOMAIN Neighbors(id, Len(gedges)) :
       Holds(gnodes, Neighbors(id, Len(gedges))[i])
  /\ Len(gnodes) <= room.nodes /\ Len(gedges) <= room.edges
  /\ \A id \in NodeId : Len(out[id]) <= room.out[id]

=============================================================================
