------------------------------ MODULE Evidence ------------------------------
(***************************************************************************)
(* Evidence envelopes, the evidence graph and its reasoner                 *)
(* (native/evidence_envelope.c, evidence_graph.c, evidence_reasoner.c).    *)
(* The graph borrows its envelopes: the caller may verify one, again and   *)
(* with another confidence, after nodes point at it, and two nodes may     *)
(* share one.  Weights and confidences are multiples of 1 / Scale, so the  *)
(* sums of products below are in units of 1 / Scale^2.                     *)
(***************************************************************************)
EXTENDS Integers, Sequences, SequencesExt

CONSTANTS
  Envelope,     \* envelopes callers may create
  ClaimId,      \* node identifiers
  MaxNodes, MaxEdges,
  Scale,
  Floats,       \* weights and confidences callers pass, also out of range
  NoEnvelope    \* a NULL envelope of a node

EvidenceAssumption ==
  /\ MaxNodes \in Nat \ {0} /\ MaxEdges \in Nat \ {0} /\ Scale \in Nat \ {0}
  /\ Floats \subseteq Int /\ NoEnvelope \notin Envelope

VARIABLES
  envelopes,  \* those that exist: envelope -> [verified, confidence]
  nodes,      \* graph->nodes: node_id, envelope
  edges       \* graph->edges: from_node, to_node, edge_type, weight

vars == <<envelopes, nodes, edges>>

EdgeTypes == {"supports", "contradicts", "implies", "references"}

InUnit(x) == 0 <= x /\ x <= Scale

Init == envelopes = <<>> /\ nodes = <<>> /\ edges = <<>>

-----------------------------------------------------------------------------
(* Envelopes                                                               *)

Create(e) ==
  /\ e \notin DOMAIN envelopes
  /\ envelopes' = [x \in DOMAIN envelopes \cup {e} |->
                     IF x = e THEN [verified |-> FALSE, confidence |-> 0]
                     ELSE envelopes[x]]
  /\ UNCHANGED <<nodes, edges>>

\* Callers destroy an envelope only when no node borrows it
Destroy(e) ==
  /\ e \in DOMAIN envelopes /\ \A i \in DOMAIN nodes : nodes[i].envelope # e
  /\ envelopes' = [x \in DOMAIN envelopes \ {e} |-> envelopes[x]]
  /\ UNCHANGED <<nodes, edges>>

\* Mutant: the confidence is stored before its range is looked at
VerifyStoringFirst(e, confidence) ==
  /\ e \in DOMAIN envelopes
  /\ envelopes' = [envelopes EXCEPT ![e] =
       [verified |-> @.verified \/ InUnit(confidence), confidence |-> confidence]]
  /\ UNCHANGED <<nodes, edges>>

\* A confidence out of range is refused and changes nothing
Verify(e, confidence) ==
  /\ e \in DOMAIN envelopes
  /\ envelopes' = IF InUnit(confidence)
                  THEN [envelopes EXCEPT ![e] =
                          [verified |-> TRUE, confidence |-> confidence]]
                  ELSE envelopes
  /\ UNCHANGED <<nodes, edges>>

-----------------------------------------------------------------------------
(* The graph                                                               *)

\* A full graph is reported before a duplicate
AddNodeStatus(id) ==
  CASE Len(nodes) >= MaxNodes -> "error"
    [] Len(nodes) < MaxNodes /\ (\E i \in DOMAIN nodes : nodes[i].node_id = id) -> "invalid"
    [] OTHER -> "ok"

AddNode(id, e) ==
  /\ e \in DOMAIN envelopes \cup {NoEnvelope}
  /\ nodes' = IF AddNodeStatus(id) = "ok"
              THEN Append(nodes, [node_id |-> id, envelope |-> e]) ELSE nodes
  /\ UNCHANGED <<envelopes, edges>>

\* Mutant: an index one past the last node is let through
AddEdgeStatusOneMore(from, to, weight) ==
  CASE from > Len(nodes) + 1 \/ to > Len(nodes) \/ from = to \/ ~InUnit(weight) -> "invalid"
    [] Len(edges) >= MaxEdges -> "error"
    [] OTHER -> "ok"

AddEdgeStatus(from, to, weight) ==
  LET valid == from <= Len(nodes) /\ to <= Len(nodes) /\ from # to /\ InUnit(weight)
  IN  CASE ~valid -> "invalid"
        [] valid /\ Len(edges) >= MaxEdges -> "error"
        [] OTHER -> "ok"

\* Indices count from 1
AddEdge(from, to, type, weight) ==
  /\ edges' = IF AddEdgeStatus(from, to, weight) = "ok"
              THEN Append(edges, [from_node |-> from, to_node |-> to,
                                  edge_type |-> type, weight |-> weight])
              ELSE edges
  /\ UNCHANGED <<envelopes, nodes>>

Next ==
  \/ \E e \in Envelope : Create(e) \/ Destroy(e)
  \/ \E e \in Envelope, c \in Floats : Verify(e, c)
  \/ \E id \in ClaimId, e \in Envelope \cup {NoEnvelope} : AddNode(id, e)
  \/ \E from, to \in 1 .. MaxNodes + 1, type \in EdgeTypes, w \in Floats :
       AddEdge(from, to, type, w)

Spec == Init /\ [][Next]_vars

-----------------------------------------------------------------------------
(* Queries: they change nothing.                                           *)

Incoming(n, type) ==
  SelectSeq(edges, LAMBDA e : e.to_node = n /\ e.edge_type = type)

\* collect_incoming: the sources, unless they do not fit the caller's buffer
Collect(n, type, room) ==
  LET found == Incoming(n, type)
  IN  IF Len(found) > room THEN [status |-> "error", sources |-> <<>>]
      ELSE [status |-> "ok", sources |-> [i \in DOMAIN found |-> found[i].from_node]]

Confidence(n) ==
  IF nodes[n].envelope = NoEnvelope THEN 0 ELSE envelopes[nodes[n].envelope].confidence

Contribution(edge) ==
  CASE edge.edge_type = "supports" -> edge.weight * Confidence(edge.from_node)
    [] edge.edge_type = "contradicts" -> -(edge.weight * Confidence(edge.from_node))
    [] OTHER -> 0

Clamp(x) == CASE x > Scale * Scale -> Scale * Scale
              [] x < -(Scale * Scale) -> -(Scale * Scale)
              [] OTHER -> x

\* In units of 1 / Scale^2, clamped to [-1, 1] once the sums are taken
Aggregate(n) ==
  Clamp(FoldLeft(LAMBDA sum, e : IF e.to_node = n THEN sum + Contribution(e) ELSE sum,
                 0, edges))

\* Thresholds 0.6 and +- 0.2
Classify(net, supporting, contradicting) ==
  CASE supporting = 0 /\ contradicting = 0 -> "uncertain"
    [] OTHER -> CASE 10 * net >= 6 * Scale * Scale -> "supported"
                  [] 10 * net < 6 * Scale * Scale /\ 10 * net >= 2 * Scale * Scale -> "likely"
                  [] 10 * net < 2 * Scale * Scale /\ 10 * net > -2 * Scale * Scale -> "uncertain"
                  [] OTHER -> "unlikely"

EvaluateClaim(n) ==
  [net_confidence |-> Aggregate(n),
   verdict_type |-> Classify(Aggregate(n), Len(Incoming(n, "supports")),
                             Len(Incoming(n, "contradicts")))]

HasContradictionBetween(a, b) ==
  \E i \in DOMAIN edges : /\ edges[i].edge_type = "contradicts"
                          /\ {edges[i].from_node, edges[i].to_node} = {a, b}

\* stronger_claim 0 stands for SIZE_MAX, a tie
CompareClaims(a, b) ==
  LET va == EvaluateClaim(a)
      vb == EvaluateClaim(b)
  IN  [are_contradictory |->
         \/ HasContradictionBetween(a, b)
         \/ {va.verdict_type, vb.verdict_type} = {"supported", "unlikely"},
       stronger_claim |->
         CASE va.net_confidence > vb.net_confidence -> a
           [] vb.net_confidence > va.net_confidence -> b
           [] OTHER -> 0]

-----------------------------------------------------------------------------
(* Properties                                                              *)

\* The graph names each claim once, and every edge joins two claims it holds,
\* whatever calls were refused on the way (full, duplicate, out of range).
GraphSound ==
  /\ Len(nodes) <= MaxNodes /\ Len(edges) <= MaxEdges
  /\ \A i, j \in DOMAIN nodes : nodes[i].node_id = nodes[j].node_id => i = j
  /\ \A i \in DOMAIN nodes : nodes[i].envelope \in DOMAIN envelopes \cup {NoEnvelope}
  /\ \A i \in DOMAIN edges :
       /\ {edges[i].from_node, edges[i].to_node} \subseteq DOMAIN nodes
       /\ edges[i].from_node # edges[i].to_node /\ InUnit(edges[i].weight)

Unverified(n) ==
  nodes[n].envelope = NoEnvelope \/ ~envelopes[nodes[n].envelope].verified

\* "Unverified evidence cannot move the needle" (evidence_graph.c:223-229): a
\* claim whose neighbours' envelopes were all never verified is uncertain, and
\* neither its support nor a failed verification changes that.
UnverifiedMovesNothing ==
  \A n \in DOMAIN nodes :
    (\A i \in DOMAIN edges : edges[i].to_node = n => Unverified(edges[i].from_node))
      => EvaluateClaim(n) = [net_confidence |-> 0, verdict_type |-> "uncertain"]

=============================================================================
