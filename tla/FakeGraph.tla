----------------------------- MODULE FakeGraph -----------------------------
(***************************************************************************)
(* InMemoryGraphDriver beside the graph it stands in for: an emit's        *)
(* operations go to both, one by one.  The graph is what the Cypher of the *)
(* operations makes of it (GraphOperations).                               *)
(***************************************************************************)
EXTENDS GraphOperations

VARIABLES
    fakeNodes, \* _nodes: by uid alone
    fakeEdges, \* _edges: a list
    nodes,     \* the graph's nodes
    edges,     \* the graph's relationships
    todo       \* operations of the emit under way

graphs == <<fakeNodes, fakeEdges, nodes, edges, todo>>

GraphsInit ==
    /\ fakeNodes = {}
    /\ fakeEdges = <<>>
    /\ nodes = {}
    /\ edges = {}
    /\ todo = <<>>

\* GraphSink.emit, when the emit before has returned.
Emit(v) ==
    /\ todo = <<>>
    /\ todo' = Project(v)
    /\ UNCHANGED <<fakeNodes, fakeEdges, nodes, edges>>

FakeKey(op) == op.key[2]

\* Mutation: every upsert starts from the operation's own properties.
FakeUpsertFresh(old, op) ==
    [uid |-> FakeKey(op), label |-> op.key[1], tenant |-> op.tenant,
     stable |-> op.stable, fresh |-> op.fresh]

\* What upsert_node makes of the nodes it has under the key: none or one.
FakeUpsert(old, op) ==
    [uid |-> FakeKey(op), label |-> op.key[1], tenant |-> op.tenant,
     stable |-> IF old = {} THEN op.stable ELSE (CHOOSE n \in old : TRUE).stable,
     fresh |-> IF op.fresh = None /\ old # {}
               THEN (CHOOSE n \in old : TRUE).fresh ELSE op.fresh]

DoNode ==
    /\ todo # <<>> /\ Head(todo).kind = "node"
    /\ LET op == Head(todo)
           old == {n \in fakeNodes : n.uid = FakeKey(op)}
       IN  /\ fakeNodes' = (fakeNodes \ old) \union {FakeUpsert(old, op)}
           /\ nodes' = Merge(nodes, Matches(nodes, op.key), op)
    /\ todo' = Tail(todo)
    /\ UNCHANGED <<fakeEdges, edges>>

\* upsert_edge; with the nodes first, neither driver misses an end.
DoEdge ==
    /\ todo # <<>> /\ Head(todo).kind = "edge"
    /\ LET r == Head(todo).edge
       IN  /\ {r.from[2], r.to[2]} \subseteq {n.uid : n \in fakeNodes}
           /\ EndsFound(nodes, r)
           /\ fakeEdges' = Append(fakeEdges, r)
           /\ edges' = edges \union {r}
    /\ todo' = Tail(todo)
    /\ UNCHANGED <<fakeNodes, nodes>>

-----------------------------------------------------------------------------
(* Properties. *)

\* Two nodes of the graph that differ in their label alone: an alert has taken
\* the id of a device of its source.
LabelsClash ==
    \E m, n \in nodes : m.key[2] = n.key[2] /\ m.key[1] # n.key[1]

\* As long as no alert has the id of a device, the fake holds the nodes the
\* graph holds, with the properties the graph gives them: those of the first
\* observation and of the last, however many partial upserts there were; and
\* the edges the graph holds, some of them more than once.
GraphsAgree ==
    ~LabelsClash =>
        /\ {[key |-> <<n.label, n.uid>>, tenant |-> n.tenant,
             stable |-> n.stable, fresh |-> n.fresh] : n \in fakeNodes}
           = {[key |-> n.key, tenant |-> n.tenant,
               stable |-> n.stable, fresh |-> n.fresh] : n \in nodes}
        /\ {fakeEdges[k] : k \in DOMAIN fakeEdges} = edges
=============================================================================
