-------------------------- MODULE GraphOperations --------------------------
(***************************************************************************)
(* pil_graph's operations, pil_graph_writer's projection of an envelope    *)
(* onto them, and what their Cypher does to a graph.                       *)
(*                                                                         *)
(* A text is the sequence of its parts between colons.  node_id_for joins   *)
(* source and raw id with ":", so its sequences are told apart exactly as  *)
(* the strings are; uid joins tenant and id with "/", and its sequences    *)
(* are, as long as no tenant id holds a "/".                               *)
(***************************************************************************)
EXTENDS Integers, Sequences, FiniteSets

CONSTANTS
    Envelopes, \* translated alerts, records as EnvelopeAssumption says
    None       \* no value for a property

ASSUME EnvelopeAssumption ==
    \A v \in Envelopes :
        /\ {"tenant", "source", "device", "alert", "tenantName", "hostname",
            "observed", "severity"} \subseteq DOMAIN v
        /\ v.observed \in Nat
        /\ v.device \in Seq(STRING) /\ v.alert \in Seq(STRING)

\* Mutation: nodes are merged on the bare id.
uidBare(tenant, id) == id

uid(tenant, id) == <<tenant>> \o id

\* Mutation: an id that has the prefix already is left alone.
node_id_stripped(source, raw) == IF Head(raw) = source THEN raw ELSE <<source>> \o raw

node_id_for(source, raw) == <<source>> \o raw

MissingAlertIds == {<<"unknown">>}

-----------------------------------------------------------------------------
(* Operations.  stable stands for create_only_props, fresh for props.       *)

UpsertNode(tenant, label, id, stable, fresh) ==
    [kind |-> "node", tenant |-> tenant, key |-> <<label, uid(tenant, id)>>,
     stable |-> stable, fresh |-> fresh]

\* One tenant serves both endpoints.
UpsertEdge(tenant, type, fromLabel, fromId, toLabel, toId) ==
    [kind |-> "edge", tenant |-> tenant,
     edge |-> [type |-> type,
               from |-> <<fromLabel, uid(tenant, fromId)>>,
               to |-> <<toLabel, uid(tenant, toId)>>]]

\* Mutation: each edge is written as soon as one of its ends is.
ProjectEdgesEarly(v) ==
    LET t == v.tenant
        asset == node_id_for(v.source, v.device)
    IN  <<UpsertNode(t, "Asset", asset, v.hostname, v.observed),
          UpsertEdge(t, "BELONGS_TO_TENANT", "Asset", asset, "Tenant", <<t>>),
          UpsertNode(t, "Tenant", <<t>>, v.tenantName, None)>>

\* project(): nodes before the edges that need them; an alert without an
\* identity leaves no Finding.
Project(v) ==
    LET t == v.tenant
        asset == node_id_for(v.source, v.device)
        finding == node_id_for(v.source, v.alert)
        tenantNode == UpsertNode(t, "Tenant", <<t>>, v.tenantName, None)
        assetNode == UpsertNode(t, "Asset", asset, v.hostname, v.observed)
        assetEdge == UpsertEdge(t, "BELONGS_TO_TENANT", "Asset", asset, "Tenant", <<t>>)
        findingNode == UpsertNode(t, "Finding", finding, None, v.severity)
        findingEdge == UpsertEdge(t, "BELONGS_TO_TENANT", "Finding", finding, "Tenant", <<t>>)
        impactsEdge == UpsertEdge(t, "IMPACTS", "Finding", finding, "Asset", asset)
    IN  IF v.alert \in MissingAlertIds
        THEN <<tenantNode, assetNode, assetEdge>>
        ELSE <<tenantNode, assetNode, assetEdge, findingNode, findingEdge, impactsEdge>>

\* What an operation leaves in the graph.
Element(op) ==
    IF op.kind = "node" THEN <<"node", op.key>> ELSE <<"edge", op.edge>>

Elements(v) == {Element(Project(v)[i]) : i \in DOMAIN Project(v)}

-----------------------------------------------------------------------------
(* The Cypher of the operations, on a set of nodes.  Nodes that share a key *)
(* are told apart by how many such nodes were there before.                     *)

Matches(nodes, key) == {n \in nodes : n.key = key}

Copies(nodes, key) == Cardinality(Matches(nodes, key))

NewNode(op, copy) ==
    [key |-> op.key, tenant |-> op.tenant, stable |-> op.stable, fresh |-> op.fresh,
     copy |-> copy]

\* Mutation: create_only_props are set on every MERGE.
UpdateAll(n, op) ==
    [key |-> n.key, tenant |-> op.tenant, stable |-> op.stable,
     fresh |-> op.fresh, copy |-> n.copy]

\* SET n += $props, n.tenant_id = $tenant; a property with no value is not set.
Update(n, op) ==
    [key |-> n.key, tenant |-> op.tenant, stable |-> n.stable,
     fresh |-> IF op.fresh = None THEN n.fresh ELSE op.fresh, copy |-> n.copy]

\* MERGE (n:label {uid}) when the MATCH half found the nodes found.
Merge(nodes, found, op) ==
    IF found = {} THEN nodes \union {NewNode(op, Copies(nodes, op.key))}
    ELSE (nodes \ found) \union {Update(n, op) : n \in found}

\* MATCH (a), (b) finds both ends.
EndsFound(nodes, edge) ==
    Matches(nodes, edge.from) # {} /\ Matches(nodes, edge.to) # {}
=============================================================================
