---------------------------- MODULE GraphIngest ----------------------------
(***************************************************************************)
(* GraphSink.emit against a shared graph: every emitter projects its       *)
(* envelope and runs the operations one by one, each in a transaction of   *)
(* its own; any of them may be the last one, because the driver raised or  *)
(* the process stopped, and an envelope may be emitted any number of times. *)
(*                                                                         *)
(* The graph is external: it is modelled from the Cypher the operations    *)
(* build and from the driver the integration tests run it with.  A MERGE   *)
(* looks for its node and then writes; between the two another may create  *)
(* the node, and only the uid constraint makes the second writer see it.   *)
(***************************************************************************)
EXTENDS GraphOperations

CONSTANTS Emitters

VARIABLES
    constrained, \* the uid constraints are installed
    nodes,       \* the graph's nodes
    edges,       \* and its relationships: a MERGE makes at most one of a kind
    emitter,     \* emitter[e]: the emit under way
    begun, done  \* history: envelopes emit was called, and returned, for

vars == <<constrained, nodes, edges, emitter, begun, done>>

At(pc, env, next, found) == [pc |-> pc, env |-> env, next |-> next, found |-> found]

Idle == At("idle", None, 1, FALSE)

Init ==
    /\ constrained = FALSE
    /\ nodes = {}
    /\ edges = {}
    /\ emitter = [e \in Emitters |-> Idle]
    /\ begun = {}
    /\ done = {}

\* The operation an emit runs next.
Op(e) == Project(emitter[e].env)[emitter[e].next]

AtOp(e, kind) ==
    /\ emitter[e].pc = "next"
    /\ emitter[e].next \in DOMAIN Project(emitter[e].env)
    /\ Op(e).kind = kind

Goto(e, s) == emitter' = [emitter EXCEPT ![e] = s]

\* The operation is over: the loop takes the next one.
Advance(e) ==
    Goto(e, At("next", emitter[e].env, emitter[e].next + 1, FALSE))

-----------------------------------------------------------------------------

\* apply_constraints: a driver must do this before its first use.
ApplyConstraints ==
    /\ constrained' = TRUE
    /\ UNCHANGED <<nodes, edges, emitter, begun, done>>

\* Mutation: the sink uses a driver nobody prepared.
BeginUnprepared(e, v) ==
    /\ emitter[e].pc = "idle"
    /\ Goto(e, At("next", v, 1, FALSE))
    /\ begun' = begun \union {v}
    /\ UNCHANGED <<constrained, nodes, edges, done>>

\* emit(v) is called and projects the envelope.
Begin(e, v) ==
    /\ emitter[e].pc = "idle"
    /\ constrained
    /\ Goto(e, At("next", v, 1, FALSE))
    /\ begun' = begun \union {v}
    /\ UNCHANGED <<constrained, nodes, edges, done>>

\* upsert_node, the MATCH half of the MERGE.
SeekNode(e) ==
    /\ AtOp(e, "node")
    /\ Goto(e, At("merge", emitter[e].env, emitter[e].next,
                  Matches(nodes, Op(e).key) # {}))
    /\ UNCHANGED <<constrained, nodes, edges, begun, done>>

\* upsert_node, the other half.  Under the constraint the index entry is locked
\* and looked at again before a node is created.
MergeNode(e) ==
    /\ emitter[e].pc = "merge"
    /\ LET found == IF constrained \/ emitter[e].found
                    THEN Matches(nodes, Op(e).key) ELSE {}
       IN  nodes' = Merge(nodes, found, Op(e))
    /\ Advance(e)
    /\ UNCHANGED <<constrained, edges, begun, done>>

\* upsert_edge.  With an end missing nothing is written, count(r) is 0 and the
\* driver raises.
WriteEdge(e) ==
    /\ AtOp(e, "edge")
    /\ edges' = edges \union {r \in {Op(e).edge} : EndsFound(nodes, r)}
    /\ IF EndsFound(nodes, Op(e).edge) THEN Advance(e)
       ELSE Goto(e, [emitter[e] EXCEPT !.pc = "raised"])
    /\ UNCHANGED <<constrained, nodes, begun, done>>

\* Mutation: emit swallows what a driver raises and returns.
AbortAsReturn(e) ==
    /\ emitter[e].pc # "idle"
    /\ Goto(e, Idle)
    /\ done' = done \union {emitter[e].env}
    /\ UNCHANGED <<constrained, nodes, edges, begun>>

\* The driver raises through emit, or the process stops.
Abort(e) ==
    /\ emitter[e].pc # "idle"
    /\ Goto(e, Idle)
    /\ UNCHANGED <<constrained, nodes, edges, begun, done>>

\* Mutation: emit returns and its operations stay about.
ReturnKeepsPlace(e) ==
    /\ emitter[e].pc = "next"
    /\ emitter[e].next \notin DOMAIN Project(emitter[e].env)
    /\ done' = done \union {emitter[e].env}
    /\ Goto(e, [emitter[e] EXCEPT !.pc = "idle"])
    /\ UNCHANGED <<constrained, nodes, edges, begun>>

\* No operation is left: emit returns.
Return(e) ==
    /\ emitter[e].pc = "next"
    /\ emitter[e].next \notin DOMAIN Project(emitter[e].env)
    /\ done' = done \union {emitter[e].env}
    /\ Goto(e, Idle)
    /\ UNCHANGED <<constrained, nodes, edges, begun>>

EmitterStep(e) ==
    \/ \E v \in Envelopes : Begin(e, v)
    \/ SeekNode(e) \/ MergeNode(e)
    \/ WriteEdge(e)
    \/ Abort(e) \/ Return(e)

Next == ApplyConstraints \/ \E e \in Emitters : EmitterStep(e)

Spec == Init /\ [][Next]_vars

-----------------------------------------------------------------------------
(* Properties. *)

Ops == UNION {{Project(v)[i] : i \in DOMAIN Project(v)} : v \in Envelopes}

\* The graph holds what operations of envelopes write, and an emitter is idle
\* and clean or somewhere in the operations of an envelope that was begun.
TypeOK ==
    /\ constrained \in BOOLEAN
    /\ nodes \subseteq [key : {op.key : op \in {o \in Ops : o.kind = "node"}},
                        tenant : {v.tenant : v \in Envelopes},
                        stable : {op.stable : op \in {o \in Ops : o.kind = "node"}},
                        fresh : {op.fresh : op \in {o \in Ops : o.kind = "node"}},
                        copy : Nat]
    /\ edges \subseteq {op.edge : op \in {o \in Ops : o.kind = "edge"}}
    /\ \A e \in Emitters :
          \/ emitter[e] = Idle
          \/ /\ emitter[e].pc \in {"next", "merge", "raised"}
             /\ emitter[e].env \in Envelopes
             /\ emitter[e].next \in 1..(Len(Project(emitter[e].env)) + 1)
    /\ done \subseteq begun /\ begun \subseteq Envelopes

\* However the MERGEs of concurrent emitters interleave, no two nodes of the
\* graph have the same label and uid.
UidUnique == \A n, m \in nodes : n.key = m.key => n = m

\* No emit raises LookupError: what an edge needs is there before it, whatever
\* other emitters do and wherever earlier emits of the envelope were cut short.
EmitFindsItsEnds == \A e \in Emitters : emitter[e].pc # "raised"

\* A relationship never leaves its tenant, nor joins nodes that are not there.
EdgesStayInTenant ==
    \A r \in edges : \E n, m \in nodes :
        n.key = r.from /\ m.key = r.to /\ n.tenant = m.tenant

\* What describes a node is what its first alert said, whatever the order the
\* later ones come in.
StableNeverFlips ==
    [][\A n \in nodes : \E m \in nodes' :
          m.key = n.key /\ m.copy = n.copy /\ m.stable = n.stable]_vars

\* The contract of a sink into the graph.
contentBar == {<<"node", n.key>> : n \in nodes} \union {<<"edge", r>> : r \in edges}

Content == INSTANCE GraphContent WITH
    Justified <- Elements, content <- contentBar

ImplementsContent == Content!Spec
=============================================================================
