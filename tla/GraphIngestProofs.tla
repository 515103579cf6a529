------------------------- MODULE GraphIngestProofs -------------------------
(***************************************************************************)
(* GraphIngest keeps the contract of GraphContent, for every set of        *)
(* emitters and of envelopes.  The inductive invariant follows an emit     *)
(* through its operations: those behind it have left what they write, and  *)
(* project() puts the nodes an edge needs before the edge.                 *)
(***************************************************************************)
EXTENDS GraphIngest, FiniteSetTheorems, TLAPS

\* What the emit under way has behind it is in the graph.
EmitterInv(s) ==
    \/ s = Idle
    \/ /\ s = [pc |-> s.pc, env |-> s.env, next |-> s.next, found |-> s.found]
       /\ constrained
       /\ s.pc \in {"next", "merge"}
       /\ s.env \in Envelopes /\ s.env \in begun
       /\ s.next \in 1..(Len(Project(s.env)) + 1)
       /\ s.pc = "merge" => /\ s.next \in 1..Len(Project(s.env))
                            /\ Project(s.env)[s.next].kind = "node"
       /\ \A i \in 1..(s.next - 1) : Element(Project(s.env)[i]) \in contentBar

EmittersInv ==
    /\ emitter = [e \in Emitters |-> emitter[e]]
    /\ \A e \in Emitters : EmitterInv(emitter[e])

DoneInv == \A v \in done : v \in begun /\ Elements(v) \subseteq contentBar

\* Nodes are records, and update in place keeps key and number.
NodesInv ==
    \A n \in nodes : n = [key |-> n.key, tenant |-> n.tenant, stable |-> n.stable,
                          fresh |-> n.fresh, copy |-> n.copy]

IInv ==
    /\ begun \subseteq Envelopes
    /\ EmittersInv
    /\ DoneInv
    /\ NodesInv
    /\ UidUnique

-----------------------------------------------------------------------------
(* project(). *)

\* A sequence of three or six operations.
LEMMA ProjectLength ==
    ASSUME NEW v
    PROVE  /\ Len(Project(v)) \in {3, 6}
           /\ DOMAIN Project(v) = 1..Len(Project(v))
<1>1. CASE v.alert \in MissingAlertIds
  BY <1>1 DEF Project
<1>2. CASE v.alert \notin MissingAlertIds
  BY <1>2 DEF Project
<1> QED
  BY <1>1, <1>2

LEMMA ProjectKinds ==
    ASSUME NEW v, NEW i \in 1..Len(Project(v))
    PROVE  /\ Project(v)[i].kind \in {"node", "edge"}
           /\ Project(v)[i].kind = "node" => i \in {1, 2, 4}
           /\ Project(v)[i].kind = "edge" => i \in {3, 5, 6}
<1>1. CASE v.alert \in MissingAlertIds
  BY <1>1 DEF Project, UpsertNode, UpsertEdge
<1>2. CASE v.alert \notin MissingAlertIds
  BY <1>2 DEF Project, UpsertNode, UpsertEdge
<1> QED
  BY <1>1, <1>2

\* An edge comes after the nodes at its ends.
LEMMA EndsComeFirst ==
    ASSUME NEW v, NEW i \in 1..Len(Project(v)), Project(v)[i].kind = "edge"
    PROVE  \E j, k \in 1..(i - 1) :
             /\ Project(v)[j].kind = "node" /\ Project(v)[j].key = Project(v)[i].edge.from
             /\ Project(v)[k].kind = "node" /\ Project(v)[k].key = Project(v)[i].edge.to
<1>1. i \in {3, 5, 6}
  BY ProjectKinds
<1>2. CASE i = 3
  <2>1. /\ Project(v)[1].kind = "node" /\ Project(v)[1].key = Project(v)[3].edge.to
        /\ Project(v)[2].kind = "node" /\ Project(v)[2].key = Project(v)[3].edge.from
    BY DEF Project, UpsertNode, UpsertEdge
  <2> QED
    BY <1>2, <2>1
<1>3. CASE i \in {5, 6}
  <2>1. v.alert \notin MissingAlertIds
    BY <1>3 DEF Project
  <2>2. /\ Project(v)[1].kind = "node" /\ Project(v)[1].key = Project(v)[5].edge.to
        /\ Project(v)[4].kind = "node" /\ Project(v)[4].key = Project(v)[5].edge.from
        /\ Project(v)[4].key = Project(v)[6].edge.from
        /\ Project(v)[2].kind = "node" /\ Project(v)[2].key = Project(v)[6].edge.to
    BY <2>1 DEF Project, UpsertNode, UpsertEdge
  <2>3. CASE i = 5
    <3>1. 4 \in 1..(i - 1) /\ 1 \in 1..(i - 1)
      BY <2>3
    <3> QED
      BY <2>2, <2>3, <3>1, Zenon
  <2>4. CASE i = 6
    <3>1. 4 \in 1..(i - 1) /\ 2 \in 1..(i - 1)
      BY <2>4
    <3> QED
      BY <2>2, <2>4, <3>1, Zenon
  <2> QED
    BY <1>3, <2>3, <2>4
<1> QED
  BY <1>1, <1>2, <1>3

-----------------------------------------------------------------------------
(* MERGE under the constraint. *)

\* MERGE on every node with the key leaves one such node, changes no other, and
\* the keys there are are those there were and the operation's.
LEMMA MergeUnderConstraint ==
    ASSUME NodesInv, UidUnique, NEW op,
           nodes' = Merge(nodes, Matches(nodes, op.key), op)
    PROVE  /\ NodesInv' /\ UidUnique'
           /\ {n.key : n \in nodes'} = {n.key : n \in nodes} \union {op.key}
<1> DEFINE found == Matches(nodes, op.key)
<1>1. found \subseteq nodes
      /\ \A n \in nodes : n \in found <=> n.key = op.key
  BY DEF Matches
<1>2. CASE found = {}
  <2> DEFINE new == NewNode(op, Copies(nodes, op.key))
  <2>1. nodes' = nodes \union {new}
    BY <1>2 DEF Merge
  <2>2. /\ new.key = op.key
        /\ new = [key |-> new.key, tenant |-> new.tenant, stable |-> new.stable,
                  fresh |-> new.fresh, copy |-> new.copy]
    BY DEF NewNode
  <2> HIDE DEF new
  <2> QED
    BY <1>1, <1>2, <2>1, <2>2 DEF NodesInv, UidUnique
<1>3. CASE found # {}
  <2>1. PICK n0 \in nodes : n0 \in found
    BY <1>1, <1>3
  <2>2. found = {n0}
    BY <1>1, <2>1 DEF UidUnique
  <2> DEFINE new == Update(n0, op)
  <2>3. nodes' = (nodes \ {n0}) \union {new}
    BY <1>3, <2>2 DEF Merge
  <2>4. n0 = [key |-> n0.key, tenant |-> n0.tenant, stable |-> n0.stable,
              fresh |-> n0.fresh, copy |-> n0.copy]
    BY DEF NodesInv
  <2>5. /\ new.key = n0.key
        /\ new = [key |-> new.key, tenant |-> new.tenant, stable |-> new.stable,
                  fresh |-> new.fresh, copy |-> new.copy]
    BY <2>4 DEF Update
  <2>6. n0.key = op.key
    BY <1>1, <2>1
  <2> HIDE DEF new
  <2>7. NodesInv'
    BY <2>3, <2>5 DEF NodesInv
  <2>8. UidUnique'
    BY <1>1, <2>2, <2>3, <2>5, <2>6 DEF UidUnique
  <2> QED
    BY <2>1, <2>3, <2>5, <2>6, <2>7, <2>8
<1> QED
  BY <1>2, <1>3

-----------------------------------------------------------------------------
(* Steps. *)

\* An emitter moves, the graph only grows, and nothing else is forgotten.
LEMMA EmitterMoves ==
    ASSUME IInv, NEW e \in Emitters, NEW s, Goto(e, s),
           contentBar \subseteq contentBar',
           constrained' = constrained,
           begun \subseteq begun', begun' \subseteq Envelopes,
           done' = done, NodesInv', UidUnique',
           EmitterInv(s)'
    PROVE  IInv'
<1>1. emitter' = [f \in Emitters |-> IF f = e THEN s ELSE emitter[f]]
  BY DEF Goto, IInv, EmittersInv
<1>2. ASSUME NEW f \in Emitters PROVE EmitterInv(emitter[f])'
  <2>1. CASE f = e
    BY <2>1, <1>1 DEF EmitterInv
  <2>2. CASE f # e
    <3>1. emitter'[f] = emitter[f]
      BY <2>2, <1>1
    <3>2. EmitterInv(emitter[f])
      BY DEF IInv, EmittersInv
    <3> QED
      BY <3>1, <3>2 DEF EmitterInv
  <2> QED
    BY <2>1, <2>2
<1>3. EmittersInv'
  BY <1>1, <1>2 DEF EmittersInv
<1>4. DoneInv'
  BY DEF IInv, DoneInv
<1> QED
  BY <1>3, <1>4 DEF IInv

\* What EmitterInv says of an emitter that is not idle.
LEMMA Busy ==
    ASSUME IInv, NEW e \in Emitters, emitter[e].pc # "idle"
    PROVE  LET s == emitter[e] IN
           /\ constrained
           /\ s.pc \in {"next", "merge"}
           /\ s.env \in Envelopes /\ s.env \in begun
           /\ s.next \in 1..(Len(Project(s.env)) + 1)
           /\ s.pc = "merge" => /\ s.next \in 1..Len(Project(s.env))
                                /\ Project(s.env)[s.next].kind = "node"
           /\ \A i \in 1..(s.next - 1) : Element(Project(s.env)[i]) \in contentBar
<1>1. EmitterInv(emitter[e])
  BY DEF IInv, EmittersInv
<1>2. emitter[e] # Idle
  BY DEF Idle, At
<1> QED
  BY <1>1, <1>2 DEF EmitterInv

\* An operation is over and has left its element in the graph.
LEMMA OperationOver ==
    ASSUME IInv, NEW e \in Emitters, Advance(e),
           emitter[e].pc # "idle",
           emitter[e].next \in 1..Len(Project(emitter[e].env)),
           contentBar' = contentBar \union {Element(Op(e))},
           UNCHANGED <<constrained, begun, done>>,
           NodesInv', UidUnique'
    PROVE  IInv'
<1> DEFINE v == emitter[e].env
           n == emitter[e].next
<1> SUFFICES ASSUME NEW s, s = At("next", v, n + 1, FALSE)
             PROVE  IInv'
  OBVIOUS
<1>1. /\ constrained /\ v \in Envelopes /\ v \in begun
      /\ \A i \in 1..(n - 1) : Element(Project(v)[i]) \in contentBar
  BY Busy
<1>2. Len(Project(v)) \in Nat
  BY ProjectLength
<1>3. s.pc = "next" /\ s.env = v /\ s.next = n + 1 /\ s.found = FALSE
  BY DEF At
<1>4. n + 1 \in 1..(Len(Project(v)) + 1)
  BY <1>2
<1>5. \A i \in 1..n : Element(Project(v)[i]) \in contentBar'
  <2>1. Element(Project(v)[n]) \in contentBar'
    BY DEF Op
  <2> QED
    BY <1>1, <1>2, <2>1
<1>6. s = [pc |-> s.pc, env |-> s.env, next |-> s.next, found |-> s.found]
  BY DEF At
<1>7. n \in Nat /\ (n + 1) - 1 = n
  BY <1>2
<1> HIDE DEF n, v
<1>8. EmitterInv(s)'
  BY <1>1, <1>3, <1>4, <1>5, <1>6, <1>7 DEF EmitterInv
<1>9. Goto(e, s)
  BY DEF Advance, v, n
<1> QED
  BY <1>8, <1>9, EmitterMoves DEF IInv

LEMMA BeginKeeps ==
    ASSUME IInv, NEW e \in Emitters, NEW v \in Envelopes, Begin(e, v)
    PROVE  IInv'
<1> DEFINE s == At("next", v, 1, FALSE)
<1>1. s = [pc |-> "next", env |-> v, next |-> 1, found |-> FALSE]
  BY DEF At
<1>2. Len(Project(v)) \in Nat
  BY ProjectLength
<1>3. constrained' /\ v \in begun' /\ begun' \subseteq Envelopes
  BY DEF Begin, IInv
<1> HIDE DEF s
<1>4. EmitterInv(s)'
  BY <1>1, <1>2, <1>3 DEF EmitterInv
<1>5. NodesInv' /\ UidUnique' /\ contentBar' = contentBar
  BY DEF Begin, IInv, NodesInv, UidUnique, contentBar
<1>6. Goto(e, s)
  BY DEF Begin, s
<1> QED
  BY <1>3, <1>4, <1>5, <1>6, EmitterMoves DEF Begin

LEMMA SeekNodeKeeps ==
    ASSUME IInv, NEW e \in Emitters, SeekNode(e)
    PROVE  IInv'
<1> DEFINE v == emitter[e].env
           n == emitter[e].next
<1> SUFFICES ASSUME NEW s, s = At("merge", v, n, Matches(nodes, Op(e).key) # {})
             PROVE  IInv'
  OBVIOUS
<1>1. emitter[e].pc = "next" /\ n \in DOMAIN Project(v) /\ Project(v)[n].kind = "node"
  BY DEF SeekNode, AtOp, Op
<1>2. n \in 1..Len(Project(v)) /\ Len(Project(v)) \in Nat
  BY <1>1, ProjectLength
<1>3. /\ constrained /\ v \in Envelopes /\ v \in begun
      /\ \A i \in 1..(n - 1) : Element(Project(v)[i]) \in contentBar
  BY <1>1, Busy
<1>4. /\ NodesInv' /\ UidUnique' /\ contentBar' = contentBar
      /\ constrained' = constrained /\ begun' = begun /\ done' = done
  BY DEF SeekNode, IInv, NodesInv, UidUnique, contentBar
<1>5. /\ s = [pc |-> s.pc, env |-> s.env, next |-> s.next, found |-> s.found]
      /\ s.pc = "merge" /\ s.env = v /\ s.next = n
  BY DEF At
<1>6. n \in 1..(Len(Project(v)) + 1)
  BY <1>2
<1>7. Goto(e, s)
  BY DEF SeekNode
<1> HIDE DEF n, v
<1>8. EmitterInv(s)'
  BY <1>1, <1>2, <1>3, <1>4, <1>5, <1>6 DEF EmitterInv
<1> QED
  BY <1>4, <1>7, <1>8, EmitterMoves DEF IInv

\* A node operation adds its key to the content.
LEMMA MergeNodeEffect ==
    ASSUME IInv, NEW e \in Emitters, MergeNode(e)
    PROVE  /\ emitter[e].pc = "merge"
           /\ emitter[e].next \in 1..Len(Project(emitter[e].env))
           /\ emitter[e].env \in begun
           /\ NodesInv' /\ UidUnique'
           /\ contentBar' = contentBar \union {Element(Op(e))}
<1>1. emitter[e].pc = "merge" /\ edges' = edges
  BY DEF MergeNode
<1>2. /\ constrained
      /\ emitter[e].env \in begun
      /\ emitter[e].next \in 1..Len(Project(emitter[e].env))
      /\ Op(e).kind = "node"
  BY <1>1, Busy DEF Op
<1>3. nodes' = Merge(nodes, Matches(nodes, Op(e).key), Op(e))
  BY <1>2 DEF MergeNode
<1>4. /\ NodesInv' /\ UidUnique'
      /\ {n.key : n \in nodes'} = {n.key : n \in nodes} \union {Op(e).key}
  BY <1>3, MergeUnderConstraint DEF IInv
<1>5. Element(Op(e)) = <<"node", Op(e).key>>
  BY <1>2 DEF Element
<1>6. contentBar' = contentBar \union {Element(Op(e))}
  <2>1. {<<"node", n.key>> : n \in nodes'} = {<<"node", k>> : k \in {n.key : n \in nodes'}}
    OBVIOUS
  <2>2. {<<"node", n.key>> : n \in nodes} = {<<"node", k>> : k \in {n.key : n \in nodes}}
    OBVIOUS
  <2>3. {<<"node", n.key>> : n \in nodes'} =
            {<<"node", n.key>> : n \in nodes} \union {Element(Op(e))}
    BY <1>4, <1>5, <2>1, <2>2
  <2> QED
    BY <1>1, <2>3 DEF contentBar
<1> QED
  BY <1>1, <1>2, <1>4, <1>6

LEMMA MergeNodeKeeps ==
    ASSUME IInv, NEW e \in Emitters, MergeNode(e)
    PROVE  IInv'
BY MergeNodeEffect, OperationOver DEF MergeNode

\* The ends of an edge were written by operations the emit has behind it.
LEMMA EndsAreThere ==
    ASSUME IInv, NEW e \in Emitters, AtOp(e, "edge")
    PROVE  EndsFound(nodes, Op(e).edge)
<1> DEFINE v == emitter[e].env
           n == emitter[e].next
<1>1. /\ emitter[e].pc = "next" /\ n \in 1..Len(Project(v))
      /\ Project(v)[n].kind = "edge"
  BY ProjectLength DEF AtOp, Op
<1>2. \A i \in 1..(n - 1) : Element(Project(v)[i]) \in contentBar
  BY <1>1, Busy
<1>3. PICK j \in 1..(n - 1), k \in 1..(n - 1) :
        /\ Project(v)[j].kind = "node" /\ Project(v)[j].key = Project(v)[n].edge.from
        /\ Project(v)[k].kind = "node" /\ Project(v)[k].key = Project(v)[n].edge.to
  BY <1>1, EndsComeFirst
<1>4. ASSUME NEW key, <<"node", key>> \in contentBar PROVE Matches(nodes, key) # {}
  <2>1. <<"node", key>> \in {<<"node", m.key>> : m \in nodes}
    BY <1>4 DEF contentBar
  <2> QED
    BY <2>1 DEF Matches
<1>5. /\ <<"node", Project(v)[n].edge.from>> \in contentBar
      /\ <<"node", Project(v)[n].edge.to>> \in contentBar
  BY <1>2, <1>3 DEF Element
<1> QED
  BY <1>4, <1>5 DEF EndsFound, Op

LEMMA WriteEdgeEffect ==
    ASSUME IInv, NEW e \in Emitters, WriteEdge(e)
    PROVE  /\ emitter[e].pc = "next"
           /\ emitter[e].next \in 1..Len(Project(emitter[e].env))
           /\ emitter[e].env \in begun
           /\ NodesInv' /\ UidUnique'
           /\ contentBar' = contentBar \union {Element(Op(e))}
           /\ Advance(e)
<1> EndsFound(nodes, Op(e).edge)
  BY EndsAreThere DEF WriteEdge
<1>1. /\ emitter[e].pc = "next"
      /\ emitter[e].next \in 1..Len(Project(emitter[e].env))
      /\ Op(e).kind = "edge"
      /\ nodes' = nodes
      /\ edges' = edges \union {Op(e).edge}
      /\ Advance(e)
  BY ProjectLength DEF WriteEdge, AtOp
<1>2. emitter[e].env \in begun
  BY <1>1, Busy
<1>3. Element(Op(e)) = <<"edge", Op(e).edge>>
  BY <1>1 DEF Element
<1>4. contentBar' = contentBar \union {Element(Op(e))}
  BY <1>1, <1>3 DEF contentBar
<1>5. NodesInv' /\ UidUnique'
  BY <1>1 DEF IInv, NodesInv, UidUnique
<1> QED
  BY <1>1, <1>2, <1>4, <1>5

LEMMA WriteEdgeKeeps ==
    ASSUME IInv, NEW e \in Emitters, WriteEdge(e)
    PROVE  IInv'
BY WriteEdgeEffect, OperationOver DEF WriteEdge

LEMMA AbortKeeps ==
    ASSUME IInv, NEW e \in Emitters, Abort(e)
    PROVE  IInv'
<1>1. /\ NodesInv' /\ UidUnique' /\ contentBar' = contentBar
      /\ constrained' = constrained /\ begun' = begun /\ done' = done
      /\ Goto(e, Idle)
  BY DEF Abort, IInv, NodesInv, UidUnique, contentBar
<1>2. EmitterInv(Idle)'
  BY DEF EmitterInv
<1> QED
  BY <1>1, <1>2, EmitterMoves DEF IInv

\* emit returns when every operation is behind it.
LEMMA ReturnEffect ==
    ASSUME IInv, NEW e \in Emitters, Return(e)
    PROVE  /\ emitter[e].env \in begun
           /\ Elements(emitter[e].env) \subseteq contentBar
<1> DEFINE v == emitter[e].env
           n == emitter[e].next
<1>1. /\ v \in begun
      /\ n \in 1..(Len(Project(v)) + 1)
      /\ \A i \in 1..(n - 1) : Element(Project(v)[i]) \in contentBar
  BY Busy DEF Return
<1>2. Len(Project(v)) \in Nat /\ DOMAIN Project(v) = 1..Len(Project(v))
  BY ProjectLength
<1>3. n = Len(Project(v)) + 1
  BY <1>1, <1>2 DEF Return
<1> QED
  BY <1>1, <1>2, <1>3 DEF Elements

LEMMA ReturnKeeps ==
    ASSUME IInv, NEW e \in Emitters, Return(e)
    PROVE  IInv'
<1>1. /\ emitter' = [f \in Emitters |-> IF f = e THEN Idle ELSE emitter[f]]
      /\ done' = done \union {emitter[e].env}
      /\ UNCHANGED <<constrained, nodes, edges, begun>>
  BY DEF Return, Goto, IInv, EmittersInv
<1>2. contentBar' = contentBar
  BY <1>1 DEF contentBar
<1>3. EmittersInv'
  BY <1>1, <1>2 DEF IInv, EmittersInv, EmitterInv
<1>4. DoneInv'
  BY <1>1, <1>2, ReturnEffect DEF IInv, DoneInv
<1>5. NodesInv' /\ UidUnique'
  BY <1>1 DEF IInv, NodesInv, UidUnique
<1> QED
  BY <1>1, <1>3, <1>4, <1>5 DEF IInv

LEMMA ApplyConstraintsKeeps ==
    ASSUME IInv, ApplyConstraints
    PROVE  IInv'
<1>1. /\ constrained' = TRUE
      /\ UNCHANGED <<nodes, edges, emitter, begun, done>>
  BY DEF ApplyConstraints
<1>2. contentBar' = contentBar
  BY <1>1 DEF contentBar
<1> QED
  BY <1>1, <1>2 DEF IInv, EmittersInv, EmitterInv, DoneInv, NodesInv, UidUnique

LEMMA InitIInv == Init => IInv
BY DEF Init, IInv, EmittersInv, EmitterInv, DoneInv, NodesInv, UidUnique

LEMMA NextIInv == IInv /\ [Next]_vars => IInv'
<1> SUFFICES ASSUME IInv, [Next]_vars PROVE IInv'
  OBVIOUS
<1>1. CASE ApplyConstraints
  BY <1>1, ApplyConstraintsKeeps
<1>2. ASSUME NEW e \in Emitters, EmitterStep(e) PROVE IInv'
  BY <1>2, BeginKeeps, SeekNodeKeeps, MergeNodeKeeps, WriteEdgeKeeps,
     AbortKeeps, ReturnKeeps DEF EmitterStep
<1>3. CASE UNCHANGED vars
  <2>1. contentBar' = contentBar
    BY <1>3 DEF vars, contentBar
  <2> QED
    BY <1>3, <2>1 DEF vars, IInv, EmittersInv, EmitterInv, DoneInv, NodesInv, UidUnique
<1> QED
  BY <1>1, <1>2, <1>3 DEF Next

\* The inductive invariant holds.
THEOREM Invariance == Spec => []IInv
BY InitIInv, NextIInv, PTL DEF Spec

\* No interleaving of MERGEs leaves two nodes with the same label and uid.
THEOREM UidsUnique == Spec => []UidUnique
<1>1. IInv => UidUnique
  BY DEF IInv
<1> QED
  BY <1>1, Invariance, PTL

\* No emit raises LookupError, whatever the others do.
THEOREM EmitsFindTheirEnds == Spec => []EmitFindsItsEnds
<1>1. IInv => EmitFindsItsEnds
  BY DEF IInv, EmittersInv, EmitterInv, EmitFindsItsEnds, Idle, At
<1> QED
  BY <1>1, Invariance, PTL

\* What its first alert said of a node is never overwritten.
THEOREM StableKept == Spec => StableNeverFlips
<1> DEFINE A == \A n \in nodes : \E m \in nodes' :
                    m.key = n.key /\ m.copy = n.copy /\ m.stable = n.stable
<1>1. ASSUME [Next]_vars PROVE A
  <2>1. CASE nodes' = nodes
    BY <2>1
  <2>2. ASSUME NEW e \in Emitters, MergeNode(e) PROVE A
    <3> SUFFICES ASSUME NEW n \in nodes
                 PROVE  \E m \in nodes' :
                            m.key = n.key /\ m.copy = n.copy /\ m.stable = n.stable
      OBVIOUS
    <3>1. PICK found \in SUBSET nodes : nodes' = Merge(nodes, found, Op(e))
      BY <2>2 DEF MergeNode, Matches
    <3>2. CASE n \in found
      <4>1. Update(n, Op(e)) \in nodes'
        BY <3>1, <3>2 DEF Merge
      <4>2. /\ Update(n, Op(e)).key = n.key
            /\ Update(n, Op(e)).copy = n.copy
            /\ Update(n, Op(e)).stable = n.stable
        BY DEF Update
      <4> QED
        BY <4>1, <4>2
    <3>3. CASE n \notin found
      BY <3>1, <3>3 DEF Merge
    <3> QED
      BY <3>2, <3>3
  <2>3. ASSUME NEW e \in Emitters, EmitterStep(e), ~MergeNode(e) PROVE nodes' = nodes
    BY <2>3 DEF EmitterStep, Begin, SeekNode, WriteEdge, Abort, Return
  <2> QED
    BY <1>1, <2>1, <2>2, <2>3 DEF Next, ApplyConstraints, vars
<1> QED
  BY <1>1, PTL DEF Spec, StableNeverFlips

-----------------------------------------------------------------------------
(* Refinement. *)

LEMMA InitRefines == Init => Content!Init
BY DEF Init, Content!Init, contentBar

\* A step that only moves an emitter is a stutter; the others begin, show or
\* return.
LEMMA StepRefines ==
    ASSUME IInv, [Next]_vars
    PROVE  [Content!Next]_(Content!vars)
<1>1. ASSUME UNCHANGED <<nodes, edges, begun, done>>
      PROVE  UNCHANGED Content!vars
  BY <1>1 DEF Content!vars, contentBar
<1>2. CASE ApplyConstraints
  BY <1>1, <1>2 DEF ApplyConstraints
<1>3. ASSUME NEW e \in Emitters, EmitterStep(e)
      PROVE  [Content!Next]_(Content!vars)
  <2>1. ASSUME NEW v \in Envelopes, Begin(e, v) PROVE Content!Next
    <3>1. contentBar' = contentBar
      BY <2>1 DEF Begin, contentBar
    <3>2. Content!Begin(v)
      BY <2>1, <3>1 DEF Begin, Content!Begin
    <3> QED
      BY <3>2 DEF Content!Next
  <2>2. CASE SeekNode(e)
    BY <1>1, <2>2 DEF SeekNode
  <2>3. ASSUME emitter[e].env \in begun,
               emitter[e].next \in 1..Len(Project(emitter[e].env)),
               contentBar' = contentBar \union {Element(Op(e))},
               UNCHANGED <<begun, done>>
        PROVE  Content!Next
    <3>1. emitter[e].env \in Envelopes
      BY <2>3 DEF IInv
    <3>2. Element(Op(e)) \in Elements(emitter[e].env)
      BY <2>3, ProjectLength DEF Elements, Op
    <3>3. Content!Show(emitter[e].env)
      BY <2>3, <3>2 DEF Content!Show
    <3> QED
      BY <3>1, <3>3 DEF Content!Next
  <2>4. CASE MergeNode(e)
    BY <2>3, <2>4, MergeNodeEffect DEF MergeNode
  <2>5. CASE WriteEdge(e)
    BY <2>3, <2>5, WriteEdgeEffect DEF WriteEdge
  <2>6. CASE Abort(e)
    BY <1>1, <2>6 DEF Abort
  <2>7. CASE Return(e)
    <3>1. contentBar' = contentBar
      BY <2>7 DEF Return, contentBar
    <3>2. Content!Return(emitter[e].env)
      BY <2>7, <3>1, ReturnEffect DEF Return, Content!Return
    <3>3. emitter[e].env \in Envelopes
      BY <2>7, ReturnEffect DEF IInv
    <3> QED
      BY <3>2, <3>3 DEF Content!Next
  <2> QED
    BY <1>3, <2>1, <2>2, <2>4, <2>5, <2>6, <2>7 DEF EmitterStep
<1>4. CASE UNCHANGED vars
  BY <1>1, <1>4 DEF vars
<1> QED
  BY <1>2, <1>3, <1>4 DEF Next

\* GraphSink keeps the contract of a sink into the graph: nothing unjustified is
\* shown, nothing is forgotten, and an emit that returns has shown it all.
THEOREM Refinement == Spec => ImplementsContent
<1>1. IInv /\ [Next]_vars => [Content!Next]_(Content!vars)
  BY StepRefines
<1> QED
  BY <1>1, InitRefines, Invariance, PTL DEF Spec, ImplementsContent, Content!Spec

-----------------------------------------------------------------------------
(* Tenants.  A uid begins with the tenant that wrote it, so the nodes and the *)
(* edges of an operation are its tenant's own.                               *)

NodeOps == {op \in Ops : op.kind = "node"}
EdgeOps == {op \in Ops : op.kind = "edge"}

\* The tenant a key belongs to.
Owner(key) == Head(key[2])

NodeTyped(n) ==
    /\ n.key \in {op.key : op \in NodeOps}
    /\ n.tenant \in {v.tenant : v \in Envelopes}
    /\ n.stable \in {op.stable : op \in NodeOps}
    /\ n.fresh \in {op.fresh : op \in NodeOps}
    /\ n.copy \in Nat

\* What the nodes and the edges there are have in common with the operations
\* that wrote them.
GraphInv ==
    /\ constrained \in BOOLEAN
    /\ \A n \in nodes : NodeTyped(n) /\ n.tenant = Owner(n.key)
    /\ \A r \in edges :
          /\ r \in {op.edge : op \in EdgeOps}
          /\ Owner(r.from) = Owner(r.to)
          /\ EndsFound(nodes, r)

LEMMA UidOwner ==
    ASSUME NEW t, NEW label, NEW S, NEW id \in Seq(S)
    PROVE  Owner(<<label, uid(t, id)>>) = t
  BY DEF Owner, uid

\* Every operation of an envelope is about keys of its tenant.
LEMMA OperationsOwned ==
    ASSUME NEW v \in Envelopes, NEW i \in 1..Len(Project(v))
    PROVE  LET op == Project(v)[i] IN
           /\ op \in Ops
           /\ op.kind = "node" => op.tenant = v.tenant /\ Owner(op.key) = v.tenant
           /\ op.kind = "edge" => /\ Owner(op.edge.from) = v.tenant
                                  /\ Owner(op.edge.to) = v.tenant
<1> DEFINE t == v.tenant
           asset == node_id_for(v.source, v.device)
           finding == node_id_for(v.source, v.alert)
<1>1. Project(v)[i] \in Ops
  BY ProjectLength DEF Ops
<1>2. ASSUME NEW text \in Seq(STRING), NEW label
      PROVE  Owner(<<label, uid(t, node_id_for(v.source, text))>>) = t
  <2>1. node_id_for(v.source, text) \in Seq(STRING \union {v.source})
    BY DEF node_id_for
  <2> QED
    BY <2>1, UidOwner
<1>3. /\ Owner(<<"Tenant", uid(t, <<t>>)>>) = t
      /\ Owner(<<"Asset", uid(t, asset)>>) = t
      /\ Owner(<<"Finding", uid(t, finding)>>) = t
  <2>1. <<t>> \in Seq({t})
    OBVIOUS
  <2> QED
    BY <1>2, <2>1, UidOwner, EnvelopeAssumption
<1> HIDE DEF t, asset, finding
<1>4. CASE v.alert \in MissingAlertIds
  BY <1>1, <1>3, <1>4 DEF Project, UpsertNode, UpsertEdge, t, asset, finding
<1>5. CASE v.alert \notin MissingAlertIds
  BY <1>1, <1>3, <1>5 DEF Project, UpsertNode, UpsertEdge, t, asset, finding
<1> QED
  BY <1>4, <1>5

\* MERGE writes nodes of the operation's tenant, and takes no key away.
LEMMA MergeNodeGraph ==
    ASSUME IInv, GraphInv, NEW e \in Emitters, MergeNode(e)
    PROVE  GraphInv'
<1> DEFINE v == emitter[e].env
           op == Op(e)
<1>1. /\ emitter[e].pc = "merge" /\ edges' = edges /\ constrained' = constrained
  BY DEF MergeNode
<1>2. /\ constrained /\ v \in Envelopes
      /\ emitter[e].next \in 1..Len(Project(v))
      /\ op.kind = "node"
  BY <1>1, Busy DEF Op
<1>3. op \in NodeOps /\ op.tenant = v.tenant /\ Owner(op.key) = op.tenant
  BY <1>2, OperationsOwned DEF Op, NodeOps
<1>4. nodes' = Merge(nodes, Matches(nodes, op.key), op)
  BY <1>2 DEF MergeNode
<1> HIDE DEF v, op
<1>5. {n.key : n \in nodes'} = {n.key : n \in nodes} \union {op.key}
  BY <1>4, MergeUnderConstraint DEF IInv
<1>6. ASSUME NEW r, EndsFound(nodes, r) PROVE EndsFound(nodes', r)
  BY <1>5, <1>6 DEF EndsFound, Matches
<1>7. ASSUME NEW n \in nodes' PROVE NodeTyped(n) /\ n.tenant = Owner(n.key)
  <2>1. CASE n \in nodes
    BY <2>1 DEF GraphInv
  <2>2. CASE n = NewNode(op, Copies(nodes, op.key)) /\ Matches(nodes, op.key) = {}
    <3>1. Copies(nodes, op.key) \in Nat
      BY <2>2, FS_EmptySet DEF Copies
    <3> QED
      BY <1>2, <1>3, <2>2, <3>1 DEF NewNode, NodeTyped
  <2>3. ASSUME NEW m \in nodes, m.key = op.key, n = Update(m, op)
        PROVE  NodeTyped(n) /\ n.tenant = Owner(n.key)
    <3>1. NodeTyped(m)
      BY DEF GraphInv
    <3>2. /\ n.key = op.key /\ n.tenant = op.tenant
          /\ n.stable = m.stable /\ n.copy = m.copy
          /\ n.fresh \in {m.fresh, op.fresh}
      BY <2>3 DEF Update
    <3> QED
      BY <1>2, <1>3, <2>3, <3>1, <3>2 DEF NodeTyped
  <2> QED
    BY <1>4, <2>1, <2>2, <2>3 DEF Merge, Matches
<1> QED
  BY <1>1, <1>2, <1>6, <1>7 DEF GraphInv

\* An edge is written between two ends that are there, of one tenant.
LEMMA WriteEdgeGraph ==
    ASSUME IInv, GraphInv, NEW e \in Emitters, WriteEdge(e)
    PROVE  GraphInv'
<1> DEFINE v == emitter[e].env
           r == Op(e).edge
<1>1. /\ nodes' = nodes /\ constrained' = constrained
      /\ edges' \subseteq edges \union {r}
  BY DEF WriteEdge
<1>2. EndsFound(nodes, r)
  BY EndsAreThere DEF WriteEdge
<1>3. /\ emitter[e].pc = "next" /\ emitter[e].next \in 1..Len(Project(v))
      /\ Op(e).kind = "edge"
  BY ProjectLength DEF WriteEdge, AtOp
<1>4. v \in Envelopes
  BY <1>3, Busy
<1>5. Op(e) \in EdgeOps /\ Owner(r.from) = Owner(r.to)
  BY <1>3, <1>4, OperationsOwned DEF Op, EdgeOps
<1> HIDE DEF v, r
<1>6. r \in {op.edge : op \in EdgeOps}
  BY <1>5 DEF r
<1> QED
  BY <1>1, <1>2, <1>5, <1>6 DEF GraphInv

\* Whatever emitters do, the graph holds typed nodes under their own tenants, and
\* edges between ends that are there.
THEOREM GraphInvariance == Spec => []GraphInv
<1>1. Init => GraphInv
  BY DEF Init, GraphInv
<1>2. IInv /\ GraphInv /\ [Next]_vars => GraphInv'
  <2> SUFFICES ASSUME IInv, GraphInv, [Next]_vars
               PROVE  GraphInv'
    OBVIOUS
  <2>1. ASSUME nodes' = nodes, edges' = edges, constrained' \in BOOLEAN
        PROVE  GraphInv'
    BY <2>1 DEF GraphInv
  <2>2. ASSUME NEW e \in Emitters, EmitterStep(e)
        PROVE  GraphInv'
    <3>1. CASE MergeNode(e)
      BY <3>1, MergeNodeGraph
    <3>2. CASE WriteEdge(e)
      BY <3>2, WriteEdgeGraph
    <3>3. CASE ~MergeNode(e) /\ ~WriteEdge(e)
      BY <2>1, <2>2, <3>3 DEF EmitterStep, Begin, SeekNode, Abort, Return, GraphInv
    <3> QED
      BY <3>1, <3>2, <3>3
  <2> QED
    BY <2>1, <2>2 DEF Next, ApplyConstraints, vars, GraphInv
<1> QED
  BY <1>1, <1>2, Invariance, PTL DEF Spec

\* The graph holds what operations write, and the emitters are at operations of
\* envelopes that were begun.
THEOREM TypeCorrect == Spec => []TypeOK
<1>1. IInv /\ GraphInv => TypeOK
  <2> SUFFICES ASSUME IInv, GraphInv
               PROVE  TypeOK
    OBVIOUS
  <2>1. nodes \subseteq [key : {op.key : op \in NodeOps},
                         tenant : {v.tenant : v \in Envelopes},
                         stable : {op.stable : op \in NodeOps},
                         fresh : {op.fresh : op \in NodeOps},
                         copy : Nat]
    BY DEF IInv, NodesInv, GraphInv, NodeTyped
  <2>2. edges \subseteq {op.edge : op \in EdgeOps}
    BY DEF GraphInv
  <2>3. ASSUME NEW e \in Emitters
        PROVE  \/ emitter[e] = Idle
               \/ /\ emitter[e].pc \in {"next", "merge", "raised"}
                  /\ emitter[e].env \in Envelopes
                  /\ emitter[e].next \in 1..(Len(Project(emitter[e].env)) + 1)
    BY DEF IInv, EmittersInv, EmitterInv
  <2>4. done \subseteq begun /\ begun \subseteq Envelopes /\ constrained \in BOOLEAN
    BY DEF IInv, DoneInv, GraphInv
  <2> QED
    BY <2>1, <2>2, <2>3, <2>4 DEF TypeOK, NodeOps, EdgeOps
<1> QED
  BY <1>1, Invariance, GraphInvariance, PTL

\* Every relationship joins two nodes that are there, both of one tenant.
THEOREM TenantsApart == Spec => []EdgesStayInTenant
<1>1. GraphInv => EdgesStayInTenant
  <2> SUFFICES ASSUME GraphInv, NEW r \in edges
               PROVE  \E n, m \in nodes :
                          n.key = r.from /\ m.key = r.to /\ n.tenant = m.tenant
    BY DEF EdgesStayInTenant
  <2>1. PICK n \in nodes, m \in nodes : n.key = r.from /\ m.key = r.to
    BY DEF GraphInv, EndsFound, Matches
  <2>2. n.tenant = m.tenant
    BY <2>1 DEF GraphInv
  <2> QED
    BY <2>1, <2>2
<1> QED
  BY <1>1, GraphInvariance, PTL
=============================================================================
