------------------------- MODULE AlertIntakeProofs -------------------------
(***************************************************************************)
(* From a payload to the graph, for any productions, any orders of reading *)
(* and any number of them.  The first part is of the messages, the second  *)
(* of the driver beside the graph, the third joins them: what a Finding's  *)
(* key says of the payload it came from.                                   *)
(***************************************************************************)
EXTENDS AlertIntake, SequenceTheorems, TLAPS

-----------------------------------------------------------------------------
(* Messages. *)

\* A version that was parsed is written so that it parses to itself.
LEMMA VersionsRoundTrip ==
    ASSUME NEW text
    PROVE  parse(VersionText(parse(text))) = parse(text)
<1> DEFINE minor == IF text[2] = {} THEN 0 ELSE CHOOSE n \in text[2] : TRUE
           major == CHOOSE n \in text[1] : TRUE
<1>1. CASE text[1] = {} \/ minor < 0 \/ \E n \in text[1] : n < 0
  <2>1. parse(text) = <<-1, -1>>
    BY <1>1 DEF parse, UNKNOWN_VERSION
  <2>2. parse(<<{-1}, {-1}>>) = <<-1, -1>>
    BY DEF parse, UNKNOWN_VERSION
  <2> QED
    BY <2>1, <2>2 DEF VersionText
<1>2. CASE ~(text[1] = {} \/ minor < 0 \/ \E n \in text[1] : n < 0)
  <2>1. parse(text) = <<major, minor>>
    BY <1>2 DEF parse
  <2>2. ~(major < 0) /\ ~(minor < 0)
    BY <1>2
  <2> HIDE DEF major, minor
  <2>3. parse(<<{major}, {minor}>>) = <<major, minor>>
    BY <2>2 DEF parse
  <2> QED
    BY <2>1, <2>3 DEF VersionText
<1> QED
  BY <1>1, <1>2

\* m is what some build wrote of some payload that a translator took.
Produced(m) ==
    \E p \in Productions : \E now :
        /\ p[2] \in TRANSLATOR_TYPES /\ ~Raises(p[2], Carried(p[2], p[3]))
        /\ m = Written(translate(p[1], p[2], p[3], now), p[4])

\* m, and all that read it, say as much of the version and the fields as r does.
Tells(m, r) ==
    /\ m.fields.observed = r.fields.observed
    /\ parse(r.version) = parse(m.version)
    /\ \A f \in DOMAIN m.fields \intersect Known : r.fields[f] = m.fields[f]

MessagesInv ==
    /\ \A m \in sent : Produced(m)
    /\ \A r \in relayed :
          /\ Readable(r) /\ DOMAIN r.fields = Known
          /\ \E m \in sent : Tells(m, r)

\* What a message that this major version produced has.
LEMMA CompatibleIsReadable ==
    ASSUME NEW m, Produced(m), Judgement(m.version).compatible
    PROVE  Readable(m)
<1>1. PICK p \in Productions : \E now : m = Written(translate(p[1], p[2], p[3], now), p[4])
  BY DEF Produced
<1>2. PICK now : m = Written(translate(p[1], p[2], p[3], now), p[4])
  BY <1>1
<1> DEFINE v == translate(p[1], p[2], p[3], now)
<1>3. m.version = p[4].version /\ m.kind = p[4].kind
      /\ m.fields = [f \in ((DOMAIN v) \ p[4].drops) \union p[4].adds |->
                        IF f \in DOMAIN v THEN v[f] ELSE <<"more">>]
  BY <1>2 DEF Written, Message
<1>4. p[4].kind = "alert" /\ p[4].drops = {}
  BY <1>3, BuildAssumption DEF Judgement
<1>5. Required \subseteq DOMAIN v /\ v["tenant"] = p[1] /\ p[1] # ""
  BY PayloadAssumption DEF translate, Required
<1> HIDE DEF v
<1> QED
  BY <1>3, <1>4, <1>5 DEF Readable, Required

\* A message passed on is readable, and tells what the one before it told.
LEMMA RelayTells ==
    ASSUME NEW m, Readable(m)
    PROVE  LET r == to_dict(from_dict(m)) IN
           /\ Readable(r) /\ DOMAIN r.fields = Known
           /\ Tells(m, r)
           /\ \A o : DOMAIN m.fields = Known /\ Tells(o, m) => Tells(o, r)
<1> DEFINE r == to_dict(from_dict(m))
<1>1. /\ r.version = VersionText(parse(m.version)) /\ r.kind = "alert"
      /\ r.fields = [f \in Known |-> IF f \in DOMAIN m.fields THEN m.fields[f] ELSE Default[f]]
  BY DEF to_dict, from_dict, Message
<1>2. parse(r.version) = parse(m.version)
  BY <1>1, VersionsRoundTrip
<1>3. Required \subseteq Known /\ Required \subseteq DOMAIN m.fields /\ m.fields["tenant"] # ""
  BY DEF Known, Readable
<1>4. "tenant" \in Required /\ "observed" \in Required
  BY DEF Required
<1> HIDE DEF r
<1>5. DOMAIN r.fields = Known
      /\ \A f \in DOMAIN m.fields \intersect Known : r.fields[f] = m.fields[f]
  BY <1>1
<1>6. Readable(r)
  BY <1>1, <1>3, <1>4, <1>5 DEF Readable
<1>7. Tells(m, r)
  BY <1>2, <1>3, <1>4, <1>5 DEF Tells
<1>8. ASSUME NEW o, DOMAIN m.fields = Known, Tells(o, m) PROVE Tells(o, r)
  BY <1>2, <1>3, <1>4, <1>5, <1>8 DEF Tells
<1> QED
  BY <1>5, <1>6, <1>7, <1>8 DEF r

\* Producing writes a readable message and relaying keeps what was read; nothing
\* else touches messages.
LEMMA MessagesStep == MessagesInv /\ [Next]_vars => MessagesInv'
<1> SUFFICES ASSUME MessagesInv, [Next]_vars PROVE MessagesInv'
  OBVIOUS
<1>1. ASSUME NEW p \in Productions, Produce(p) PROVE MessagesInv'
  <2> DEFINE now == Cardinality(sent) + 1
             new == Written(translate(p[1], p[2], p[3], now), p[4])
  <2>1. sent' = sent \union {new} /\ relayed' = relayed
    BY <1>1 DEF Produce
  <2>2. p[2] \in TRANSLATOR_TYPES /\ ~Raises(p[2], Carried(p[2], p[3]))
    BY <1>1 DEF Produce
  <2> HIDE DEF now
  <2>3. Produced(new)
    BY <2>2 DEF Produced
  <2> HIDE DEF new
  <2> QED
    BY <2>1, <2>3 DEF MessagesInv
<1>2. ASSUME NEW m \in sent \union relayed, Relay(m) PROVE MessagesInv'
  <2> DEFINE r == to_dict(from_dict(m))
  <2>1. Readable(m) /\ sent' = sent /\ relayed' = relayed \union {r}
    BY <1>2 DEF Relay
  <2>2. /\ Readable(r) /\ DOMAIN r.fields = Known
        /\ Tells(m, r)
        /\ \A o : DOMAIN m.fields = Known /\ Tells(o, m) => Tells(o, r)
    BY <2>1, RelayTells
  <2> HIDE DEF r
  <2>3. \E o \in sent : Tells(o, r)
    BY <2>2 DEF MessagesInv
  <2> QED
    BY <2>1, <2>2, <2>3 DEF MessagesInv
<1>3. ASSUME UNCHANGED <<sent, relayed>> PROVE MessagesInv'
  BY <1>3 DEF MessagesInv
<1> QED
  BY <1>1, <1>2, <1>3 DEF Next, Consume, vars

\* What was produced, and what passing on leaves of it.
LEMMA Messaging == Spec => []MessagesInv
<1>1. Init => MessagesInv
  BY DEF Init, MessagesInv
<1> QED
  BY <1>1, MessagesStep, PTL DEF Spec

\* Whatever builds there are and however often a message was passed on, it is
\* read as it was produced, and its version is the one that produced it.
THEOREM MessagesSurvive == Spec => []ReadAsProduced
<1>1. MessagesInv => ReadAsProduced
  <2> SUFFICES ASSUME MessagesInv PROVE ReadAsProduced
    OBVIOUS
  <2>1. \A m \in sent : Judgement(m.version).compatible => Readable(m)
    BY CompatibleIsReadable DEF MessagesInv
  <2>2. ASSUME NEW r \in relayed
        PROVE  \E m \in sent :
                  /\ m.fields.observed = r.fields.observed
                  /\ Readable(r)
                  /\ Judgement(r.version) = Judgement(m.version)
                  /\ \A f \in DOMAIN m.fields \intersect Known : r.fields[f] = m.fields[f]
    <3>1. PICK m \in sent : Readable(r) /\ Tells(m, r)
      BY DEF MessagesInv
    <3>2. Judgement(r.version) = Judgement(m.version)
      BY <3>1 DEF Tells, Judgement
    <3> QED
      BY <3>1, <3>2 DEF Tells
  <2> QED
    BY <2>1, <2>2 DEF ReadAsProduced
<1> QED
  BY <1>1, Messaging, PTL

-----------------------------------------------------------------------------
(* The driver and the graph. *)

\* The envelopes read into the sinks, and what their emits have had to do.
Emitted == {envelopes[k] : k \in DOMAIN envelopes}

Operations(v) == {Project(v)[j] : j \in DOMAIN Project(v)}

Planned == UNION {Operations(v) : v \in Emitted}

\* A node with the key is in the graph.
There(key) == \E n \in nodes : n.key = key

\* What is left to do was planned, and an edge is after the nodes it needs.
TodoInv ==
    /\ envelopes \in Seq(Emitted) /\ todo \in Seq(Planned)
    /\ \A i \in DOMAIN todo : todo[i].kind = "edge" =>
          \A key \in {todo[i].edge.from, todo[i].edge.to} :
             \/ There(key)
             \/ \E j \in 1..(i - 1) : todo[j].kind = "node" /\ todo[j].key = key

\* One node per key, and per uid.
OneNodeEach ==
    /\ \A m, n \in nodes : m.key = n.key => m = n
    /\ \A n \in nodes : n.key = <<n.key[1], n.key[2]>>
    /\ \A f, g \in fakeNodes : f.uid = g.uid => f = g

Same(f, n) ==
    /\ n.key = <<f.label, f.uid>>
    /\ n.tenant = f.tenant /\ n.stable = f.stable /\ n.fresh = f.fresh

\* The driver has a node where the graph has one, the same as long as no labels
\* clash, and the graph's edges.
DriverInv ==
    /\ \A n \in nodes : \E f \in fakeNodes : f.uid = n.key[2]
    /\ ~LabelsClash =>
          /\ \A f \in fakeNodes : \E n \in nodes : Same(f, n)
          /\ \A n \in nodes : \E f \in fakeNodes : Same(f, n)
    /\ fakeEdges \in Seq(edges)
    /\ \A r \in edges : \E k \in DOMAIN fakeEdges : fakeEdges[k] = r

\* A Finding is that of an envelope that names an alert.
FindingsInv ==
    \A n \in nodes : n.key[1] = "Finding" =>
        \E v \in Emitted :
           v.alert \notin MissingAlertIds /\ n.key = <<"Finding", Finding(v)>>

GraphsInv == TodoInv /\ OneNodeEach /\ DriverInv /\ FindingsInv

\* project()'s operations are a sequence.
LEMMA ProjectSequence == ASSUME NEW v PROVE Project(v) \in Seq(Operations(v))
<1>1. CASE v.alert \in MissingAlertIds
  BY <1>1 DEF Project, Operations
<1>2. CASE v.alert \notin MissingAlertIds
  BY <1>2 DEF Project, Operations
<1> QED
  BY <1>1, <1>2

\* What they are, and that an edge is after the nodes at its ends.
LEMMA ProjectIs ==
    ASSUME NEW v
    PROVE  \A i \in DOMAIN Project(v) :
              LET o == Project(v)[i] IN
              /\ o.kind \in {"node", "edge"}
              /\ o.kind = "node" =>
                    /\ o.key = <<o.key[1], o.key[2]>>
                    /\ o.key[1] = "Finding" =>
                          v.alert \notin MissingAlertIds /\ o.key = <<"Finding", Finding(v)>>
              /\ o.kind = "edge" =>
                    \A key \in {o.edge.from, o.edge.to} :
                       \E j \in 1..(i - 1) :
                          Project(v)[j].kind = "node" /\ Project(v)[j].key = key
<1> DEFINE t == v.tenant
           asset == node_id_for(v.source, v.device)
           finding == node_id_for(v.source, v.alert)
           o1 == UpsertNode(t, "Tenant", <<t>>, v.tenantName, None)
           o2 == UpsertNode(t, "Asset", asset, v.hostname, v.observed)
           o3 == UpsertEdge(t, "BELONGS_TO_TENANT", "Asset", asset, "Tenant", <<t>>)
           o4 == UpsertNode(t, "Finding", finding, None, v.severity)
           o5 == UpsertEdge(t, "BELONGS_TO_TENANT", "Finding", finding, "Tenant", <<t>>)
           o6 == UpsertEdge(t, "IMPACTS", "Finding", finding, "Asset", asset)
<1>1. Project(v) = IF v.alert \in MissingAlertIds THEN <<o1, o2, o3>>
                   ELSE <<o1, o2, o3, o4, o5, o6>>
  BY DEF Project
<1>2. /\ o1.kind = "node" /\ o1.key = <<"Tenant", uid(t, <<t>>)>>
      /\ o2.kind = "node" /\ o2.key = <<"Asset", uid(t, asset)>>
      /\ o3.kind = "edge" /\ o3.edge.from = o2.key /\ o3.edge.to = o1.key
      /\ o4.kind = "node" /\ o4.key = <<"Finding", Finding(v)>>
      /\ o5.kind = "edge" /\ o5.edge.from = o4.key /\ o5.edge.to = o1.key
      /\ o6.kind = "edge" /\ o6.edge.from = o4.key /\ o6.edge.to = o2.key
  BY DEF UpsertNode, UpsertEdge, Finding
<1> HIDE DEF o1, o2, o3, o4, o5, o6
<1>3. CASE v.alert \in MissingAlertIds
  <2>1. Project(v) = <<o1, o2, o3>> /\ DOMAIN Project(v) = 1..3
    BY <1>1, <1>3
  <2>2. /\ Project(v)[1] = o1 /\ Project(v)[2] = o2 /\ Project(v)[3] = o3
    BY <2>1
  <2>3. 1 \in 1..(3 - 1) /\ 2 \in 1..(3 - 1)
    OBVIOUS
  <2> QED
    BY <1>2, <2>1, <2>2, <2>3
<1>4. CASE v.alert \notin MissingAlertIds
  <2>1. Project(v) = <<o1, o2, o3, o4, o5, o6>> /\ DOMAIN Project(v) = 1..6
    BY <1>1, <1>4
  <2>2. /\ Project(v)[1] = o1 /\ Project(v)[2] = o2 /\ Project(v)[3] = o3
        /\ Project(v)[4] = o4 /\ Project(v)[5] = o5 /\ Project(v)[6] = o6
    BY <2>1
  <2>3. /\ 1 \in 1..(3 - 1) /\ 2 \in 1..(3 - 1)
        /\ 1 \in 1..(5 - 1) /\ 4 \in 1..(5 - 1)
        /\ 2 \in 1..(6 - 1) /\ 4 \in 1..(6 - 1)
    OBVIOUS
  <2> QED
    BY <1>2, <1>4, <2>1, <2>2, <2>3
<1> QED
  BY <1>3, <1>4

\* Once its head is done, the rest of what is to be done is as it was.
LEMMA TodoShrinks ==
    ASSUME TodoInv, todo # <<>>, todo' = Tail(todo), envelopes' = envelopes,
           NEW op, op = Head(todo),
           \A key : There(key) => There(key)',
           op.kind = "node" => There(op.key)'
    PROVE  TodoInv'
<1>1. Planned' = Planned /\ Emitted' = Emitted
  BY DEF Planned, Emitted
<1>2. /\ todo' \in Seq(Planned)
      /\ \A i \in DOMAIN todo' : i + 1 \in DOMAIN todo /\ todo'[i] = todo[i + 1]
  BY DEF TodoInv
<1>3. ASSUME NEW i \in DOMAIN todo', todo'[i].kind = "edge",
             NEW key \in {todo'[i].edge.from, todo'[i].edge.to}
      PROVE  There(key)' \/ \E j \in 1..(i - 1) : todo'[j].kind = "node" /\ todo'[j].key = key
  <2>1. i \in Nat \ {0} /\ DOMAIN todo' = 1..Len(todo') /\ Len(todo') \in Nat
    BY <1>2
  <2>2. CASE There(key)
    BY <2>2
  <2>3. CASE \E j \in 1..i : todo[j].kind = "node" /\ todo[j].key = key
    <3>1. PICK j \in 1..i : todo[j].kind = "node" /\ todo[j].key = key
      BY <2>3
    <3>2. CASE j = 1
      <4>1. op = todo[1]
        BY DEF TodoInv
      <4> QED
        BY <3>1, <3>2, <4>1
    <3>3. CASE j # 1
      <4>1. j - 1 \in 1..(i - 1) /\ j - 1 \in DOMAIN todo' /\ (j - 1) + 1 = j
        BY <2>1, <3>3
      <4>2. todo'[j - 1] = todo[j]
        BY <1>2, <4>1
      <4> QED
        BY <3>1, <4>1, <4>2
    <3> QED
      BY <3>2, <3>3
  <2>4. (i + 1) - 1 = i /\ i + 1 \in DOMAIN todo /\ todo'[i] = todo[i + 1]
    BY <1>2, <2>1
  <2>5. There(key) \/ \E j \in 1..((i + 1) - 1) : todo[j].kind = "node" /\ todo[j].key = key
    BY <1>3, <2>4 DEF TodoInv
  <2> QED
    BY <2>2, <2>3, <2>4, <2>5
<1> QED
  BY <1>1, <1>2, <1>3 DEF TodoInv

\* What is read into the sinks is one more.
LEMMA AppendEmitted ==
    ASSUME envelopes \in Seq(Emitted), NEW v, envelopes' = Append(envelopes, v)
    PROVE  Emitted' = Emitted \union {v} /\ envelopes' \in Seq(Emitted')
<1>1. /\ DOMAIN envelopes' = 1..(Len(envelopes) + 1) /\ DOMAIN envelopes = 1..Len(envelopes)
      /\ Len(envelopes) \in Nat
      /\ envelopes'[Len(envelopes) + 1] = v
      /\ \A k \in 1..Len(envelopes) : envelopes'[k] = envelopes[k]
  OBVIOUS
<1>2. Emitted' = Emitted \union {v}
  BY <1>1 DEF Emitted
<1>3. envelopes' \in Seq(Emitted \union {v})
  OBVIOUS
<1> QED
  BY <1>2, <1>3

\* An emit begins with all its operations to do.
LEMMA EmitKeeps ==
    ASSUME GraphsInv, NEW v, envelopes' = Append(envelopes, v), Emit(v)
    PROVE  GraphsInv'
<1>1. envelopes \in Seq(Emitted)
  BY DEF GraphsInv, TodoInv
<1>2. Emitted' = Emitted \union {v} /\ envelopes' \in Seq(Emitted')
  BY <1>1, AppendEmitted
<1>3. Operations(v) \subseteq Planned'
  BY <1>2 DEF Planned
<1>4. todo' = Project(v) /\ UNCHANGED <<fakeNodes, fakeEdges, nodes, edges>>
  BY DEF Emit
<1>5. TodoInv'
  <2>1. todo' \in Seq(Planned')
    <3>1. Project(v) \in Seq(Operations(v))
      BY ProjectSequence
    <3> QED
      BY <1>3, <1>4, <3>1
  <2>2. \A i \in DOMAIN todo' : todo'[i].kind = "edge" =>
          \A key \in {todo'[i].edge.from, todo'[i].edge.to} :
             \E j \in 1..(i - 1) : todo'[j].kind = "node" /\ todo'[j].key = key
    <3>1. \A i \in DOMAIN Project(v) : Project(v)[i].kind = "edge" =>
            \A key \in {Project(v)[i].edge.from, Project(v)[i].edge.to} :
               \E j \in 1..(i - 1) : Project(v)[j].kind = "node" /\ Project(v)[j].key = key
      BY ProjectIs
    <3> QED
      BY <1>4, <3>1
  <2> QED
    BY <1>2, <2>1, <2>2 DEF TodoInv
<1>6. OneNodeEach' /\ DriverInv'
  BY <1>4 DEF GraphsInv, OneNodeEach, DriverInv, LabelsClash
<1>7. FindingsInv'
  BY <1>2, <1>4 DEF GraphsInv, FindingsInv
<1> QED
  BY <1>5, <1>6, <1>7 DEF GraphsInv

\* The next operation is one of some envelope's.
LEMMA HeadIsPlanned ==
    ASSUME GraphsInv, todo # <<>>
    PROVE  /\ Head(todo) \in Planned /\ Head(todo) = todo[1] /\ 1 \in DOMAIN todo
           /\ Head(todo).kind = "node" => Head(todo).key = <<Head(todo).key[1], Head(todo).key[2]>>
           /\ Head(todo).key[1] = "Finding" /\ Head(todo).kind = "node" =>
                 \E v \in Emitted :
                    v.alert \notin MissingAlertIds /\ Head(todo).key = <<"Finding", Finding(v)>>
<1>1. Head(todo) \in Planned /\ Head(todo) = todo[1] /\ 1 \in DOMAIN todo
  BY DEF GraphsInv, TodoInv
<1>2. PICK v \in Emitted : \E j \in DOMAIN Project(v) : Head(todo) = Project(v)[j]
  BY <1>1 DEF Planned, Operations
<1>3. PICK j \in DOMAIN Project(v) : Head(todo) = Project(v)[j]
  BY <1>2
<1>4. LET o == Project(v)[j] IN
      o.kind = "node" =>
         /\ o.key = <<o.key[1], o.key[2]>>
         /\ o.key[1] = "Finding" =>
               v.alert \notin MissingAlertIds /\ o.key = <<"Finding", Finding(v)>>
  BY ProjectIs
<1> QED
  BY <1>1, <1>3, <1>4

\* Both ends of an edge are in the graph and in the driver when its turn comes.
LEMMA EndsAreThere ==
    ASSUME GraphsInv, todo # <<>>, Head(todo).kind = "edge"
    PROVE  /\ EndsFound(nodes, Head(todo).edge)
           /\ {Head(todo).edge.from[2], Head(todo).edge.to[2]} \subseteq {f.uid : f \in fakeNodes}
<1> DEFINE r == Head(todo).edge
<1>1. Head(todo) = todo[1] /\ 1 \in DOMAIN todo
  BY HeadIsPlanned
<1>2. There(r.from) /\ There(r.to)
  BY <1>1 DEF GraphsInv, TodoInv
<1>3. ASSUME NEW key, There(key) PROVE Matches(nodes, key) # {} /\ key[2] \in {f.uid : f \in fakeNodes}
  BY <1>3 DEF There, Matches, GraphsInv, DriverInv
<1> QED
  BY <1>2, <1>3 DEF EndsFound

\* Both drivers write the edge, so they keep agreeing; no node changes.
LEMMA DoEdgeKeeps ==
    ASSUME GraphsInv, DoEdge, envelopes' = envelopes
    PROVE  GraphsInv'
<1> DEFINE r == Head(todo).edge
<1>1. /\ todo # <<>> /\ Head(todo).kind = "edge" /\ todo' = Tail(todo)
      /\ fakeEdges' = Append(fakeEdges, r) /\ edges' = edges \union {r}
      /\ fakeNodes' = fakeNodes /\ nodes' = nodes
  BY DEF DoEdge
<1>2. TodoInv'
  BY <1>1, TodoShrinks DEF GraphsInv, There
<1>3. OneNodeEach'
  BY <1>1 DEF GraphsInv, OneNodeEach
<1>4. DriverInv'
  <2>1. fakeEdges \in Seq(edges) /\ \A e \in edges : \E k \in DOMAIN fakeEdges : fakeEdges[k] = e
    BY DEF GraphsInv, DriverInv
  <2> HIDE DEF r
  <2>2. fakeEdges' \in Seq(edges')
    BY <1>1, <2>1
  <2>3. /\ DOMAIN fakeEdges' = 1..(Len(fakeEdges) + 1) /\ DOMAIN fakeEdges = 1..Len(fakeEdges)
        /\ Len(fakeEdges) \in Nat
        /\ fakeEdges'[Len(fakeEdges) + 1] = r
        /\ \A k \in 1..Len(fakeEdges) : fakeEdges'[k] = fakeEdges[k]
    BY <1>1, <2>1
  <2>4. \A e \in edges' : \E k \in DOMAIN fakeEdges' : fakeEdges'[k] = e
    BY <1>1, <2>1, <2>3
  <2> QED
    BY <1>1, <2>2, <2>4 DEF GraphsInv, DriverInv, LabelsClash
<1>5. FindingsInv'
  BY <1>1 DEF GraphsInv, FindingsInv, Emitted
<1> QED
  BY <1>2, <1>3, <1>4, <1>5 DEF GraphsInv

\* MERGE makes a node of the key, or updates the only one there is.
LEMMA MergeOne ==
    ASSUME OneNodeEach, NEW op, nodes' = Merge(nodes, Matches(nodes, op.key), op)
    PROVE  \/ /\ ~There(op.key)
              /\ \E new : /\ new.key = op.key /\ new.tenant = op.tenant
                          /\ new.stable = op.stable /\ new.fresh = op.fresh
                          /\ nodes' = nodes \union {new}
           \/ \E old \in nodes : \E new :
                 /\ old.key = op.key /\ new.key = op.key /\ new.tenant = op.tenant
                 /\ new.stable = old.stable
                 /\ new.fresh = IF op.fresh = None THEN old.fresh ELSE op.fresh
                 /\ nodes' = (nodes \ {old}) \union {new}
<1> DEFINE found == Matches(nodes, op.key)
<1>1. found \subseteq nodes /\ \A n \in nodes : n \in found <=> n.key = op.key
  BY DEF Matches
<1>2. CASE found = {}
  <2> DEFINE new == NewNode(op, Copies(nodes, op.key))
  <2>1. nodes' = nodes \union {new}
    BY <1>2 DEF Merge
  <2>2. new.key = op.key /\ new.tenant = op.tenant /\ new.stable = op.stable /\ new.fresh = op.fresh
    BY DEF NewNode
  <2>3. ~There(op.key)
    BY <1>1, <1>2 DEF There
  <2> HIDE DEF new
  <2> QED
    BY <2>1, <2>2, <2>3
<1>3. CASE found # {}
  <2>1. PICK old \in nodes : old \in found
    BY <1>1, <1>3
  <2>2. found = {old} /\ old.key = op.key
    BY <1>1, <2>1 DEF OneNodeEach
  <2> DEFINE new == Update(old, op)
  <2>3. nodes' = (nodes \ {old}) \union {new}
    BY <1>3, <2>2 DEF Merge
  <2>4. /\ new.key = op.key /\ new.tenant = op.tenant /\ new.stable = old.stable
        /\ new.fresh = IF op.fresh = None THEN old.fresh ELSE op.fresh
    BY <2>2 DEF Update
  <2> HIDE DEF new
  <2> QED
    BY <2>2, <2>3, <2>4
<1> QED
  BY <1>2, <1>3

\* upsert_node, when there is at most one node of the uid.
LEMMA UpsertOne ==
    ASSUME NEW op, NEW old, \A e, f \in old : e = f
    PROVE  LET g == FakeUpsert(old, op) IN
           /\ g.uid = op.key[2] /\ g.label = op.key[1] /\ g.tenant = op.tenant
           /\ old = {} => g.stable = op.stable /\ g.fresh = op.fresh
           /\ \A f \in old :
                 /\ old = {f} /\ g.stable = f.stable
                 /\ g.fresh = IF op.fresh = None THEN f.fresh ELSE op.fresh
<1>1. CASE old = {}
  BY <1>1 DEF FakeUpsert, FakeKey
<1>2. ASSUME NEW f \in old
      PROVE  LET g == FakeUpsert(old, op) IN
             /\ old = {f} /\ g.stable = f.stable
             /\ g.fresh = IF op.fresh = None THEN f.fresh ELSE op.fresh
             /\ g.uid = op.key[2] /\ g.label = op.key[1] /\ g.tenant = op.tenant
  <2>1. old = {f}
    BY <1>2
  <2>2. (CHOOSE n \in old : TRUE) = f
    BY <2>1
  <2> QED
    BY <2>1, <2>2 DEF FakeUpsert, FakeKey
<1> QED
  BY <1>1, <1>2

\* An upsert of both leaves them as alike as they were: were the graph's node
\* another than the driver's, they would differ in their label alone.
LEMMA DoNodeKeeps ==
    ASSUME GraphsInv, DoNode, envelopes' = envelopes
    PROVE  GraphsInv'
<1> SUFFICES ASSUME NEW op, op = Head(todo),
                    NEW gone, gone = {f \in fakeNodes : f.uid = FakeKey(op)}
             PROVE  GraphsInv'
  OBVIOUS
<1>1. /\ todo # <<>> /\ op.kind = "node" /\ todo' = Tail(todo)
      /\ fakeEdges' = fakeEdges /\ edges' = edges
      /\ nodes' = Merge(nodes, Matches(nodes, op.key), op)
      /\ fakeNodes' = (fakeNodes \ gone) \union {FakeUpsert(gone, op)}
  BY DEF DoNode
<1>2. /\ op.key = <<op.key[1], op.key[2]>>
      /\ op.key[1] = "Finding" =>
            \E v \in Emitted : v.alert \notin MissingAlertIds /\ op.key = <<"Finding", Finding(v)>>
  BY <1>1, HeadIsPlanned
<1>3. OneNodeEach /\ TodoInv /\ DriverInv /\ FindingsInv
  BY DEF GraphsInv
<1>4. \A f \in fakeNodes : f \in gone <=> f.uid = op.key[2]
  BY DEF FakeKey
<1>5. PICK g :
        /\ fakeNodes' = (fakeNodes \ gone) \union {g}
        /\ g.uid = op.key[2] /\ g.label = op.key[1] /\ g.tenant = op.tenant
        /\ gone = {} => g.stable = op.stable /\ g.fresh = op.fresh
        /\ \A f \in gone :
              /\ gone = {f} /\ g.stable = f.stable
              /\ g.fresh = IF op.fresh = None THEN f.fresh ELSE op.fresh
  <2>1. \A e, f \in gone : e = f
    BY <1>3 DEF OneNodeEach, FakeKey
  <2> QED
    <3> DEFINE u == FakeUpsert(gone, op)
    <3>1. /\ u.uid = op.key[2] /\ u.label = op.key[1] /\ u.tenant = op.tenant
          /\ gone = {} => u.stable = op.stable /\ u.fresh = op.fresh
          /\ \A f \in gone :
                /\ gone = {f} /\ u.stable = f.stable
                /\ u.fresh = IF op.fresh = None THEN f.fresh ELSE op.fresh
      BY <2>1, UpsertOne
    <3> HIDE DEF u
    <3> WITNESS u
    <3> QED
      BY <1>1, <3>1 DEF u
<1>6. There(op.key)' /\ \A key : There(key) => There(key)'
  BY <1>1, <1>3, MergeOne DEF There
<1>7. TodoInv'
  BY <1>1, <1>3, <1>6, TodoShrinks
<1>8. OneNodeEach' /\ FindingsInv'
  <2>1. (\A m, n \in nodes : m.key = n.key => m = n)'
    BY <1>1, <1>3, MergeOne DEF OneNodeEach, There
  <2>2. (\A n \in nodes : n.key = <<n.key[1], n.key[2]>>)'
    BY <1>1, <1>2, <1>3, MergeOne DEF OneNodeEach
  <2>3. (\A e, f \in fakeNodes : e.uid = f.uid => e = f)'
    BY <1>3, <1>5, <1>4 DEF OneNodeEach
  <2>4. FindingsInv'
    BY <1>1, <1>2, <1>3, MergeOne DEF FindingsInv, Emitted
  <2> QED
    BY <2>1, <2>2, <2>3, <2>4 DEF OneNodeEach
<1>9. DriverInv'
  <2>1. \A n \in nodes' : \E f \in fakeNodes' : f.uid = n.key[2]
    <3>1. \A n \in nodes' : n.key = op.key \/ n \in nodes
      BY <1>1, <1>3, MergeOne
    <3>2. \A n \in nodes : \E f \in fakeNodes : f.uid = n.key[2]
      BY <1>3 DEF DriverInv
    <3> QED
      BY <1>5, <1>4, <3>1, <3>2
  <2>2. ASSUME ~LabelsClash'
        PROVE  /\ \A f \in fakeNodes' : \E n \in nodes' : Same(f, n)
               /\ \A n \in nodes' : \E f \in fakeNodes' : Same(f, n)
    <3>1. \A m, n \in nodes' : m.key[2] = n.key[2] => m.key[1] = n.key[1]
      BY <2>2 DEF LabelsClash
    <3>2. ~LabelsClash
      <4> SUFFICES ASSUME NEW m \in nodes, NEW n \in nodes, m.key[2] = n.key[2]
                   PROVE  m.key[1] = n.key[1]
        BY DEF LabelsClash
      <4>1. PICK p \in nodes' : p.key = m.key
        BY <1>6 DEF There
      <4>2. PICK q \in nodes' : q.key = n.key
        BY <1>6 DEF There
      <4> QED
        BY <3>1, <4>1, <4>2
    <3>3. /\ \A f \in fakeNodes : \E n \in nodes : Same(f, n)
          /\ \A n \in nodes : \E f \in fakeNodes : Same(f, n)
      BY <1>3, <3>2 DEF DriverInv
    <3>4. CASE ~There(op.key)
      <4>1. PICK new : /\ new.key = op.key /\ new.tenant = op.tenant
                       /\ new.stable = op.stable /\ new.fresh = op.fresh
                       /\ nodes' = nodes \union {new}
        BY <1>1, <1>3, <3>4, MergeOne DEF There
      <4>2. gone = {}
        <5> SUFFICES ASSUME NEW f \in gone PROVE FALSE
          OBVIOUS
        <5>1. f \in fakeNodes /\ f.uid = op.key[2]
          BY <1>4
        <5>2. PICK n \in nodes : n.key = <<f.label, f.uid>>
          BY <3>3, <5>1 DEF Same
        <5>3. n.key[2] = op.key[2] /\ n.key[1] = op.key[1]
          BY <3>1, <4>1, <5>1, <5>2
        <5> QED
          BY <1>2, <3>4, <5>1, <5>2, <5>3 DEF There
      <4>3. fakeNodes' = fakeNodes \union {g} /\ Same(g, new)
        BY <1>2, <1>5, <4>1, <4>2 DEF Same
      <4> QED
        BY <3>3, <4>1, <4>3
    <3>5. CASE There(op.key)
      <4>1. PICK old \in nodes : \E new :
              /\ old.key = op.key /\ new.key = op.key /\ new.tenant = op.tenant
              /\ new.stable = old.stable
              /\ new.fresh = IF op.fresh = None THEN old.fresh ELSE op.fresh
              /\ nodes' = (nodes \ {old}) \union {new}
        BY <1>1, <1>3, <3>5, MergeOne
      <4> PICK new :
              /\ old.key = op.key /\ new.key = op.key /\ new.tenant = op.tenant
              /\ new.stable = old.stable
              /\ new.fresh = IF op.fresh = None THEN old.fresh ELSE op.fresh
              /\ nodes' = (nodes \ {old}) \union {new}
        BY <4>1
      <4>2. PICK f0 \in fakeNodes : Same(f0, old)
        BY <3>3
      <4>3. f0 \in gone /\ gone = {f0}
        BY <1>5, <1>4, <4>1, <4>2 DEF Same
      <4>4. Same(g, new)
        BY <1>2, <1>5, <4>1, <4>2, <4>3 DEF Same
      <4>5. fakeNodes' = (fakeNodes \ {f0}) \union {g}
        BY <1>5, <4>3
      <4>6. ASSUME NEW f \in fakeNodes, NEW n \in nodes, Same(f, n) PROVE f = f0 <=> n = old
        BY <1>3, <4>1, <4>2, <4>6 DEF Same, OneNodeEach
      <4> QED
        BY <3>3, <4>1, <4>4, <4>5, <4>6
    <3> QED
      BY <3>4, <3>5
  <2> QED
    BY <1>1, <1>3, <2>1, <2>2 DEF DriverInv
<1> QED
  BY <1>7, <1>8, <1>9 DEF GraphsInv

\* Before the first emit both drivers are empty.
LEMMA GraphsBegin == Init => GraphsInv
<1> SUFFICES ASSUME Init PROVE GraphsInv
  OBVIOUS
<1>1. /\ fakeNodes = {} /\ fakeEdges = <<>> /\ nodes = {} /\ edges = {} /\ todo = <<>>
      /\ envelopes = <<>>
  BY DEF Init, GraphsInit
<1>2. TodoInv
  BY <1>1 DEF TodoInv
<1> QED
  BY <1>1, <1>2 DEF GraphsInv, OneNodeEach, DriverInv, FindingsInv

\* Every step keeps the drivers in step: an emit plans operations, an operation
\* is made by both, and producing and relaying reach neither.
LEMMA GraphsStep == GraphsInv /\ [Next]_vars => GraphsInv'
<1> SUFFICES ASSUME GraphsInv, [Next]_vars PROVE GraphsInv'
  OBVIOUS
<1>1. ASSUME UNCHANGED <<graphs, envelopes>> PROVE GraphsInv'
  <2>1. UNCHANGED <<fakeNodes, fakeEdges, nodes, edges, todo, envelopes>>
    BY <1>1 DEF graphs
  <2>2. Emitted' = Emitted /\ Planned' = Planned
    BY <2>1 DEF Emitted, Planned
  <2>3. TodoInv'
    BY <2>1, <2>2 DEF GraphsInv, TodoInv, There
  <2>4. OneNodeEach' /\ DriverInv'
    BY <2>1 DEF GraphsInv, OneNodeEach, DriverInv, LabelsClash
  <2>5. FindingsInv'
    BY <2>1, <2>2 DEF GraphsInv, FindingsInv
  <2> QED
    BY <2>3, <2>4, <2>5 DEF GraphsInv
<1>2. ASSUME NEW m, Consume(m) PROVE GraphsInv'
  BY <1>2, EmitKeeps DEF Consume
<1>3. CASE (DoNode \/ DoEdge) /\ UNCHANGED <<sent, relayed, envelopes>>
  BY <1>3, DoNodeKeeps, DoEdgeKeeps
<1> QED
  BY <1>1, <1>2, <1>3 DEF Next, vars, Produce, Relay

\* The driver and the graph, after every operation of every emit.
THEOREM DriverInvariance == Spec => []GraphsInv
  BY GraphsBegin, GraphsStep, PTL DEF Spec

\* As long as no alert takes the id of a device, what the driver holds is what
\* the graph holds, whatever was emitted and however often.
THEOREM DriverAgrees == Spec => []GraphsAgree
<1>1. GraphsInv => GraphsAgree
  <2> SUFFICES ASSUME GraphsInv, ~LabelsClash
               PROVE  /\ {[key |-> <<n.label, n.uid>>, tenant |-> n.tenant,
                           stable |-> n.stable, fresh |-> n.fresh] : n \in fakeNodes}
                         = {[key |-> n.key, tenant |-> n.tenant,
                             stable |-> n.stable, fresh |-> n.fresh] : n \in nodes}
                      /\ {fakeEdges[k] : k \in DOMAIN fakeEdges} = edges
    BY DEF GraphsAgree
  <2>1. /\ \A f \in fakeNodes : \E n \in nodes : Same(f, n)
        /\ \A n \in nodes : \E f \in fakeNodes : Same(f, n)
    BY DEF GraphsInv, DriverInv
  <2>2. /\ \A k \in DOMAIN fakeEdges : fakeEdges[k] \in edges
        /\ \A r \in edges : \E k \in DOMAIN fakeEdges : fakeEdges[k] = r
    BY DEF GraphsInv, DriverInv
  <2> DEFINE F(f) == [key |-> <<f.label, f.uid>>, tenant |-> f.tenant,
                      stable |-> f.stable, fresh |-> f.fresh]
             N(n) == [key |-> n.key, tenant |-> n.tenant,
                      stable |-> n.stable, fresh |-> n.fresh]
  <2>3. \A f, n : Same(f, n) => F(f) = N(n)
    BY DEF Same
  <2> HIDE DEF F, N
  <2>4. {F(f) : f \in fakeNodes} = {N(n) : n \in nodes}
    BY <2>1, <2>3
  <2>5. {fakeEdges[k] : k \in DOMAIN fakeEdges} = edges
    BY <2>2
  <2> QED
    BY <2>4, <2>5 DEF F, N
<1> QED
  BY <1>1, DriverInvariance, PTL

\* When the turn of an edge comes, both drivers have both of its ends.
EdgeNeverWaits ==
    todo # <<>> /\ Head(todo).kind = "edge" =>
        /\ EndsFound(nodes, Head(todo).edge)
        /\ {Head(todo).edge.from[2], Head(todo).edge.to[2]} \subseteq {f.uid : f \in fakeNodes}

\* What DoEdge asks of the nodes never stops it: project() puts an edge after
\* the nodes at its ends, and nothing takes a node away.
THEOREM EdgesNeverWait == Spec => []EdgeNeverWaits
<1>1. GraphsInv => EdgeNeverWaits
  BY EndsAreThere DEF EdgeNeverWaits
<1> QED
  BY <1>1, DriverInvariance, PTL

-----------------------------------------------------------------------------
(* Payloads: which of its fields names an alert. *)

\* The first of up to four candidates.
LEMMA MinIsFirst ==
    ASSUME NEW S, S \subseteq 1..4, S # {}
    PROVE  Min(S) \in S /\ \A j \in S : Min(S) <= j
<1>1. \E i \in S : \A j \in S : i <= j
  <2>1. CASE 1 \in S
    BY <2>1
  <2>2. CASE 1 \notin S /\ 2 \in S
    BY <2>2
  <2>3. CASE 1 \notin S /\ 2 \notin S /\ 3 \in S
    BY <2>3
  <2>4. CASE 1 \notin S /\ 2 \notin S /\ 3 \notin S
    <3>1. \A x \in S : x = 4
      BY <2>4
    <3>2. 4 \in S
      BY <3>1
    <3> QED
      BY <3>1, <3>2
  <2> QED
    BY <2>1, <2>2, <2>3, <2>4
<1> QED
  BY <1>1 DEF Min

\* An `or` chain gives the first truthy field, or what it ends in.
LEMMA FirstTruthyIs ==
    ASSUME NEW p, NEW keys, DOMAIN keys \subseteq 1..4, NEW default
    PROVE  \/ /\ \A i \in DOMAIN keys : ~Truthy(Get(p, keys[i], Null))
              /\ FirstTruthy(p, keys, default) = default
           \/ \E i \in DOMAIN keys :
                 /\ Truthy(Get(p, keys[i], Null)) /\ keys[i] \in DOMAIN p
                 /\ \A j \in DOMAIN keys : j < i => ~Truthy(Get(p, keys[j], Null))
                 /\ FirstTruthy(p, keys, default) = p[keys[i]]
<1> DEFINE truthy == {i \in DOMAIN keys : Truthy(Get(p, keys[i], Null))}
<1>1. CASE truthy = {}
  BY <1>1 DEF FirstTruthy
<1>2. CASE truthy # {}
  <2>1. truthy \subseteq 1..4
    OBVIOUS
  <2>2. FirstTruthy(p, keys, default) = p[keys[Min(truthy)]]
    BY <1>2 DEF FirstTruthy
  <2>3. Min(truthy) \in truthy /\ \A j \in truthy : Min(truthy) <= j
    BY <1>2, <2>1, MinIsFirst
  <2>4. \A k : Truthy(Get(p, k, Null)) => k \in DOMAIN p
    BY DEF Truthy, Get, Null
  <2>5. PICK i \in truthy : i = Min(truthy)
    BY <2>3
  <2>6. ASSUME NEW j \in DOMAIN keys, j < i PROVE ~Truthy(Get(p, keys[j], Null))
    <3>1. j \in 1..4 /\ i \in 1..4
      BY <2>1, <2>5
    <3> QED
      BY <2>3, <2>5, <2>6, <3>1
  <2> QED
    BY <2>2, <2>4, <2>5, <2>6
<1> QED
  BY <1>1, <1>2

\* The same of the chains there are, by their length.
LEMMA FirstOfOne ==
    ASSUME NEW p, NEW k, NEW default
    PROVE  FirstTruthy(p, <<k>>, default) = IF Truthy(Get(p, k, Null)) THEN p[k] ELSE default
<1>1. DOMAIN <<k>> = {1} /\ <<k>>[1] = k /\ {1} \subseteq 1..4
  OBVIOUS
<1> QED
  BY <1>1, FirstTruthyIs

\* The chain p.get(k) or p.get(l) or default, written out.
LEMMA FirstOfTwo ==
    ASSUME NEW p, NEW k, NEW l, NEW default
    PROVE  FirstTruthy(p, <<k, l>>, default) =
              IF Truthy(Get(p, k, Null)) THEN p[k]
              ELSE IF Truthy(Get(p, l, Null)) THEN p[l] ELSE default
<1> DEFINE keys == <<k, l>>
<1>1. DOMAIN keys = {1, 2} /\ keys[1] = k /\ keys[2] = l /\ {1, 2} \subseteq 1..4
  OBVIOUS
<1> HIDE DEF keys
<1>2. FirstTruthy(p, keys, default) =
              IF Truthy(Get(p, k, Null)) THEN p[k]
              ELSE IF Truthy(Get(p, l, Null)) THEN p[l] ELSE default
  BY <1>1, FirstTruthyIs
<1> QED
  BY <1>2 DEF keys

\* The chain of three keys, written out.
LEMMA FirstOfThree ==
    ASSUME NEW p, NEW k, NEW l, NEW m, NEW default
    PROVE  FirstTruthy(p, <<k, l, m>>, default) =
              IF Truthy(Get(p, k, Null)) THEN p[k]
              ELSE IF Truthy(Get(p, l, Null)) THEN p[l]
              ELSE IF Truthy(Get(p, m, Null)) THEN p[m] ELSE default
<1> DEFINE keys == <<k, l, m>>
<1>1. DOMAIN keys = {1, 2, 3} /\ keys[1] = k /\ keys[2] = l /\ keys[3] = m
      /\ {1, 2, 3} \subseteq 1..4
  OBVIOUS
<1> HIDE DEF keys
<1>2. FirstTruthy(p, keys, default) =
              IF Truthy(Get(p, k, Null)) THEN p[k]
              ELSE IF Truthy(Get(p, l, Null)) THEN p[l]
              ELSE IF Truthy(Get(p, m, Null)) THEN p[m] ELSE default
  BY <1>1, FirstTruthyIs
<1> QED
  BY <1>2 DEF keys

\* A chain of .get defaults gives the first field there is.
LEMMA PresentOfTwo ==
    ASSUME NEW p, NEW k, NEW l, NEW default
    PROVE  FirstPresent(p, <<k, l>>, default) =
              IF k \in DOMAIN p THEN p[k] ELSE IF l \in DOMAIN p THEN p[l] ELSE default
<1> DEFINE keys == <<k, l>>
           present == {i \in DOMAIN keys : keys[i] \in DOMAIN p}
<1>1. DOMAIN keys = {1, 2} /\ keys[1] = k /\ keys[2] = l
  OBVIOUS
<1>2. FirstPresent(p, keys, default) =
         IF present = {} THEN default ELSE p[keys[Min(present)]]
  BY DEF FirstPresent
<1> HIDE DEF keys
<1>3. present \subseteq 1..4
  BY <1>1
<1>4. present # {} => Min(present) \in present /\ \A j \in present : Min(present) <= j
  BY <1>3, MinIsFirst
<1>5. (1 \in present <=> k \in DOMAIN p) /\ (2 \in present <=> l \in DOMAIN p)
      /\ present \subseteq {1, 2}
  BY <1>1
<1> HIDE DEF present
<1>6. /\ k \in DOMAIN p => Min(present) = 1 /\ present # {}
      /\ k \notin DOMAIN p /\ l \in DOMAIN p => Min(present) = 2 /\ present # {}
      /\ k \notin DOMAIN p /\ l \notin DOMAIN p => present = {}
  <2>1. ASSUME k \in DOMAIN p PROVE Min(present) = 1 /\ present # {}
    <3>1. 1 \in present
      BY <1>5, <2>1
    <3>2. Min(present) \in {1, 2} /\ Min(present) <= 1
      BY <1>4, <1>5, <3>1
    <3> QED
      BY <3>1, <3>2
  <2>2. ASSUME k \notin DOMAIN p, l \in DOMAIN p PROVE Min(present) = 2 /\ present # {}
    <3>1. 2 \in present /\ 1 \notin present
      BY <1>5, <2>2
    <3>2. Min(present) \in present /\ present \subseteq {1, 2}
      BY <1>4, <1>5, <3>1
    <3> QED
      BY <3>1, <3>2
  <2>3. ASSUME k \notin DOMAIN p, l \notin DOMAIN p PROVE present = {}
    BY <1>5, <2>3
  <2> QED
    BY <2>1, <2>2, <2>3
<1>7. FirstPresent(p, keys, default) =
         IF k \in DOMAIN p THEN p[k] ELSE IF l \in DOMAIN p THEN p[l] ELSE default
  BY <1>1, <1>2, <1>6
<1> QED
  BY <1>7 DEF keys

\* What names an alert is what the translators write of it, unless a field
\* that is null or empty is kept.
LEMMA AlertIsOwnId ==
    ASSUME NEW source \in TRANSLATOR_TYPES, source # "fleet", NEW p, ~Disguised(source, p)
    PROVE  TranslatedFields(source, p).alert = OwnId(source, p)
<1>1. \A x : Truthy(x) => str(x) = x
  BY DEF Truthy, str
<1>2. str(Unknown) = Unknown /\ ~Truthy(Null)
  BY DEF str, Unknown, Null, Truthy
<1>3. CASE source = "sciencelogic"
  BY <1>3 DEF TranslatedFields, ScienceLogic, Fields, OwnId, IdFields
<1>4. CASE source = "sl1"
  <2> DEFINE a == Truthy(Get(p, "event_id", Null))
             b == Truthy(Get(p, "alert_id", Null))
             c == Truthy(Get(p, "id", Null))
  <2>1. TranslatedFields(source, p).alert =
           str(FirstTruthy(p, <<"event_id", "alert_id">>, Get(p, "id", Unknown)))
    BY <1>4 DEF TranslatedFields, SL1, Fields
  <2>2. OwnId(source, p) = FirstTruthy(p, <<"event_id", "alert_id", "id">>, Unknown)
    BY <1>4 DEF OwnId, IdFields
  <2>3. ~(FirstTruthy(p, <<"event_id", "alert_id", "id">>, Null) = Null /\ "id" \in DOMAIN p)
    BY <1>4 DEF Disguised, IdFields
  <2>4. /\ a => Truthy(p["event_id"])
        /\ b => Truthy(p["alert_id"])
        /\ c => Truthy(p["id"]) /\ Get(p, "id", Unknown) = p["id"]
        /\ "id" \notin DOMAIN p => Get(p, "id", Unknown) = Unknown
    BY <1>2 DEF Get
  <2> HIDE DEF a, b, c
  <2>5. TranslatedFields(source, p).alert =
           str(IF a THEN p["event_id"] ELSE IF b THEN p["alert_id"] ELSE Get(p, "id", Unknown))
    BY <2>1, FirstOfTwo DEF a, b
  <2>6. OwnId(source, p) = IF a THEN p["event_id"] ELSE IF b THEN p["alert_id"]
                           ELSE IF c THEN p["id"] ELSE Unknown
    BY <2>2, FirstOfThree DEF a, b, c
  <2>7. a \/ b \/ c \/ "id" \notin DOMAIN p
    BY <2>3, FirstOfThree DEF a, b, c
  <2>8. c => "id" \in DOMAIN p
    BY <1>2 DEF c, Get
  <2> QED
    BY <1>1, <1>2, <2>4, <2>5, <2>6, <2>7, <2>8
<1>5. CASE source = "connectwise"
  <2>1. TranslatedFields(source, p).alert = str(Get(p, "id", Unknown))
    BY <1>5 DEF TranslatedFields, ConnectWise, Fields
  <2>2. OwnId(source, p) = FirstTruthy(p, <<"id">>, Unknown)
    BY <1>5 DEF OwnId, IdFields
  <2>3. ~(FirstTruthy(p, <<"id">>, Null) = Null /\ "id" \in DOMAIN p)
    BY <1>5 DEF Disguised, IdFields
  <2>4. OwnId(source, p) = IF Truthy(Get(p, "id", Null)) THEN p["id"] ELSE Unknown
    BY <2>2, FirstOfOne
  <2>5. Truthy(Get(p, "id", Null)) \/ "id" \notin DOMAIN p
    BY <2>3, FirstOfOne
  <2> QED
    BY <1>1, <1>2, <2>1, <2>4, <2>5 DEF Get
<1>6. CASE source = "addigy"
  <2> DEFINE a == Truthy(Get(p, "alert_id", Null))
             b == Truthy(Get(p, "id", Null))
  <2>1. TranslatedFields(source, p).alert =
           str(FirstTruthy(p, <<"alert_id">>, Get(p, "id", Unknown)))
    BY <1>6 DEF TranslatedFields, Addigy, Fields
  <2>2. OwnId(source, p) = FirstTruthy(p, <<"alert_id", "id">>, Unknown)
    BY <1>6 DEF OwnId, IdFields
  <2>3. ~(FirstTruthy(p, <<"alert_id", "id">>, Null) = Null /\ "id" \in DOMAIN p)
    BY <1>6 DEF Disguised, IdFields
  <2>4. /\ a => Truthy(p["alert_id"])
        /\ b => Truthy(p["id"]) /\ Get(p, "id", Unknown) = p["id"]
        /\ "id" \notin DOMAIN p => Get(p, "id", Unknown) = Unknown
        /\ b => "id" \in DOMAIN p
    BY <1>2 DEF Get
  <2> HIDE DEF a, b
  <2>5. TranslatedFields(source, p).alert =
           str(IF a THEN p["alert_id"] ELSE Get(p, "id", Unknown))
    BY <2>1, FirstOfOne DEF a
  <2>6. OwnId(source, p) = IF a THEN p["alert_id"] ELSE IF b THEN p["id"] ELSE Unknown
    BY <2>2, FirstOfTwo DEF a, b
  <2>7. a \/ b \/ "id" \notin DOMAIN p
    BY <2>3, FirstOfTwo DEF a, b
  <2> QED
    BY <1>1, <1>2, <2>4, <2>5, <2>6, <2>7
<1>7. CASE source = "legacy"
  <2>1. TranslatedFields(source, p).alert = str(FirstPresent(p, <<"alert_id", "id">>, Unknown))
    BY <1>7 DEF TranslatedFields, Legacy, Fields
  <2>2. OwnId(source, p) = FirstTruthy(p, <<"alert_id", "id">>, Unknown)
    BY <1>7 DEF OwnId, IdFields
  <2>3. Truthy(FirstPresent(p, <<"alert_id", "id">>, Unknown))
    BY <1>7 DEF Disguised, IdFields
  <2>4. FirstPresent(p, <<"alert_id", "id">>, Unknown) =
           IF "alert_id" \in DOMAIN p THEN p["alert_id"]
           ELSE IF "id" \in DOMAIN p THEN p["id"] ELSE Unknown
    BY PresentOfTwo
  <2>5. OwnId(source, p) = IF Truthy(Get(p, "alert_id", Null)) THEN p["alert_id"]
                           ELSE IF Truthy(Get(p, "id", Null)) THEN p["id"] ELSE Unknown
    BY <2>2, FirstOfTwo
  <2> QED
    BY <1>1, <1>2, <2>1, <2>3, <2>4, <2>5 DEF Get
<1> QED
  BY <1>3, <1>4, <1>5, <1>6, <1>7 DEF TRANSLATOR_TYPES

\* Of texts a translator makes texts.  The provers do not know that a literal is
\* a STRING.
Part == STRING \union {"unknown", "None", "fleet-policy", "Unknown policy"}

Texts(p) == \A k \in DOMAIN p : p[k] \in Seq(Part)

\* An or-chain over a payload of texts gives a text.
LEMMA ChainIsText ==
    ASSUME NEW p, Texts(p), NEW keys, DOMAIN keys \subseteq 1..4,
           NEW default, default \in Seq(Part)
    PROVE  FirstTruthy(p, keys, default) \in Seq(Part)
<1> DEFINE truthy == {i \in DOMAIN keys : Truthy(Get(p, keys[i], Null))}
<1>1. CASE truthy = {}
  BY <1>1 DEF FirstTruthy
<1>2. CASE truthy # {}
  <2>1. Min(truthy) \in truthy
    BY <1>2, MinIsFirst
  <2>2. keys[Min(truthy)] \in DOMAIN p
    BY <2>1 DEF Truthy, Get, Null
  <2>3. FirstTruthy(p, keys, default) = p[keys[Min(truthy)]]
    BY <1>2 DEF FirstTruthy
  <2> QED
    BY <2>2, <2>3 DEF Texts
<1> QED
  BY <1>1, <1>2

\* A single part is a text.
LEMMA TextOfOne == ASSUME NEW S, NEW s, s \in S PROVE <<s>> \in Seq(S)
<1>1. <<>> \in Seq(S)
  OBVIOUS
<1>2. Append(<<>>, s) \in Seq(S)
  BY <1>1, AppendProperties
<1>3. Append(<<>>, s) = <<s>>
  OBVIOUS
<1> QED
  BY <1>2, <1>3

\* The words that translators fall back to are texts.
LEMMA PartsAreTexts ==
    {<<"unknown">>, <<"None">>, <<"fleet-policy">>, <<"Unknown policy">>} \subseteq Seq(Part)
  BY TextOfOne DEF Part

\* What a payload carries are texts.
LEMMA StringsAreTexts == Seq(STRING) \subseteq Seq(Part)
<1>1. \A S, T : S \subseteq T => Seq(S) \subseteq Seq(T)
  OBVIOUS
<1>2. STRING \subseteq Part
  BY DEF Part
<1> QED
  BY <1>1, <1>2

\* p.get of a payload of texts gives a text.
LEMMA GetIsText ==
    ASSUME NEW p, Texts(p), NEW k, NEW default \in Seq(Part)
    PROVE  Get(p, k, default) \in Seq(Part)
  BY DEF Get, Texts

\* The name of a Fleet policy is a text, whichever of its fields it is from.
LEMMA PolicyIsText == ASSUME NEW p, Texts(p) PROVE Policy(p) \in Seq(Part)
<1>1. Get(p, "policy", <<"Unknown policy">>) \in Seq(Part)
  BY PartsAreTexts, GetIsText
<1>2. DOMAIN <<"policy_name">> \subseteq 1..4 /\ DOMAIN <<"policy_id">> \subseteq 1..4
  OBVIOUS
<1>3. PolicyName(p) \in Seq(Part)
  BY <1>1, <1>2, ChainIsText DEF PolicyName
<1> QED
  BY <1>2, <1>3, ChainIsText DEF Policy

\* Every translator makes a text of the alert's id.
LEMMA AlertIsText ==
    ASSUME NEW source \in TRANSLATOR_TYPES, NEW p, Texts(p),
           source = "fleet" => HostUuid(p) \in DOMAIN Prefix
    PROVE  TranslatedFields(source, p).alert \in Seq(Part)
<1>1. Unknown \in Seq(Part) /\ \A x \in Seq(Part) : str(x) \in Seq(Part)
  <2>1. Unknown \in Seq(Part) /\ <<"None">> \in Seq(Part)
    BY PartsAreTexts DEF Unknown
  <2> QED
    BY <2>1 DEF str
<1>2. Get(p, "id", Unknown) \in Seq(Part)
  BY <1>1, GetIsText
<1>3. CASE source = "sciencelogic"
  <2>1. DOMAIN <<"alert_id", "event_id", "xid", "id">> \subseteq 1..4
    OBVIOUS
  <2>2. TranslatedFields(source, p).alert =
           FirstTruthy(p, <<"alert_id", "event_id", "xid", "id">>, Unknown)
    BY <1>3 DEF TranslatedFields, ScienceLogic, Fields
  <2> QED
    BY <1>1, <2>1, <2>2, ChainIsText
<1>4. CASE source = "sl1"
  <2>1. DOMAIN <<"event_id", "alert_id">> \subseteq 1..4
    OBVIOUS
  <2>2. TranslatedFields(source, p).alert =
           str(FirstTruthy(p, <<"event_id", "alert_id">>, Get(p, "id", Unknown)))
    BY <1>4 DEF TranslatedFields, SL1, Fields
  <2> QED
    BY <1>1, <1>2, <2>1, <2>2, ChainIsText
<1>5. CASE source = "connectwise"
  BY <1>1, <1>2, <1>5 DEF TranslatedFields, ConnectWise, Fields
<1>6. CASE source = "addigy"
  <2>1. DOMAIN <<"alert_id">> \subseteq 1..4
    OBVIOUS
  <2>2. TranslatedFields(source, p).alert =
           str(FirstTruthy(p, <<"alert_id">>, Get(p, "id", Unknown)))
    BY <1>6 DEF TranslatedFields, Addigy, Fields
  <2> QED
    BY <1>1, <1>2, <2>1, <2>2, ChainIsText
<1>7. CASE source = "legacy"
  <2>1. FirstPresent(p, <<"alert_id", "id">>, Unknown) \in Seq(Part)
    <3>1. FirstPresent(p, <<"alert_id", "id">>, Unknown) =
             IF "alert_id" \in DOMAIN p THEN p["alert_id"]
             ELSE IF "id" \in DOMAIN p THEN p["id"] ELSE Unknown
      BY PresentOfTwo
    <3> QED
      BY <1>1, <3>1 DEF Texts
  <2> QED
    BY <1>1, <1>7, <2>1 DEF TranslatedFields, Legacy, Fields
<1>8. CASE source = "fleet"
  <2>1. TranslatedFields(source, p).alert =
           <<"fleet-policy">> \o Policy(p) \o Prefix[HostUuid(p)]
    BY <1>8 DEF TranslatedFields, Fleet, Fields
  <2>2. Policy(p) \in Seq(Part) /\ Prefix[HostUuid(p)] \in Seq(Part)
    BY <1>8, PolicyIsText, StringsAreTexts, PrefixAssumption
  <2>3. <<"fleet-policy">> \in Seq(Part)
    BY PartsAreTexts
  <2>4. \A a, b, c \in Seq(Part) : a \o b \o c \in Seq(Part)
    OBVIOUS
  <2> QED
    BY <2>1, <2>2, <2>3, <2>4
<1> QED
  BY <1>3, <1>4, <1>5, <1>6, <1>7, <1>8 DEF TRANSLATOR_TYPES

-----------------------------------------------------------------------------
(* Findings. *)

\* The fields are those of a payload that a translator took: its source, the
\* alert it makes of it, and the payload itself, if it was kept.
Genuine(fields) ==
    \E p \in Productions :
        LET raw == Carried(p[2], p[3]) IN
        /\ p[2] \in TRANSLATOR_TYPES /\ ~Raises(p[2], raw)
        /\ "source" \in DOMAIN fields => fields.source = p[2]
        /\ "alert" \in DOMAIN fields => fields.alert = TranslatedFields(p[2], raw).alert
        /\ "raw" \in DOMAIN fields => fields.raw \in {raw, <<>>}

EnvelopesInv ==
    /\ \A m \in sent \union relayed : Genuine(m.fields)
    /\ \A v \in Emitted : DOMAIN v = Known /\ Genuine(v)

\* What a producer wrote is what a translator of the source made of a payload.
LEMMA WrittenIsGenuine ==
    ASSUME NEW m, Produced(m)
    PROVE  Genuine(m.fields)
<1>1. PICK p \in Productions : \E now :
        /\ p[2] \in TRANSLATOR_TYPES /\ ~Raises(p[2], Carried(p[2], p[3]))
        /\ m = Written(translate(p[1], p[2], p[3], now), p[4])
  BY DEF Produced
<1>2. PICK now : m = Written(translate(p[1], p[2], p[3], now), p[4])
  BY <1>1
<1> DEFINE v == translate(p[1], p[2], p[3], now)
           raw == Carried(p[2], p[3])
<1>3. /\ m.fields = [f \in ((DOMAIN v) \ p[4].drops) \union p[4].adds |->
                        IF f \in DOMAIN v THEN v[f] ELSE <<"more">>]
  BY <1>2 DEF Written, Message
<1>4. /\ {"source", "alert", "raw"} \subseteq DOMAIN v
      /\ v["source"] = p[2] /\ v["alert"] = TranslatedFields(p[2], raw).alert /\ v["raw"] = raw
  BY DEF translate
<1> HIDE DEF v, raw
<1>5. \A f \in {"source", "alert", "raw"} : f \in DOMAIN m.fields => m.fields[f] = v[f]
  BY <1>3, <1>4
<1> QED
  BY <1>1, <1>4, <1>5 DEF Genuine, raw

\* What is read of a message comes from where the message does.
LEMMA ReadIsGenuine ==
    ASSUME NEW m, Readable(m), Genuine(m.fields)
    PROVE  LET v == from_dict(m).envelope IN
           DOMAIN v = Known /\ Genuine(v) /\ to_dict(from_dict(m)).fields = v
<1> DEFINE v == from_dict(m).envelope
<1>1. v = [f \in Known |-> IF f \in DOMAIN m.fields THEN m.fields[f] ELSE Default[f]]
      /\ to_dict(from_dict(m)).fields = v
  BY DEF from_dict, to_dict, Message
<1>2. /\ {"source", "alert"} \subseteq DOMAIN m.fields
      /\ {"source", "alert", "raw"} \subseteq Known
      /\ Default["raw"] = <<>>
  BY DEF Readable, Required, Known, Default
<1> HIDE DEF v
<1>3. /\ DOMAIN v = Known
      /\ v["source"] = m.fields["source"] /\ v["alert"] = m.fields["alert"]
      /\ v["raw"] = IF "raw" \in DOMAIN m.fields THEN m.fields["raw"] ELSE <<>>
  BY <1>1, <1>2
<1>4. Genuine(v)
  BY <1>2, <1>3 DEF Genuine
<1> QED
  BY <1>1, <1>3, <1>4 DEF v

\* Messages and envelopes go on being genuine: a relay and a consumer change
\* neither a message's id nor whose it is.
LEMMA EnvelopesStep ==
    MessagesInv /\ GraphsInv /\ EnvelopesInv /\ [Next]_vars => EnvelopesInv'
<1> SUFFICES ASSUME MessagesInv, GraphsInv, EnvelopesInv, [Next]_vars PROVE EnvelopesInv'
  OBVIOUS
<1>1. ASSUME envelopes' = envelopes PROVE Emitted' = Emitted
  BY <1>1 DEF Emitted
<1>2. ASSUME NEW p \in Productions, Produce(p) PROVE EnvelopesInv'
  <2> DEFINE now == Cardinality(sent) + 1
             new == Written(translate(p[1], p[2], p[3], now), p[4])
  <2>1. sent' = sent \union {new} /\ relayed' = relayed /\ envelopes' = envelopes
    BY <1>2 DEF Produce
  <2>2. p[2] \in TRANSLATOR_TYPES /\ ~Raises(p[2], Carried(p[2], p[3]))
    BY <1>2 DEF Produce
  <2> HIDE DEF now
  <2>3. Produced(new)
    BY <2>2 DEF Produced
  <2>4. Genuine(new.fields)
    BY <2>3, WrittenIsGenuine
  <2> HIDE DEF new
  <2> QED
    BY <1>1, <2>1, <2>4 DEF EnvelopesInv
<1>3. ASSUME NEW m \in sent \union relayed, Relay(m) PROVE EnvelopesInv'
  <2> DEFINE r == to_dict(from_dict(m))
  <2>1. Readable(m) /\ sent' = sent /\ relayed' = relayed \union {r} /\ envelopes' = envelopes
    BY <1>3 DEF Relay
  <2>2. Genuine(r.fields)
    BY <2>1, ReadIsGenuine DEF EnvelopesInv
  <2> HIDE DEF r
  <2> QED
    BY <1>1, <2>1, <2>2 DEF EnvelopesInv
<1>4. ASSUME NEW m \in sent \union relayed, Consume(m) PROVE EnvelopesInv'
  <2> DEFINE v == from_dict(m).envelope
  <2>1. Readable(m) /\ sent' = sent /\ relayed' = relayed /\ envelopes' = Append(envelopes, v)
    BY <1>4 DEF Consume
  <2>2. DOMAIN v = Known /\ Genuine(v)
    BY <2>1, ReadIsGenuine DEF EnvelopesInv
  <2> HIDE DEF v
  <2>3. Emitted' = Emitted \union {v}
    BY <2>1, AppendEmitted DEF GraphsInv, TodoInv
  <2> QED
    BY <2>1, <2>2, <2>3 DEF EnvelopesInv
<1>5. ASSUME UNCHANGED <<sent, relayed, envelopes>> PROVE EnvelopesInv'
  BY <1>1, <1>5 DEF EnvelopesInv
<1> QED
  BY <1>2, <1>3, <1>4, <1>5 DEF Next, vars

\* Every envelope that was read is what a translator made of a payload.
LEMMA Provenance == Spec => []EnvelopesInv
<1>1. Init => EnvelopesInv
  BY DEF Init, EnvelopesInv, Emitted
<1> QED
  BY <1>1, EnvelopesStep, Messaging, DriverInvariance, PTL DEF Spec

-----------------------------------------------------------------------------

\* A uid tells the tenant, the source and the alert apart.
LEMMA UidsTellApart ==
    ASSUME NEW s, NEW t, NEW q, NEW r, NEW a \in Seq(Part), NEW b \in Seq(Part)
    PROVE  uid(s, node_id_for(q, a)) = uid(t, node_id_for(r, b)) => s = t /\ q = r /\ a = b
<1> DEFINE S == Part \union {s, t, q, r}
           c == <<q>> \o a
           d == <<r>> \o b
<1>1. a \in Seq(S) /\ b \in Seq(S)
  OBVIOUS
<1>2. s \in S /\ t \in S /\ q \in S /\ r \in S
  OBVIOUS
<1> HIDE DEF S
<1>3. Head(c) = q /\ Tail(c) = a /\ Head(d) = r /\ Tail(d) = b
  BY <1>1, <1>2
<1>4. c \in Seq(S) /\ d \in Seq(S)
  BY <1>1, <1>2
<1> HIDE DEF c, d
<1>5. Head(<<s>> \o c) = s /\ Tail(<<s>> \o c) = c
  BY <1>2, <1>4
<1>6. Head(<<t>> \o d) = t /\ Tail(<<t>> \o d) = d
  BY <1>2, <1>4
<1> SUFFICES ASSUME <<s>> \o c = <<t>> \o d PROVE s = t /\ q = r /\ a = b
  BY DEF uid, node_id_for, c, d
<1>7. s = t /\ c = d
  BY <1>5, <1>6
<1> QED
  BY <1>3, <1>7

\* Ends of one length of sequences that are alike are alike, and so is the rest.
LEMMA EndsAlike ==
    ASSUME NEW S, NEW a \in Seq(S), NEW b \in Seq(S), NEW x \in Seq(S), NEW y \in Seq(S),
           Len(x) = Len(y)
    PROVE  a \o x = b \o y => a = b /\ x = y
<1>1. Len(a \o x) = Len(a) + Len(x)
  BY ConcatProperties
<1>2. Len(b \o y) = Len(b) + Len(y)
  BY ConcatProperties
<1>3. Len(a) \in Nat /\ Len(b) \in Nat /\ Len(x) \in Nat
  OBVIOUS
<1>4. \A i \in 1..Len(a) : (a \o x)[i] = a[i]
  OBVIOUS
<1>5. \A i \in 1..Len(b) : (b \o y)[i] = b[i]
  OBVIOUS
<1>6. \A i \in 1..Len(x) : (a \o x)[Len(a) + i] = x[i]
  OBVIOUS
<1>7. \A i \in 1..Len(y) : (b \o y)[Len(b) + i] = y[i]
  OBVIOUS
<1>8. HAVE a \o x = b \o y
<1>9. Len(a) = Len(b)
  BY <1>1, <1>2, <1>3, <1>8
<1>10. \A i \in 1..Len(a) : a[i] = b[i]
  BY <1>4, <1>5, <1>8, <1>9
<1>11. \A i \in 1..Len(x) : x[i] = y[i]
  BY <1>6, <1>7, <1>8, <1>9
<1>12. a = b
  BY <1>9, <1>10
<1>13. x = y
  BY <1>11
<1> QED
  BY <1>12, <1>13

\* A policy ends where the prefix of the host begins.
FleetAlert(policy, prefix) == <<"fleet-policy">> \o policy \o prefix

\* As a prefix is a single part, the id of a Fleet alert gives policy and host.
LEMMA PoliciesTellApart ==
    ASSUME NEW a \in Seq(Part), NEW b \in Seq(Part),
           NEW x \in Seq(Part), NEW y \in Seq(Part), Len(x) = 1, Len(y) = 1
    PROVE  FleetAlert(a, x) = FleetAlert(b, y) => a = b /\ x = y
<1> DEFINE h == <<"fleet-policy">>
<1>1. h \in Seq(Part) /\ Len(h) = 1
  BY PartsAreTexts
<1> HIDE DEF h
<1>2. h \o a \in Seq(Part) /\ h \o b \in Seq(Part)
  BY <1>1
<1>3. Len(x) = Len(y)
  OBVIOUS
<1>4. \A g, k \in Seq(Part) : g \o x = k \o y => g = k /\ x = y
  BY <1>3, EndsAlike
<1>5. h \o a = h \o b => a = b
  <2>1. Tail(h \o a) = a /\ Tail(h \o b) = b
    <3>1. "fleet-policy" \in Part
      BY DEF Part
    <3> QED
      BY <3>1 DEF h
  <2> QED
    BY <2>1
<1>6. FleetAlert(a, x) = h \o a \o x /\ FleetAlert(b, y) = h \o b \o y
  BY DEF FleetAlert, h
<1> QED
  BY <1>2, <1>4, <1>5, <1>6

\* The policy that names a Fleet alert is the one its id is made with.
LEMMA OwnPolicy ==
    ASSUME NEW p, FirstTruthy(p, PolicyFields, Null) # Null
    PROVE  FirstTruthy(p, PolicyFields, Null) = Policy(p)
<1> DEFINE i == Truthy(Get(p, "policy_id", Null))
           n == Truthy(Get(p, "policy_name", Null))
           o == Truthy(Get(p, "policy", Null))
<1>1. o => Get(p, "policy", <<"Unknown policy">>) = p["policy"]
  BY DEF Get, Truthy
<1> HIDE DEF i, n, o
<1>2. FirstTruthy(p, PolicyFields, Null) =
         IF i THEN p["policy_id"] ELSE IF n THEN p["policy_name"] ELSE IF o THEN p["policy"] ELSE Null
  BY FirstOfThree DEF PolicyFields, i, n, o
<1>3. PolicyName(p) = IF n THEN p["policy_name"] ELSE Get(p, "policy", <<"Unknown policy">>)
  <2> DEFINE default == Get(p, "policy", <<"Unknown policy">>)
  <2>1. PolicyName(p) = FirstTruthy(p, <<"policy_name">>, default)
    BY DEF PolicyName
  <2> HIDE DEF default
  <2>2. FirstTruthy(p, <<"policy_name">>, default) = IF n THEN p["policy_name"] ELSE default
    BY FirstOfOne DEF n
  <2> QED
    BY <2>1, <2>2 DEF default
<1>4. Policy(p) = IF i THEN p["policy_id"] ELSE PolicyName(p)
  BY FirstOfOne DEF Policy, i
<1> QED
  BY <1>1, <1>2, <1>3, <1>4

LEMMA NamedByPolicy ==
    ASSUME NEW p, OwnId("fleet", p) # Unknown
    PROVE  OwnId("fleet", p) = <<Policy(p), Prefix[HostUuid(p)]>>
<1> DEFINE own == FirstTruthy(p, PolicyFields, Null)
           prefix == Prefix[HostUuid(p)]
<1>1. own # Null /\ OwnId("fleet", p) = <<own, prefix>>
  BY DEF OwnId
<1>2. own = Policy(p)
  BY <1>1, OwnPolicy
<1> QED
  BY <1>1, <1>2

\* Two payloads of one source of which the same alert is made have the same id,
\* unless it is disguised that they have none.
LEMMA SameAlertSameId ==
    ASSUME NEW source \in TRANSLATOR_TYPES,
           NEW p, Texts(p), ~Disguised(source, p),
           NEW q, Texts(q), ~Disguised(source, q),
           source = "fleet" => HostUuid(p) \in DOMAIN Prefix /\ HostUuid(q) \in DOMAIN Prefix
    PROVE  TranslatedFields(source, p).alert = TranslatedFields(source, q).alert =>
              OwnId(source, p) = OwnId(source, q)
<1>1. CASE source # "fleet"
  BY <1>1, AlertIsOwnId
<1>2. CASE source = "fleet"
  <2> DEFINE x == Prefix[HostUuid(p)]
             y == Prefix[HostUuid(q)]
  <2>1. /\ TranslatedFields(source, p).alert = FleetAlert(Policy(p), x)
        /\ TranslatedFields(source, q).alert = FleetAlert(Policy(q), y)
    BY <1>2 DEF TranslatedFields, Fleet, Fields, FleetAlert
  <2>2. OwnId(source, p) = <<Policy(p), x>> /\ OwnId(source, q) = <<Policy(q), y>>
    BY <1>2, NamedByPolicy DEF Disguised
  <2>3. Policy(p) \in Seq(Part) /\ Policy(q) \in Seq(Part)
    BY PolicyIsText
  <2>4. x \in Seq(Part) /\ y \in Seq(Part) /\ Len(x) = 1 /\ Len(y) = 1
    BY <1>2, PrefixAssumption, StringsAreTexts
  <2> HIDE DEF x, y
  <2>5. FleetAlert(Policy(p), x) = FleetAlert(Policy(q), y) => Policy(p) = Policy(q) /\ x = y
    BY <2>3, <2>4, PoliciesTellApart
  <2> QED
    BY <2>1, <2>2, <2>5
<1> QED
  BY <1>1, <1>2

\* An alert that nothing names, and that is not disguised, is "unknown"; of
\* Fleet's there is none.
LEMMA NoIdIsUnknown ==
    ASSUME NEW source \in TRANSLATOR_TYPES, NEW p, ~Disguised(source, p)
    PROVE  OwnId(source, p) = Unknown => TranslatedFields(source, p).alert \in MissingAlertIds
<1>1. CASE source # "fleet"
  BY <1>1, AlertIsOwnId DEF Unknown, MissingAlertIds
<1>2. CASE source = "fleet"
  BY <1>2 DEF Disguised
<1> QED
  BY <1>1, <1>2

\* What is known of an envelope that was read.
LEMMA EnvelopeIs ==
    ASSUME EnvelopesInv, NEW v \in Emitted
    PROVE  /\ v.source \in TRANSLATOR_TYPES /\ v.alert \in Seq(Part)
           /\ v.raw # <<>> =>
                 /\ Texts(v.raw)
                 /\ v.source = "fleet" => HostUuid(v.raw) \in DOMAIN Prefix
                 /\ v.alert = TranslatedFields(v.source, v.raw).alert
<1>1. DOMAIN v = Known /\ Genuine(v)
  BY DEF EnvelopesInv
<1>2. {"source", "alert", "raw"} \subseteq Known
  BY DEF Known, Required, Default
<1>3. PICK p \in Productions :
        LET raw == Carried(p[2], p[3]) IN
        /\ p[2] \in TRANSLATOR_TYPES /\ ~Raises(p[2], raw)
        /\ v.source = p[2]
        /\ v.alert = TranslatedFields(p[2], raw).alert
        /\ v.raw \in {raw, <<>>}
  BY <1>1, <1>2 DEF Genuine
<1> DEFINE raw == Carried(p[2], p[3])
<1>4. Texts(raw)
  BY PayloadAssumption, StringsAreTexts DEF Texts
<1>5. p[2] = "fleet" => HostUuid(raw) \in DOMAIN Prefix
  BY <1>3, PayloadAssumption DEF Raises
<1>6. v.alert \in Seq(Part)
  BY <1>3, <1>4, <1>5, AlertIsText
<1> QED
  BY <1>3, <1>4, <1>5, <1>6

\* Whatever payloads of whatever sources come in whatever order: alerts that share
\* a Finding carry the same id, and one that nothing names leaves none, unless the
\* translator disguises that nothing does.
THEOREM FindingsApart == Spec => []AlertsKeepApart
<1>1. GraphsInv /\ EnvelopesInv => AlertsKeepApart
  <2> SUFFICES ASSUME GraphsInv, EnvelopesInv PROVE AlertsKeepApart
    OBVIOUS
  <2> DEFINE Named == {v \in Emitted : v.raw # <<>> /\ ~Disguised(v.source, v.raw)}
             Left(v) == <<"Finding", Finding(v)>> \in {n.key : n \in nodes}
  <2>1. ASSUME NEW v \in Emitted, NEW w \in Emitted
        PROVE  Finding(v) = Finding(w) => v.tenant = w.tenant /\ v.source = w.source /\ v.alert = w.alert
    <3>1. v.alert \in Seq(Part) /\ w.alert \in Seq(Part)
      BY EnvelopeIs
    <3> QED
      BY <3>1, UidsTellApart DEF Finding
  <2>2. ASSUME NEW v \in Named PROVE OwnId(v.source, v.raw) = Unknown => ~Left(v)
    <3> SUFFICES ASSUME OwnId(v.source, v.raw) = Unknown, Left(v) PROVE FALSE
      OBVIOUS
    <3>1. v.alert \in MissingAlertIds
      BY EnvelopeIs, NoIdIsUnknown
    <3>2. PICK n \in nodes : n.key = <<"Finding", Finding(v)>>
      OBVIOUS
    <3>3. PICK x \in Emitted : x.alert \notin MissingAlertIds /\ n.key = <<"Finding", Finding(x)>>
      BY <3>2 DEF GraphsInv, FindingsInv
    <3>4. Finding(v) = Finding(x)
      BY <3>2, <3>3
    <3> QED
      BY <2>1, <3>1, <3>3, <3>4
  <2>3. ASSUME NEW v \in Named, NEW w \in Named, Finding(v) = Finding(w)
        PROVE  /\ v.tenant = w.tenant /\ v.source = w.source
               /\ OwnId(v.source, v.raw) = OwnId(w.source, w.raw)
    <3>1. v.tenant = w.tenant /\ v.source = w.source /\ v.alert = w.alert
      BY <2>1, <2>3
    <3>2. /\ v.source \in TRANSLATOR_TYPES /\ Texts(v.raw) /\ Texts(w.raw)
          /\ ~Disguised(v.source, v.raw) /\ ~Disguised(v.source, w.raw)
          /\ v.source = "fleet" => HostUuid(v.raw) \in DOMAIN Prefix /\ HostUuid(w.raw) \in DOMAIN Prefix
          /\ TranslatedFields(v.source, v.raw).alert = TranslatedFields(v.source, w.raw).alert
      BY <3>1, EnvelopeIs
    <3>3. OwnId(v.source, v.raw) = OwnId(v.source, w.raw)
      BY <3>2, SameAlertSameId
    <3> QED
      BY <3>1, <3>3
  <2>4. Named = {v \in {envelopes[i] : i \in DOMAIN envelopes} :
                    v.raw # <<>> /\ ~Disguised(v.source, v.raw)}
    BY DEF Emitted
  <2> HIDE DEF Named
  <2>5. /\ \A v \in Named : OwnId(v.source, v.raw) = Unknown => ~Left(v)
        /\ \A v, w \in Named :
              Left(v) /\ Finding(v) = Finding(w) =>
                 /\ v.tenant = w.tenant /\ v.source = w.source
                 /\ OwnId(v.source, v.raw) = OwnId(w.source, w.raw)
    BY <2>2, <2>3
  <2> QED
    BY <2>4, <2>5, Zenon DEF AlertsKeepApart
<1> QED
  BY <1>1, DriverInvariance, Provenance, PTL
=============================================================================
