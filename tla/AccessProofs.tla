---------------------------- MODULE AccessProofs ----------------------------
(***************************************************************************)
(* Who may act, by which connection, and what leaves: the gate's table,    *)
(* for any catalogue of capabilities and any configuration of the gate;    *)
(* the answers of the connection files, for any files, adapters and edits; *)
(* and what the pass over a payload lets through, for payloads of any      *)
(* shape.  The components share no state; each theorem is of one of them.  *)
(***************************************************************************)
EXTENDS PolicyGate, Connections, Redaction, FiniteSetTheorems, SequenceTheorems, TLAPS

-----------------------------------------------------------------------------
(* PolicyGate. *)

\* The answer is always the table's answer to the request in the same state.
Answered == request \in GateRequest /\ reply = decide(request)

LEMMA AlwaysAnswered == GateSpec => []Answered
<1>1. GateInit => Answered
  BY DEF GateInit, Answered
<1>2. Answered /\ [GateNext]_gateVars => Answered'
  <2> SUFFICES ASSUME Answered, [GateNext]_gateVars PROVE Answered'
    OBVIOUS
  <2>1. CASE AskGate
    <3> SUFFICES ASSUME NEW q, q = request', reply' = decide(q), q \in GateRequest
                 PROVE  Answered'
      BY <2>1 DEF AskGate
    <3> QED  BY DEF Answered, decide, Crosses, Reads, Tripped, CanSign,
                    Deny, Observe, Signed, Hold
  <2>2. CASE UNCHANGED gateVars
    BY <2>2 DEF gateVars, Answered, decide, Crosses, Reads, Tripped, CanSign,
                Deny, Observe, Signed, Hold
  <2> QED  BY <2>1, <2>2 DEF GateNext
<1> QED  BY <1>1, <1>2, PTL DEF GateSpec

\* Type correctness: the gate returns no tier but three of the four, and a
\* window to approve in, or none.
THEOREM TypeCorrect == GateSpec => []TypeOK
<1>1. Answered => TypeOK
  BY DEF Answered, TypeOK, decide, Deny, Observe, Signed, Hold, GateDecision
<1> QED  BY <1>1, AlwaysAnswered, PTL

\* Nothing is allowed across a tenant boundary, and no write without a human's
\* signature or past a tripped breaker, whatever the catalogue says of risk.
THEOREM AllowsAreEarned == GateSpec => []AllowIsEarned
<1>1. Answered => AllowIsEarned
  BY DEF Answered, AllowIsEarned, decide, Deny, Observe, Signed, Hold
<1> QED  BY <1>1, AlwaysAnswered, PTL

\* A request that completes another is permitted no more than it.
LEMMA CompletionNarrows ==
    ASSUME NEW q \in GateRequest, NEW r \in GateRequest, Completes(q, r)
    PROVE  Permits(decide(r)) <= Permits(decide(q))
<1>1. Crosses(q) => Crosses(r)
  BY NoneAssumption DEF Completes, Crosses
<1>2. Tripped(q) => Tripped(r)
  BY NoneAssumption DEF Completes, Tripped
<1>3. (Reads(q) <=> Reads(r)) /\ (CanSign(q) <=> CanSign(r))
  BY DEF Completes, Reads, CanSign
<1>4. Permits(Deny) = 0 /\ Permits(Hold) = 1 /\ Permits(Signed) = 2 /\ Permits(Observe) = 2
  BY DEF Permits, Deny, Hold, Signed, Observe
<1> QED
  BY <1>1, <1>2, <1>3, <1>4 DEF decide

\* Asking again with a signal computed never widens the reply, whatever else
\* the gate and the caller's requests are.
THEOREM ComputingNarrows == GateSpec => SignalsOnlyNarrow
<1>1. Answered /\ Answered' /\ [GateNext]_gateVars =>
        [Completes(request, request') => Permits(reply') <= Permits(reply)]_gateVars
  <2> SUFFICES ASSUME Answered, Answered', Completes(request, request')
               PROVE  Permits(reply') <= Permits(reply)
    OBVIOUS
  <2>1. request \in GateRequest /\ reply = decide(request)
    BY DEF Answered
  <2>2. PICK q : q = request'
    OBVIOUS
  <2>3. PICK a : a = reply'
    OBVIOUS
  <2>4. q \in GateRequest /\ a = decide(q)
    BY <2>2, <2>3 DEF Answered, decide, Crosses, Reads, Tripped, CanSign,
                      Deny, Observe, Signed, Hold
  <2>5. Completes(request, q)
    BY <2>2 DEF Completes
  <2>6. Permits(a) <= Permits(reply)
    BY <2>1, <2>4, <2>5, CompletionNarrows
  <2> QED  BY <2>3, <2>6 DEF Permits
<1> QED  BY <1>1, AlwaysAnswered, PTL DEF GateSpec, SignalsOnlyNarrow

-----------------------------------------------------------------------------
(* Connections.  The invariant ties a provider to what it read: all of it, *)
(* and a file that loads.                                                  *)

\* A provider holds the whole of a file that loads.
HeldInv ==
    /\ held = [a \in Adapters |-> held[a]]
    /\ \A a \in Adapters : held[a] # Nothing =>
          /\ held[a].read \in Contents /\ Loads(held[a].read)
          /\ held[a].connections = Loaded(held[a].read)

\* A configured tenant is its own only spelling.
TenantInv ==
    /\ tenant = [a \in Adapters |-> tenant[a]]
    /\ \A a \in Adapters : tenant[a] # Nothing =>
          Stripped[tenant[a]] = tenant[a] /\ tenant[a] # ""

\* No connection was handed out under another spelling.
ServedInv ==
    answer # Nothing /\ answer.connection # Nothing =>
        Stripped[answer.connection.tenant_id] = answer.connection.tenant_id
        /\ answer.connection.tenant_id # ""

IInv == file \in Contents /\ HeldInv /\ TenantInv /\ ServedInv /\ AnswersAreTheFiles

LEMMA InitInv == Init => IInv
  BY DEF Init, IInv, HeldInv, TenantInv, ServedInv, AnswersAreTheFiles

\* Of a file that loads, a connection is one entry's, and the only one's of its key.
LEMMA EntryOfConnection ==
    ASSUME NEW content, Loads(content), NEW c \in Loaded(content)
    PROVE  \E i \in EntriesFor(content, c.tool, c.tenant_id, c.product) :
              /\ EntriesFor(content, c.tool, c.tenant_id, c.product) = {i}
              /\ c = ToolConnection(content[i][2])
<1> DEFINE entries == EntriesFor(content, c.tool, c.tenant_id, c.product)
<1>1. PICK i \in DOMAIN content : c = ToolConnection(content[i][2])
  BY DEF Loaded
<1>2. i \in entries
  BY <1>1 DEF ToolConnection, EntriesFor
<1>3. ASSUME NEW j \in entries PROVE j = i
  <2>1. j \in DOMAIN content /\ Key(ToolConnection(content[j][2])) = <<c.tool, c.tenant_id, c.product>>
    BY <1>3 DEF EntriesFor, ToolConnection, Key
  <2>2. Key(ToolConnection(content[i][2])) = <<c.tool, c.tenant_id, c.product>>
    BY <1>1 DEF Key
  <2> QED
    BY <2>1, <2>2 DEF Loads
<1>4. entries = {i}
  BY <1>2, <1>3
<1> QED
  BY <1>1, <1>2, <1>4

\* A connection may write only where its entry says so.
LEMMA AccessIsGiven ==
    ASSUME NEW e, ToolConnection(e).credential.access = "read_write"
    PROVE  /\ "access" \in DOMAIN e["credential"][2]
           /\ Text(e["credential"][2], "access") = "read_write"
  BY DEF ToolConnection, AccessOf

LEMMA EditInv == ASSUME IInv, NEW content \in Contents, Edit(content) PROVE IInv'
  BY DEF IInv, Edit, HeldInv, TenantInv, ServedInv, AnswersAreTheFiles

LEMMA ConstructInv == ASSUME IInv, NEW a \in Adapters, Construct(a) PROVE IInv'
<1>1. HeldInv'
  BY DEF IInv, Construct, HeldInv
<1>2. file' \in Contents /\ TenantInv' /\ ServedInv' /\ AnswersAreTheFiles'
  BY DEF IInv, Construct, TenantInv, ServedInv, AnswersAreTheFiles
<1> QED
  BY <1>1, <1>2 DEF IInv

LEMMA ConfigureInv ==
    ASSUME IInv, NEW a \in Adapters, NEW token \in Values, NEW config \in Values,
           Configure(a, token, config)
    PROVE  IInv'
<1> DEFINE t == Resolved(token, config)
<1>1. Stripped[t] = t /\ t # ""
  BY DEF Configure, Resolves, Resolved, IsTenant, Blank
<1>2. TenantInv'
  BY <1>1 DEF IInv, Configure, TenantInv
<1>3. file' \in Contents /\ HeldInv' /\ ServedInv' /\ AnswersAreTheFiles'
  BY DEF IInv, Configure, HeldInv, ServedInv, AnswersAreTheFiles
<1> QED
  BY <1>2, <1>3 DEF IInv

LEMMA AskInv == ASSUME IInv, NEW a \in Adapters, NEW tool \in Tools, Ask(a, tool) PROVE IInv'
<1> DEFINE read == held[a].read
           product == ProductOf[a]
           found == {c \in held[a].connections : Key(c) = <<tool, tenant[a], product>>}
           entries == EntriesFor(read, tool, tenant[a], product)
<1>1. held[a] # Nothing /\ UNCHANGED <<file, held, tenant>>
  BY DEF Ask
<1>2. read \in Contents /\ Loads(read) /\ held[a].connections = Loaded(read)
  BY <1>1 DEF IInv, HeldInv
<1>3. /\ answer'.read = read /\ answer'.tool = tool /\ answer'.tenant = tenant[a]
      /\ answer'.adapter = a
      /\ answer'.connection \in found \/ (found = {} /\ answer'.connection = Nothing)
  BY DEF Ask, Returned
<1>4. AnswersAreTheFiles'
  <2>1. CASE answer'.connection \in found
    <3> DEFINE c == answer'.connection
    <3>1. c \in Loaded(read) /\ c.tool = tool /\ c.tenant_id = tenant[a] /\ c.product = product
      BY <1>2, <2>1 DEF Key
    <3>2. PICK i \in entries : entries = {i} /\ c = ToolConnection(read[i][2])
      BY <1>2, <3>1, EntryOfConnection
    <3>3. /\ c.endpoint = Text(read[i][2], "endpoint")
          /\ c.credential.name = Text(read[i][2]["credential"][2], "name")
      BY <3>2 DEF ToolConnection
    <3>4. c.credential.access = "read_write" =>
             /\ "access" \in DOMAIN read[i][2]["credential"][2]
             /\ Text(read[i][2]["credential"][2], "access") = "read_write"
      BY <3>2, AccessIsGiven
    <3>5. c # Nothing
      BY <1>2, <3>1, NothingAssumption
    <3> QED
      BY <1>3, <3>2, <3>3, <3>4, <3>5 DEF AnswersAreTheFiles
  <2>2. CASE found = {} /\ answer'.connection = Nothing
    <3>1. ASSUME NEW i \in entries PROVE FALSE
      <4>1. /\ i \in DOMAIN read
            /\ Key(ToolConnection(read[i][2])) = <<tool, tenant[a], product>>
        BY <3>1 DEF EntriesFor, ToolConnection, Key
      <4>2. ToolConnection(read[i][2]) \in held[a].connections
        BY <1>2, <4>1 DEF Loaded
      <4> QED
        BY <2>2, <4>1, <4>2
    <3>2. entries = {}
      BY <3>1
    <3> QED
      BY <1>3, <2>2, <3>2 DEF AnswersAreTheFiles
  <2> QED
    BY <1>3, <2>1, <2>2
<1>5. ServedInv'
  <2>1. Stripped[tenant[a]] = tenant[a] /\ tenant[a] # ""
    BY DEF Ask, IInv, TenantInv
  <2>2. answer'.connection # Nothing => answer'.connection.tenant_id = tenant[a]
    BY <1>3 DEF Key
  <2> QED
    BY <2>1, <2>2 DEF ServedInv
<1> QED
  BY <1>1, <1>4, <1>5 DEF IInv, HeldInv, TenantInv

LEMMA StepInv == IInv /\ [Next]_vars => IInv'
<1> SUFFICES ASSUME IInv, [Next]_vars PROVE IInv'
  OBVIOUS
<1>1. CASE Next
  BY <1>1, EditInv, ConstructInv, ConfigureInv, AskInv DEF Next
<1>2. CASE UNCHANGED vars
  BY <1>2 DEF vars, IInv, HeldInv, TenantInv, ServedInv, AnswersAreTheFiles
<1> QED
  BY <1>1, <1>2

-----------------------------------------------------------------------------

\* What a provider holds, and what tenants there are, in every state.
THEOREM Invariance == Spec => []IInv
  BY InitInv, StepInv, PTL DEF Spec

\* However files are edited, an answer is what the one entry for its key says in
\* the file that was read.
THEOREM AnswersCorrect == Spec => []AnswersAreTheFiles
<1>1. IInv => AnswersAreTheFiles
  BY DEF IInv
<1> QED
  BY <1>1, Invariance, PTL

\* No tenant goes by two spellings, whatever its adapters were configured with
\* and whatever the files say.
THEOREM SpellingsAreOne == Spec => []OneSpellingPerTenant
<1>1. IInv => OneSpellingPerTenant
  BY DEF IInv, TenantInv, ServedInv, OneSpellingPerTenant
<1> QED
  BY <1>1, Invariance, PTL

-----------------------------------------------------------------------------
(* Redaction. *)

\* Induction on the numbers up to a bound, for a set: a number outside of it
\* could be mapped to its predecessor, outside of it too, which the pigeonhole
\* principle forbids.
LEMMA ReachedByOnes ==
    ASSUME NEW L \in Nat, NEW S, 0 \in S, \A n \in 1..L : n - 1 \in S => n \in S
    PROVE  0..L \subseteq S
<1> SUFFICES ASSUME NEW top \in 0..L, top \notin S PROVE FALSE
  OBVIOUS
<1> DEFINE A == {n \in 0..top : n \notin S}
           B == A \ {top}
           below == [n \in A |-> n - 1]
<1>1. IsFiniteSet(0..top) /\ A \subseteq 0..top /\ top \in A
  <2>1. 0 \in Int /\ top \in Int
    OBVIOUS
  <2> QED
    BY <2>1, FS_Interval
<1>2. IsFiniteSet(A)
  BY <1>1, FS_Subset
<1>3. IsFiniteSet(B) /\ Cardinality(B) = Cardinality(A) - 1 /\ Cardinality(A) \in Nat
  BY <1>1, <1>2, FS_RemoveElement, FS_CardinalityType
<1>4. below \in [A -> B]
  <2>1. ASSUME NEW n \in A PROVE n - 1 \in B
    <3>1. n \in 1..L /\ n \in 0..top /\ n \notin S
      OBVIOUS
    <3>2. n - 1 \notin S
      BY <3>1
    <3> QED
      BY <3>1, <3>2
  <2> QED
    BY <2>1
<1>5. Cardinality(B) < Cardinality(A)
  BY <1>3
<1>6. PICK x \in A, y \in A : x # y /\ below[x] = below[y]
  <2> HIDE DEF A, B, below
  <2> QED
    BY <1>2, <1>3, <1>4, <1>5, FS_PigeonHole
<1>7. x \in Int /\ y \in Int /\ below[x] = x - 1 /\ below[y] = y - 1
  OBVIOUS
<1> QED
  BY <1>6, <1>7

\* A path's calls are handed the nearest key among their steps.
LEMMA ParentIsNearest ==
    ASSUME NEW payload \in Payloads, NEW path \in DOMAIN payload
    PROVE  \A n \in 0..Len(path) : parents(payload, path)[n] = Nearest(path, n)
<1> DEFINE L == Len(path)
           Next1(f, n) == IF n = 0 THEN Absent
                          ELSE IF payload[Upto(path, n - 1)].t = "map" THEN path[n].key
                          ELSE ListParent(f[n - 1])
           Solves(f) == f = [n \in 0..L |-> Next1(f, n)]
           nearest == [n \in 0..L |-> Nearest(path, n)]
           p == parents(payload, path)
<1>1. path \in Seq(Step) /\ L \in Nat /\ DOMAIN path = 1..L
  BY PayloadAssumption
<1>2. ASSUME NEW n \in 1..L PROVE nearest[n] = Next1(nearest, n)
  <2> DEFINE F(m) == {i \in 1..m : IsField(path[i])}
  <2>1. payload[Upto(path, n - 1)].t = IF IsField(path[n]) THEN "map" ELSE "list"
    BY <1>1, PayloadAssumption
  <2>2. n - 1 \in 0..L /\ n \in 0..L
    BY <1>1
  <2>3. CASE IsField(path[n])
    <3>1. n \in F(n) /\ \A i \in F(n) : i <= n /\ i \in Int
      BY <2>3
    <3> HIDE DEF F
    <3>2. Max(F(n)) = n
      BY <3>1 DEF Max
    <3> QED
      BY <2>1, <2>2, <2>3, <3>1, <3>2 DEF Nearest, F
  <2>4. CASE ~IsField(path[n])
    <3>1. F(n) = F(n - 1)
      BY <2>4
    <3>2. Nearest(path, n) = Nearest(path, n - 1)
      BY <3>1 DEF Nearest
    <3> QED
      BY <2>1, <2>2, <2>4, <3>2 DEF ListParent
  <2> QED
    BY <2>3, <2>4
<1>3. nearest[0] = Absent
  BY <1>1 DEF Nearest
<1>4. Solves(nearest)
  <2>1. \A n \in 0..L : nearest[n] = Next1(nearest, n)
    BY <1>1, <1>2, <1>3
  <2> QED
    BY <2>1
<1>5. Solves(p)
  <2>1. p = CHOOSE f : Solves(f)
    BY DEF parents
  <2> HIDE DEF p, Solves
  <2> QED
    BY <1>4, <2>1
<1> DEFINE S == {n \in 0..L : p[n] = nearest[n]}
<1>6. 0 \in S
  BY <1>1, <1>3, <1>5
<1>7. ASSUME NEW n \in 1..L, n - 1 \in S PROVE n \in S
  <2>1. n \in 0..L /\ n # 0 /\ p[n - 1] = nearest[n - 1]
    BY <1>1, <1>7
  <2>2. p[n] = Next1(p, n)
    <3> HIDE DEF Next1, p
    <3> QED
      BY <1>5, <2>1
  <2>3. Next1(p, n) = Next1(nearest, n)
    <3> HIDE DEF p, nearest
    <3> QED
      BY <2>1
  <2> QED
    BY <1>2, <2>1, <2>2, <2>3
<1>8. 0..L \subseteq S
  <2> HIDE DEF S
  <2> QED
    BY <1>1, <1>6, <1>7, ReachedByOnes
<1> QED
  BY <1>8

\* The text of a payload: its tail is a sequence of its parts.
Plain(v) == IsText(v) => v = Str(v.head, v.tail) /\ v.tail \in Seq(STRING)

\* What the walk does to a leaf is what its path says.
LEMMA TreatedIs ==
    ASSUME NEW payload \in Payloads, NEW path \in DOMAIN payload, NEW salted
    PROVE  Treated(payload, path, salted) =
              IF UnderKey(path)
              THEN Leaf(KeyOf(path), payload[path], salted, ParentOf(path))
              ELSE Entry(payload[path])
<1>1. path \in Seq(Step) /\ Len(path) \in Nat /\ DOMAIN path = 1..Len(path)
  BY PayloadAssumption
<1>2. CASE path = << >>
  BY <1>2 DEF Treated, UnderKey
<1>3. CASE path # << >>
  <2>1. Len(path) \in 1..Len(path) /\ Len(path) - 1 \in 0..Len(path)
    BY <1>1, <1>3
  <2>2. payload[Above(path)].t = IF IsField(Last(path)) THEN "map" ELSE "list"
    BY <1>1, <2>1, PayloadAssumption DEF Above, Last
  <2>3. parents(payload, path)[Len(path) - 1] = ParentOf(path)
    BY <2>1, ParentIsNearest DEF ParentOf
  <2> QED
    BY <1>3, <2>2, <2>3 DEF Treated, UnderKey, KeyOf
<1> QED
  BY <1>2, <1>3

\* A leaf's entry in the result, and its marks.
LEMMA ResultIs ==
    ASSUME NEW payload, NEW path \in Leaves(payload), NEW salted
    PROVE  LET result == redact(payload, salted)
               treated == Treated(payload, path, salted)
           IN  /\ result.payload[path] = treated.value
               /\ MarksOf(result, path) = {treated.mark} \ {Absent}
               /\ \A mark : mark \in MarksOf(result, path) => <<path, mark>> \in result.marks
<1> DEFINE result == redact(payload, salted)
           T(q) == Treated(payload, q, salted)
           M == {<<q, T(q).mark>> : q \in Leaves(payload)} \ {<<q, Absent>> : q \in Leaves(payload)}
<1>1. result.payload[path] = T(path).value
  BY DEF redact, Leaves
<1>2. result.marks = M
  BY DEF redact
<1> HIDE DEF T, result
<1>3. ASSUME NEW mark PROVE <<path, mark>> \in M <=> mark \in {T(path).mark} \ {Absent}
  OBVIOUS
<1>4. \A m \in M : m = <<m[1], m[2]>>
  OBVIOUS
<1> HIDE DEF M
<1>5. \A mark : mark \in MarksOf(result, path) <=> <<path, mark>> \in M
  BY <1>2, <1>4 DEF MarksOf
<1>6. MarksOf(result, path) = {T(path).mark} \ {Absent}
  BY <1>3, <1>5
<1>7. \A mark : mark \in MarksOf(result, path) => <<path, mark>> \in result.marks
  BY <1>2, <1>5
<1> QED
  BY <1>1, <1>6, <1>7 DEF T, result

\* Searching a text leaves a text, empty only if it was, and its head unless a
\* match begins there; no pattern fires in it any more.
LEMMA TextBecomes ==
    ASSUME NEW v, IsText(v), Plain(v)
    PROVE  LET after == redact_text(v) IN
           /\ IsText(after) /\ ~Fires(after)
           /\ IsEmpty(after) <=> IsEmpty(v)
           /\ ~Opens(v) => after.head = v.head
<1>1. v.tail \in Seq(STRING) /\ v = Str(v.head, v.tail)
  BY DEF Plain
<1>2. ASSUME NEW s PROVE Strip(s) # "credential"
  BY DEF Strip
<1>3. CASE v.head \notin OpenHeads
  <2> DEFINE tail == [k \in DOMAIN v.tail |-> Strip(v.tail[k])]
  <2>1. redact_text(v) = Str(Strip(v.head), tail)
    BY <1>3 DEF redact_text
  <2>2. tail = << >> <=> v.tail = << >>
    BY <1>1
  <2>3. \A k \in DOMAIN tail : tail[k] # "credential"
    BY <1>2
  <2>4. /\ Strip(v.head) = Absent <=> v.head = Absent
        /\ Strip(v.head) \notin {"credential", "open", "uri/open"}
        /\ ~Opens(v) => Strip(v.head) = v.head
    BY <1>3 DEF Strip, Absent, Opens, OpenHeads
  <2> HIDE DEF tail
  <2> QED
    BY <1>1, <2>1, <2>2, <2>3, <2>4 DEF Str, IsText, IsEmpty, Fires, Opens, OpenHeads
<1>4. CASE v.head \in OpenHeads
  <2> DEFINE tail == [k \in {1} \union DOMAIN v.tail |->
                         IF k = 1 THEN "[REDACTED]" ELSE Strip(v.tail[k])]
  <2>1. redact_text(v) = Str(Before(v.head), tail)
    BY <1>4 DEF redact_text
  <2>2. 1 \in DOMAIN tail /\ \A k \in DOMAIN tail : tail[k] # "credential"
    BY <1>2
  <2>3. tail # << >>
    BY <2>2
  <2>4. /\ v.head # Absent /\ Opens(v)
        /\ Before(v.head) \notin {"credential", "open", "uri/open"}
    BY <1>4 DEF Before, Absent, Opens, OpenHeads
  <2> HIDE DEF tail
  <2> QED
    BY <1>1, <2>1, <2>2, <2>3, <2>4 DEF Str, IsText, IsEmpty, Fires, Opens, OpenHeads
<1> QED
  BY <1>3, <1>4

\* A value that is searched keeps its shape, and is marked when it changes.
LEMMA EntryKeeps ==
    ASSUME NEW v, Plain(v)
    PROVE  LET after == Entry(v) IN
           /\ after.value.t = v.t
           /\ ~IsText(v) => after.value = v
           /\ IsText(v) => /\ IsEmpty(after.value) <=> IsEmpty(v)
                           /\ after.value.head # v.head => Opens(v)
           /\ after.mark = IF after.value # v THEN "secret" ELSE Absent
<1>1. CASE ~IsText(v)
  BY <1>1 DEF Entry, Kept
<1>2. CASE IsText(v)
  <2>1. Entry(v) = [value |-> redact_text(v),
                    mark |-> IF redact_text(v) # v THEN "secret" ELSE Absent]
    BY <1>2 DEF Entry, Searched
  <2> QED
    BY <1>2, <2>1, TextBecomes DEF IsText
<1> QED
  BY <1>1, <1>2

\* Pseudonymising keeps the head of a reference, and a name never becomes empty.
LEMMA PseudonymKeeps ==
    ASSUME NEW v, IsText(v), Plain(v), ~IsEmpty(v), NEW kind
    PROVE  LET after == pseudonymise_preserving_shape(v, kind) IN
           /\ IsText(after) /\ ~IsEmpty(after) /\ after.head = v.head
<1>1. v.tail \in Seq(STRING) /\ v = Str(v.head, v.tail)
  BY DEF Plain
<1>2. CASE v.head # Absent /\ v.tail = << >>
  BY <1>2 DEF pseudonymise_preserving_shape
<1>3. CASE ~(v.head # Absent /\ v.tail = << >>)
  <2> DEFINE tail == <<kind, "hash">> \o v.tail
  <2>1. tail # << >>
    BY <1>1
  <2>2. pseudonymise_preserving_shape(v, kind) = Str(v.head, tail)
    BY <1>3 DEF pseudonymise_preserving_shape, pseudonymise
  <2> HIDE DEF tail
  <2> QED
    BY <2>1, <2>2 DEF Str, IsText, IsEmpty
<1> QED
  BY <1>2, <1>3

\* What _leaf does to a value whose key is not secret, and which mark it gives.
LEMMA LeafKeeps ==
    ASSUME NEW v, Plain(v), NEW key, NEW salted, NEW parent
    PROVE  LET class == classify_key(key, parent)
               after == Leaf(key, v, salted, parent)
           IN  /\ class # "secret" =>
                     /\ after.value.t = v.t
                     /\ ~IsText(v) => after.value = v
                     /\ IsText(v) => /\ IsEmpty(after.value) <=> IsEmpty(v)
                                     /\ after.value.head # v.head =>
                                           Opens(v) /\ ~(salted /\ class = "confidential")
               /\ after.value # v =>
                     after.mark = IF class = "confidential" THEN "confidential" ELSE "secret"
<1> DEFINE class == classify_key(key, parent)
           pseudonym == pseudonymise_preserving_shape(v, Kind(key))
           after == Leaf(key, v, salted, parent)
<1>1. CASE class = "secret"
  BY <1>1 DEF Leaf
<1>2. CASE class = "confidential" /\ IsText(v) /\ ~IsEmpty(v)
  <2>1. after.mark = "confidential" /\ after.value = IF salted THEN pseudonym ELSE redact_text(v)
    BY <1>2 DEF Leaf
  <2>2. IsText(pseudonym) /\ ~IsEmpty(pseudonym) /\ pseudonym.head = v.head
    BY <1>2, PseudonymKeeps
  <2>3. /\ redact_text(v).t = v.t /\ ~IsEmpty(redact_text(v))
        /\ redact_text(v).head # v.head => Opens(v)
    BY <1>2, TextBecomes DEF IsText
  <2> HIDE DEF pseudonym
  <2> QED
    BY <1>2, <2>1, <2>2, <2>3 DEF IsText
<1>3. CASE class # "secret" /\ ~(class = "confidential" /\ IsText(v) /\ ~IsEmpty(v))
  <2>1. after = Entry(v)
    BY <1>3 DEF Leaf
  <2>2. class = "confidential" => Entry(v).value = v
    <3>1. CASE ~IsText(v)
      BY <3>1, EntryKeeps
    <3>2. CASE IsText(v) /\ IsEmpty(v)
      <4>1. v = Str(Absent, << >>)
        BY <3>2 DEF IsEmpty
      <4>2. IsEmpty(Entry(v).value)
        BY <3>2, EntryKeeps
      <4> QED
        BY <4>1, <4>2 DEF IsEmpty
    <3> QED
      BY <1>3, <3>1, <3>2
  <2>3. Entry(v).mark = IF Entry(v).value # v THEN "secret" ELSE Absent
    BY EntryKeeps
  <2>4. /\ Entry(v).value.t = v.t
        /\ ~IsText(v) => Entry(v).value = v
        /\ IsText(v) => /\ IsEmpty(Entry(v).value) <=> IsEmpty(v)
                        /\ Entry(v).value.head # v.head => Opens(v)
    BY EntryKeeps
  <2>5. Entry(v).value.head # v.head => class # "confidential"
    BY <2>2
  <2> QED
    BY <1>3, <2>1, <2>2, <2>3, <2>4, <2>5
<1>4. \/ class = "secret"
      \/ class = "confidential" /\ IsText(v) /\ ~IsEmpty(v)
      \/ class # "secret" /\ ~(class = "confidential" /\ IsText(v) /\ ~IsEmpty(v))
  <2> HIDE DEF class
  <2> QED
    OBVIOUS
<1> QED
  BY <1>1, <1>2, <1>3, <1>4, Zenon

\* In a value that is searched no pattern fires any more.
LEMMA EntryCleans ==
    ASSUME NEW v, Plain(v)
    PROVE  ~Fires(Entry(v).value)
<1>1. CASE ~IsText(v)
  BY <1>1 DEF Entry, Kept, Fires
<1>2. CASE IsText(v)
  BY <1>2, TextBecomes DEF Entry, Searched
<1> QED
  BY <1>1, <1>2

\* The value of a confidential text, where there is a salt.
Pseudonym(v, kind) == IF v.tail = << >> THEN v ELSE Str(v.head, pseudonymise(v.tail, kind))

\* Both branches of pseudonymise_preserving_shape, and the empty text, in one.
LEMMA NameBecomes ==
    ASSUME NEW v, IsText(v), Plain(v), NEW key, NEW parent,
           classify_key(key, parent) = "confidential"
    PROVE  Leaf(key, v, TRUE, parent).value = Pseudonym(v, Kind(key))
<1> DEFINE kind == Kind(key)
<1>1. v = Str(v.head, v.tail) /\ v.tail \in Seq(STRING)
  BY DEF Plain
<1>2. CASE IsEmpty(v)
  <2>1. v = Str(Absent, << >>) /\ v.tail = << >>
    BY <1>2 DEF IsEmpty, Str
  <2>2. Leaf(key, v, TRUE, parent).value = Entry(v).value
    BY <1>2 DEF Leaf
  <2>3. IsEmpty(Entry(v).value)
    BY <1>2, EntryKeeps
  <2> QED
    BY <2>1, <2>2, <2>3 DEF IsEmpty, Pseudonym
<1>3. CASE ~IsEmpty(v)
  <2>1. Leaf(key, v, TRUE, parent).value = pseudonymise_preserving_shape(v, kind)
    BY <1>3 DEF Leaf
  <2>2. v.tail = << >> => v.head # Absent
    BY <1>1, <1>3 DEF IsEmpty
  <2> HIDE DEF kind
  <2> QED
    BY <2>1, <2>2 DEF pseudonymise_preserving_shape, Pseudonym, kind
<1> QED
  BY <1>2, <1>3

\* Under one kind, two names become one only when they were one.
LEMMA PseudonymsDiffer ==
    ASSUME NEW v, IsText(v), Plain(v), NEW w, IsText(w), Plain(w), NEW kind,
           Pseudonym(v, kind) = Pseudonym(w, kind)
    PROVE  v = w
<1> DEFINE P(x) == <<kind, "hash">> \o x.tail
<1>1. /\ v.tail \in Seq(STRING) /\ w.tail \in Seq(STRING)
      /\ v = Str(v.head, v.tail) /\ w = Str(w.head, w.tail)
  BY DEF Plain
<1>2. P(v) # << >> /\ P(w) # << >>
  BY <1>1
<1>3. P(v) = P(w) => v.tail = w.tail
  <2> SUFFICES ASSUME P(v) = P(w) PROVE v.tail = w.tail
    OBVIOUS
  <2>1. Len(v.tail) = Len(w.tail)
    BY <1>1
  <2>2. ASSUME NEW i \in 1..Len(v.tail) PROVE v.tail[i] = w.tail[i]
    <3>1. P(v)[i + 2] = v.tail[i] /\ P(w)[i + 2] = w.tail[i]
      BY <1>1, <2>1
    <3> QED
      BY <3>1
  <2> QED
    BY <1>1, <2>1, <2>2, SeqEqual
<1>4. /\ Pseudonym(v, kind) = IF v.tail = << >> THEN v ELSE Str(v.head, P(v))
      /\ Pseudonym(w, kind) = IF w.tail = << >> THEN w ELSE Str(w.head, P(w))
  BY DEF Pseudonym, pseudonymise
<1> HIDE DEF P
<1>5. ASSUME NEW h1, NEW t1, NEW h2, NEW t2, Str(h1, t1) = Str(h2, t2) PROVE h1 = h2 /\ t1 = t2
  BY <1>5 DEF Str
<1>6. CASE v.tail = << >> /\ w.tail = << >>
  BY <1>4, <1>6
<1>7. CASE v.tail = << >> /\ w.tail # << >>
  <2>1. Str(v.head, v.tail) = Str(w.head, P(w))
    BY <1>1, <1>4, <1>7
  <2>2. v.tail = P(w)
    BY <1>5, <2>1
  <2> QED
    BY <1>2, <1>7, <2>2
<1>8. CASE v.tail # << >> /\ w.tail = << >>
  <2>1. Str(v.head, P(v)) = Str(w.head, w.tail)
    BY <1>1, <1>4, <1>8
  <2>2. P(v) = w.tail
    BY <1>5, <2>1
  <2> QED
    BY <1>2, <1>8, <2>2
<1>9. CASE v.tail # << >> /\ w.tail # << >>
  <2>1. Str(v.head, P(v)) = Str(w.head, P(w))
    BY <1>4, <1>9
  <2>2. v.head = w.head /\ P(v) = P(w)
    BY <1>5, <2>1
  <2> QED
    BY <1>1, <1>3, <2>2
<1> QED
  BY <1>6, <1>7, <1>8, <1>9

\* What the pass makes of one leaf: how the rules of _leaf reach it.
LEMMA LeafBecomes ==
    ASSUME NEW payload \in Payloads, NEW path \in Leaves(payload), NEW salted
    PROVE  LET result == redact(payload, salted)
               before == payload[path]
               after == result.payload[path]
           IN  /\ ClassOf(path) # "secret" =>
                     /\ after.t = before.t
                     /\ ~IsText(before) => after = before
                     /\ IsText(before) => /\ IsEmpty(after) <=> IsEmpty(before)
                                          /\ after.head # before.head =>
                                                Opens(before) /\ ~(salted /\ ClassOf(path) = "confidential")
               /\ after # before =>
                     MarksOf(result, path) =
                        {IF ClassOf(path) = "confidential" THEN "confidential" ELSE "secret"}
<1> DEFINE before == payload[path]
           treated == Treated(payload, path, salted)
<1>1. path \in DOMAIN payload /\ Plain(before)
  BY PayloadAssumption DEF Leaves, Plain
<1>2. /\ ClassOf(path) # "secret" =>
            /\ treated.value.t = before.t
            /\ ~IsText(before) => treated.value = before
            /\ IsText(before) => /\ IsEmpty(treated.value) <=> IsEmpty(before)
                                 /\ treated.value.head # before.head =>
                                       Opens(before) /\ ~(salted /\ ClassOf(path) = "confidential")
      /\ treated.value # before =>
            treated.mark = IF ClassOf(path) = "confidential" THEN "confidential" ELSE "secret"
  <2>1. CASE UnderKey(path)
    <3>1. treated = Leaf(KeyOf(path), before, salted, ParentOf(path))
      BY <1>1, <2>1, TreatedIs
    <3>2. ClassOf(path) = classify_key(KeyOf(path), ParentOf(path))
      BY <2>1 DEF ClassOf
    <3> HIDE DEF before, treated
    <3> QED
      BY <1>1, <3>1, <3>2, LeafKeeps
  <2>2. CASE ~UnderKey(path)
    <3>1. treated = Entry(before)
      BY <1>1, <2>2, TreatedIs
    <3>2. ClassOf(path) = "public"
      BY <2>2 DEF ClassOf
    <3> HIDE DEF before, treated
    <3> QED
      BY <1>1, <3>1, <3>2, EntryKeeps
  <2> QED
    BY <2>1, <2>2
<1>3. /\ redact(payload, salted).payload[path] = treated.value
      /\ MarksOf(redact(payload, salted), path) = {treated.mark} \ {Absent}
  BY ResultIs
<1>4. "confidential" # Absent /\ "secret" # Absent
  BY DEF Absent
<1>5. treated.value # before =>
        MarksOf(redact(payload, salted), path) =
           {IF ClassOf(path) = "confidential" THEN "confidential" ELSE "secret"}
  <2> HIDE DEF treated, before
  <2> QED
    BY <1>2, <1>3, <1>4
<1> QED
  BY <1>2, <1>3, <1>5

\* What the pass makes of a confidential text.
LEMMA NamedBecomes ==
    ASSUME NEW payload \in Payloads, NEW path \in Named(payload)
    PROVE  /\ IsText(payload[path]) /\ Plain(payload[path])
           /\ redact(payload, TRUE).payload[path] = Pseudonym(payload[path], Kind(KeyOf(path)))
<1>1. /\ path \in Leaves(payload) /\ path \in DOMAIN payload
      /\ ClassOf(path) = "confidential" /\ IsText(payload[path])
  BY DEF Named, Leaves
<1>2. UnderKey(path) /\ classify_key(KeyOf(path), ParentOf(path)) = "confidential"
  BY <1>1 DEF ClassOf
<1>3. redact(payload, TRUE).payload[path] = Treated(payload, path, TRUE).value
  BY <1>1, ResultIs
<1>4. Plain(payload[path])
  BY <1>1, PayloadAssumption DEF Plain
<1>5. Treated(payload, path, TRUE) = Leaf(KeyOf(path), payload[path], TRUE, ParentOf(path))
  BY <1>1, <1>2, TreatedIs
<1>6. Leaf(KeyOf(path), payload[path], TRUE, ParentOf(path)).value =
         Pseudonym(payload[path], Kind(KeyOf(path)))
  BY <1>1, <1>2, <1>4, NameBecomes
<1> QED
  BY <1>1, <1>3, <1>4, <1>5, <1>6

\* What the inner sink took is what the pass makes of the payload beside it,
\* with the sink's own salt, and its secrets were seen.
Taken == {[raw |-> payload, result |-> redact(payload, hasSalt)] : payload \in Payloads}

SinkInv ==
    /\ handed \in Seq(Taken)
    /\ \A n \in DOMAIN handed : \A path :
          <<path, "secret">> \in handed[n].result.marks => path \in seen

\* An emit hands over what it marked only after it has noted the secrets.
THEOREM SinkInvariance == SinkSpec => []SinkInv
<1>1. SinkInit => SinkInv
  BY DEF SinkInit, SinkInv
<1>2. SinkInv /\ [SinkNext]_sinkVars => SinkInv'
  <2> SUFFICES ASSUME SinkInv, [SinkNext]_sinkVars PROVE SinkInv'
    OBVIOUS
  <2>1. ASSUME NEW payload \in Payloads, NEW raises \in BOOLEAN, emit(payload, raises)
        PROVE  SinkInv'
    <3> DEFINE result == redact(payload, hasSalt)
               new == [raw |-> payload, result |-> result]
    <3>1. /\ hasSalt' = hasSalt
          /\ seen' = seen \union {m[1] : m \in {x \in result.marks : x[2] = "secret"}}
          /\ handed' = IF raises THEN handed ELSE Append(handed, new)
      BY <2>1 DEF emit
    <3>2. Taken' = Taken /\ new \in Taken
      BY <3>1 DEF Taken
    <3> HIDE DEF result
    <3>3. \A path : <<path, "secret">> \in result.marks => path \in seen'
      <4> SUFFICES ASSUME NEW path, <<path, "secret">> \in result.marks PROVE path \in seen'
        OBVIOUS
      <4> DEFINE m == <<path, "secret">>
      <4>1. m \in {x \in result.marks : x[2] = "secret"} /\ m[1] = path
        OBVIOUS
      <4> HIDE DEF m
      <4> QED
        BY <3>1, <4>1
    <3>4. handed' \in Seq(Taken)
      BY <3>1, <3>2 DEF SinkInv
    <3>5. ASSUME NEW n \in DOMAIN handed' PROVE (n \in DOMAIN handed /\ handed'[n] = handed[n]) \/ handed'[n] = new
      <4> HIDE DEF new
      <4> QED
        BY <3>1, <3>2, <3>5 DEF SinkInv
    <3>6. seen \subseteq seen'
      BY <3>1
    <3>7. new.result = result
      OBVIOUS
    <3> HIDE DEF new
    <3> QED
      BY <3>2, <3>3, <3>4, <3>5, <3>6, <3>7 DEF SinkInv
  <2>2. CASE UNCHANGED sinkVars
    BY <2>2 DEF sinkVars, SinkInv, Taken
  <2> QED
    BY <2>1, <2>2 DEF SinkNext
<1> QED
  BY <1>1, <1>2, PTL DEF SinkSpec

\* An entry of what was handed over.
LEMMA HandedIs ==
    ASSUME SinkInv, NEW n \in DOMAIN handed
    PROVE  /\ handed[n].raw \in Payloads
           /\ handed[n].result = redact(handed[n].raw, hasSalt)
<1>1. handed[n] \in Taken
  BY DEF SinkInv
<1> QED
  BY <1>1 DEF Taken

\* However lists and maps are nested in a payload, each leaf under a key is
\* treated by that key and the nearest one above it; of an entry of a list, which
\* has none, no more than that no pattern fires in it any more.
THEOREM PathsDecide == SinkSpec => []TreatedByPath
<1>1. SinkInv => TreatedByPath
  <2> SUFFICES ASSUME SinkInv, NEW n \in DOMAIN handed, NEW path \in Leaves(handed[n].raw)
               PROVE  LET raw == handed[n].raw  result == handed[n].result IN
                      IF UnderKey(path)
                      THEN LET expected == Leaf(KeyOf(path), raw[path], hasSalt, ParentOf(path)) IN
                           /\ result.payload[path] = expected.value
                           /\ MarksOf(result, path) = {expected.mark} \ {Absent}
                      ELSE ~Fires(result.payload[path])
    BY DEF TreatedByPath
  <2>1. handed[n].raw \in Payloads /\ handed[n].result = redact(handed[n].raw, hasSalt)
    BY HandedIs
  <2>2. path \in DOMAIN handed[n].raw /\ Plain(handed[n].raw[path])
    BY <2>1, PayloadAssumption DEF Leaves, Plain
  <2>3. CASE UnderKey(path)
    <3>1. Treated(handed[n].raw, path, hasSalt) =
              Leaf(KeyOf(path), handed[n].raw[path], hasSalt, ParentOf(path))
      BY <2>1, <2>2, <2>3, TreatedIs
    <3> QED
      BY <2>1, <2>3, <3>1, ResultIs
  <2>4. CASE ~UnderKey(path)
    <3>1. Treated(handed[n].raw, path, hasSalt) = Entry(handed[n].raw[path])
      BY <2>1, <2>2, <2>4, TreatedIs
    <3>2. handed[n].result.payload[path] = Entry(handed[n].raw[path]).value
      BY <2>1, <3>1, ResultIs
    <3> QED
      BY <2>2, <2>4, <3>2, EntryCleans
  <2> QED
    BY <2>3, <2>4
<1> QED
  BY <1>1, SinkInvariance, PTL

\* The pass changes no key and no nesting and, of a value that is not secret,
\* neither its type nor whether it is empty; a reference loses its head only with
\* a match that begins there.
THEOREM StructureIsKept == SinkSpec => []StructureKept
<1>1. SinkInv => StructureKept
  <2> SUFFICES ASSUME SinkInv, NEW n \in DOMAIN handed
               PROVE  LET raw == handed[n].raw  clean == handed[n].result.payload IN
                      /\ DOMAIN raw = DOMAIN clean
                      /\ \A path \in DOMAIN raw : IsContainer(raw[path]) => clean[path] = raw[path]
                      /\ \A path \in Leaves(raw) : ClassOf(path) # "secret" =>
                            LET before == raw[path]  after == clean[path] IN
                            /\ after.t = before.t
                            /\ ~IsText(after) => after = before
                            /\ IsText(after) =>
                                  /\ IsEmpty(after) <=> IsEmpty(before)
                                  /\ after.head # before.head =>
                                        Opens(before) /\ ~(hasSalt /\ ClassOf(path) = "confidential")
    BY DEF StructureKept
  <2> DEFINE raw == handed[n].raw
             clean == handed[n].result.payload
  <2>1. raw \in Payloads /\ handed[n].result = redact(raw, hasSalt)
    BY HandedIs
  <2>2. /\ DOMAIN raw = DOMAIN clean
        /\ \A path \in DOMAIN raw : IsContainer(raw[path]) => clean[path] = raw[path]
    BY <2>1 DEF redact
  <2>3. ASSUME NEW path \in Leaves(raw), ClassOf(path) # "secret"
        PROVE  LET before == raw[path]  after == clean[path] IN
               /\ after.t = before.t
               /\ ~IsText(before) => after = before
               /\ IsText(before) =>
                     /\ IsEmpty(after) <=> IsEmpty(before)
                     /\ after.head # before.head =>
                           Opens(before) /\ ~(hasSalt /\ ClassOf(path) = "confidential")
    BY <2>1, <2>3, LeafBecomes
  <2>4. ASSUME NEW path \in Leaves(raw), ClassOf(path) # "secret"
        PROVE  IsText(clean[path]) <=> IsText(raw[path])
    BY <2>3, <2>4 DEF IsText
  <2> QED
    BY <2>2, <2>3, <2>4
<1> QED
  BY <1>1, SinkInvariance, PTL

\* No value is changed without a mark at its path, and one that is changed under
\* a key that is not confidential is marked as a secret and in secrets_seen.
THEOREM ChangesAreMarked == SinkSpec => []ChangedIsMarked
<1>1. SinkInv => ChangedIsMarked
  <2> SUFFICES ASSUME SinkInv, NEW n \in DOMAIN handed, NEW path \in Leaves(handed[n].raw),
                      handed[n].result.payload[path] # handed[n].raw[path]
               PROVE  IF ClassOf(path) = "confidential"
                      THEN MarksOf(handed[n].result, path) = {"confidential"}
                      ELSE MarksOf(handed[n].result, path) = {"secret"} /\ path \in seen
    BY DEF ChangedIsMarked
  <2>1. handed[n].raw \in Payloads /\ handed[n].result = redact(handed[n].raw, hasSalt)
    BY HandedIs
  <2>2. MarksOf(handed[n].result, path) =
            {IF ClassOf(path) = "confidential" THEN "confidential" ELSE "secret"}
    BY <2>1, LeafBecomes
  <2>3. \A mark : mark \in MarksOf(handed[n].result, path) => <<path, mark>> \in handed[n].result.marks
    BY <2>1, ResultIs
  <2>4. ClassOf(path) # "confidential" => path \in seen
    BY <2>2, <2>3 DEF SinkInv
  <2> QED
    BY <2>2, <2>4
<1> QED
  BY <1>1, SinkInvariance, PTL

\* Nor under a key, unless the value is pseudonymised.
LEMMA LeafCleans ==
    ASSUME NEW v, Plain(v), NEW key, NEW salted, NEW parent,
           classify_key(key, parent) = "confidential" => ~salted
    PROVE  ~Fires(Leaf(key, v, salted, parent).value)
<1> DEFINE class == classify_key(key, parent)
           after == Leaf(key, v, salted, parent)
<1>1. CASE class = "secret"
  <2>1. after.value = Redacted
    BY <1>1 DEF Leaf
  <2> QED
    BY <2>1 DEF Redacted, Fires, Opens, OpenHeads, IsText, Str, Absent
<1>2. CASE class = "confidential" /\ IsText(v) /\ ~IsEmpty(v)
  <2>1. after.value = redact_text(v) /\ Entry(v).value = redact_text(v)
    BY <1>2 DEF Leaf, Entry, Searched
  <2> QED
    BY <2>1, EntryCleans
<1>3. CASE class # "secret" /\ ~(class = "confidential" /\ IsText(v) /\ ~IsEmpty(v))
  <2>1. after = Entry(v)
    BY <1>3 DEF Leaf
  <2> QED
    BY <2>1, EntryCleans
<1> QED
  BY <1>1, <1>2, <1>3, Zenon

\* What is left of credentials: under a secret key nothing but the marker, and
\* no match of a pattern in any text but one that is pseudonymised, whose head
\* stays as it was.  A word that no pattern matches stays where it has no secret
\* key of its own: in the list under one, too.
CredentialsStay ==
    \A n \in DOMAIN handed : \A path \in Leaves(handed[n].raw) :
        LET after == handed[n].result.payload[path] IN
        /\ ClassOf(path) = "secret" => after = Redacted
        /\ (ClassOf(path) = "confidential" => ~hasSalt) => ~Fires(after)

\* A value under a secret key is replaced, whatever it is, and redact_text runs
\* on every other text but those that are pseudonymised.
THEOREM CredentialsAreStripped == SinkSpec => []CredentialsStay
<1>1. SinkInv => CredentialsStay
  <2> SUFFICES ASSUME SinkInv, NEW n \in DOMAIN handed, NEW path \in Leaves(handed[n].raw)
               PROVE  LET after == handed[n].result.payload[path] IN
                      /\ ClassOf(path) = "secret" => after = Redacted
                      /\ (ClassOf(path) = "confidential" => ~hasSalt) => ~Fires(after)
    BY DEF CredentialsStay
  <2> DEFINE raw == handed[n].raw
  <2>1. raw \in Payloads /\ handed[n].result = redact(raw, hasSalt)
    BY HandedIs
  <2>2. path \in DOMAIN raw /\ Plain(raw[path])
    BY <2>1, PayloadAssumption DEF Leaves, Plain
  <2>3. handed[n].result.payload[path] = Treated(raw, path, hasSalt).value
    BY <2>1, ResultIs
  <2>4. CASE UnderKey(path)
    <3>1. ClassOf(path) = classify_key(KeyOf(path), ParentOf(path))
      BY <2>4 DEF ClassOf
    <3>2. handed[n].result.payload[path] =
             Leaf(KeyOf(path), raw[path], hasSalt, ParentOf(path)).value
      BY <2>1, <2>2, <2>3, <2>4, TreatedIs
    <3>3. ClassOf(path) = "secret" => handed[n].result.payload[path] = Redacted
      BY <3>1, <3>2 DEF Leaf
    <3>4. (ClassOf(path) = "confidential" => ~hasSalt) => ~Fires(handed[n].result.payload[path])
      BY <2>2, <3>1, <3>2, LeafCleans
    <3> QED
      BY <3>3, <3>4
  <2>5. CASE ~UnderKey(path)
    <3>1. Treated(raw, path, hasSalt) = Entry(raw[path]) /\ ClassOf(path) = "public"
      BY <2>1, <2>2, <2>5, TreatedIs DEF ClassOf
    <3> QED
      BY <2>2, <2>3, <3>1, EntryCleans
  <2> QED
    BY <2>4, <2>5
<1> QED
  BY <1>1, SinkInvariance, PTL

\* With a salt, values of one kind can still be joined on, and no others are.
THEOREM JoinsSurvive == SinkSpec => []JoinsWithinAKind
<1>1. SinkInv => JoinsWithinAKind
  <2> SUFFICES ASSUME SinkInv, hasSalt, NEW n \in DOMAIN handed, NEW m \in DOMAIN handed,
                      NEW a \in Named(handed[n].raw), NEW b \in Named(handed[m].raw),
                      Kind(KeyOf(a)) = Kind(KeyOf(b))
               PROVE  handed[n].raw[a] = handed[m].raw[b] <=>
                         handed[n].result.payload[a] = handed[m].result.payload[b]
    BY DEF JoinsWithinAKind
  <2>1. hasSalt = TRUE
    OBVIOUS
  <2>2. /\ handed[n].raw \in Payloads /\ handed[n].result = redact(handed[n].raw, TRUE)
        /\ handed[m].raw \in Payloads /\ handed[m].result = redact(handed[m].raw, TRUE)
    BY <2>1, HandedIs
  <2> DEFINE v == handed[n].raw[a]
             w == handed[m].raw[b]
             kind == Kind(KeyOf(a))
  <2>3. IsText(v) /\ Plain(v) /\ handed[n].result.payload[a] = Pseudonym(v, kind)
    BY <2>2, NamedBecomes
  <2>4. IsText(w) /\ Plain(w) /\ handed[m].result.payload[b] = Pseudonym(w, kind)
    BY <2>2, NamedBecomes
  <2> QED
    BY <2>3, <2>4, PseudonymsDiffer
<1> QED
  BY <1>1, SinkInvariance, PTL
=============================================================================
