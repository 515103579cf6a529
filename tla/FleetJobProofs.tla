-------------------------- MODULE FleetJobProofs --------------------------
(***************************************************************************)
(* Proofs about FleetJob, for any hosts, prefixes and page length.         *)
(***************************************************************************)
EXTENDS FleetJob, TLAPS

\* What the history variables record.
HistoryInv ==
    /\ enrolled \subseteq seen
    /\ Device \notin enrolled => gone

\* While check_connectivity asks, it has answered nothing; it asks the query only
\* of a device that was missing, or that a 200 did not name.
CheckInv ==
    /\ step = "checkIdentifier" => met = {}
    /\ step = "checkQuery" => "error" \notin met /\ (gone \/ met # {})
    /\ step \in {"checkIdentifier", "checkQuery"} => connected = "pending"
    /\ connected = "notfound" => "error" \notin met /\ (gone \/ met # {}) /\ step = "done"

\* The job only goes on after an answer that lets it.
GoesOn == connected \in {"reachable", "deferred"}

PathInv ==
    /\ step \in Requests \ {"checkIdentifier", "checkQuery"} => GoesOn
    /\ resolved \in Hosts => GoesOn
    /\ step = "runQuery" => StartsWith(host_id)

\* The hosts the job goes by were there.
SeenInv == {profile, resolved, host_id} \intersect Hosts \subseteq seen

IInv == TypeOK /\ HistoryInv /\ CheckInv /\ PathInv /\ SeenInv

-----------------------------------------------------------------------------

LEMMA InitInv == Init => IInv
<1> SUFFICES ASSUME Init PROVE IInv
  OBVIOUS
<1>1. TypeOK
  BY HostAssumption DEF Init, TypeOK, Found, Requests, Answers
<1>2. HistoryInv /\ CheckInv /\ PathInv /\ SeenInv
  BY PendingAssumption DEF Init, HistoryInv, CheckInv, PathInv, SeenInv, Requests
<1> QED
  BY <1>1, <1>2 DEF IInv

\* A step of Fleet only adds to what was seen, and leaves the job alone.
LEMMA FleetMovesInv == IInv /\ FleetMoves => IInv'
<1> SUFFICES ASSUME IInv, FleetMoves PROVE IInv'
  OBVIOUS
<1> USE DEF IInv
<1>1. CASE HostsMove
  <2>1. PICK h \in Hosts :
          enrolled' = IF h \in enrolled THEN enrolled \ {h} ELSE enrolled \union {h}
    BY <1>1 DEF HostsMove
  <2>2. enrolled' \subseteq Hosts /\ seen' = seen \union enrolled' /\ gone' = (gone \/ Device \notin enrolled')
    BY <1>1, <2>1 DEF HostsMove, TypeOK
  <2>3. UNCHANGED <<stale, holds, uuid_prefix, step, met, connected, profile, resolved, host_id, verdict>>
    BY <1>1 DEF HostsMove
  <2>4. TypeOK'
    BY <2>2, <2>3 DEF TypeOK
  <2>5. HistoryInv' /\ CheckInv' /\ PathInv' /\ SeenInv'
    BY <2>2, <2>3 DEF HistoryInv, CheckInv, PathInv, GoesOn, SeenInv, StartsWith
  <2> QED
    BY <2>4, <2>5
<1>2. CASE HostsChange
  <2>1. stale' \in BOOLEAN /\ holds' \subseteq Hosts
    BY <1>2 DEF HostsChange, TypeOK
  <2>2. UNCHANGED <<enrolled, seen, gone, uuid_prefix, step, met, connected, profile, resolved, host_id, verdict>>
    BY <1>2 DEF HostsChange
  <2>3. TypeOK'
    BY <2>1, <2>2 DEF TypeOK
  <2>4. HistoryInv' /\ CheckInv' /\ PathInv' /\ SeenInv'
    BY <2>2 DEF HistoryInv, CheckInv, PathInv, GoesOn, SeenInv, StartsWith
  <2> QED
    BY <2>3, <2>4
<1> QED
  BY <1>1, <1>2 DEF FleetMoves

\* check_connectivity's answer stops the job or lets it go on.
LEMMA ConnectInv ==
    ASSUME IInv, CheckKeeps, NEW answer \in Answers, Connect(answer),
           step \in {"checkIdentifier", "checkQuery"},
           met' \subseteq Troubles,
           answer = "notfound" => "error" \notin met' /\ (gone \/ met' # {})
    PROVE  IInv'
<1> USE DEF IInv, CheckKeeps, fleet
<1>1. step' \in {"detailsQuery", "done"}
  BY DEF Connect
<1>2. TypeOK'
  BY <1>1 DEF TypeOK, Connect, Requests
<1>3. HistoryInv' /\ SeenInv'
  BY DEF HistoryInv, SeenInv
<1>4. CheckInv'
  BY <1>1 DEF CheckInv, Connect
<1>5. resolved \notin Hosts
  BY DEF CheckInv, PathInv, GoesOn
<1>6. PathInv'
  BY <1>1, <1>5 DEF PathInv, GoesOn, Connect, Answers, Requests
<1> QED
  BY <1>2, <1>3, <1>4, <1>6

LEMMA ReachInv ==
    ASSUME IInv, CheckKeeps, UNCHANGED met, NEW h \in Hosts, Reach(h),
           step \in {"checkIdentifier", "checkQuery"}
    PROVE  IInv'
<1>1. PICK answer \in {"offline", "reachable"} : Connect(answer)
  BY DEF Reach
<1> QED
  BY <1>1, ConnectInv DEF Answers, IInv, TypeOK

\* What a lookup that failed makes of the job: an error lets it go on, and only
\* a silent exception stops it.
LEMMA FailInv ==
    ASSUME IInv, CheckKeeps, Defer \/ Miss, step \in {"checkIdentifier", "checkQuery"}
    PROVE  IInv'
<1>1. CASE Defer
  <2>1. met' \subseteq Troubles /\ Connect("deferred")
    BY <1>1 DEF Defer, Meets, Troubles, IInv, TypeOK
  <2> QED
    BY <2>1, ConnectInv DEF Answers
<1>2. CASE Miss
  <2>1. met' = met \union {"silent"} /\ Connect("notfound")
    BY <1>2 DEF Miss, Meets
  <2>2. met' \subseteq Troubles
    BY <2>1 DEF Troubles, IInv, TypeOK
  <2>3. "error" \notin met' /\ met' # {}
    BY <2>1 DEF IInv, CheckInv
  <2> QED
    BY <2>1, <2>2, <2>3, ConnectInv DEF Answers
<1> QED
  BY <1>1, <1>2

\* The query is asked next.
LEMMA AskInv ==
    ASSUME IInv, CheckKeeps, step = "checkIdentifier", step' = "checkQuery", UNCHANGED connected,
           \/ NoHost \in IdentifierFinds /\ UNCHANGED met
           \/ Meets("blank")
    PROVE  IInv'
<1>1. met = {}
  BY DEF IInv, CheckInv
<1>2. met' \subseteq Troubles /\ "error" \notin met' /\ (gone \/ met' # {})
  <2>1. CASE NoHost \in IdentifierFinds /\ UNCHANGED met
    <3>1. gone
      BY <2>1, HostAssumption DEF IdentifierFinds, IInv, HistoryInv
    <3> QED
      BY <1>1, <2>1, <3>1
  <2>2. CASE Meets("blank")
    BY <1>1, <2>2 DEF Meets, Troubles
  <2> QED
    BY <2>1, <2>2
<1>3. TypeOK'
  BY <1>2 DEF IInv, TypeOK, CheckKeeps, fleet, Requests
<1>4. HistoryInv' /\ CheckInv' /\ PathInv' /\ SeenInv'
  BY <1>2 DEF IInv, HistoryInv, CheckInv, PathInv, SeenInv, GoesOn, StartsWith,
     CheckKeeps, fleet, Requests
<1> QED
  BY <1>3, <1>4 DEF IInv

LEMMA CheckIdentifierInv == IInv /\ CheckIdentifier => IInv'
<1> SUFFICES ASSUME IInv, CheckIdentifier PROVE IInv'
  OBVIOUS
<1>1. step = "checkIdentifier" /\ CheckKeeps
  BY DEF CheckIdentifier
<1>2. CASE Reach(Device) /\ UNCHANGED met
  BY <1>1, <1>2, ReachInv, HostAssumption
<1>3. CASE NoHost \in IdentifierFinds /\ step' = "checkQuery" /\ UNCHANGED <<met, connected>>
  BY <1>1, <1>3, AskInv
<1>4. CASE Meets("blank") /\ step' = "checkQuery" /\ UNCHANGED connected
  BY <1>1, <1>4, AskInv
<1>5. CASE Defer \/ Miss
  BY <1>1, <1>5, FailInv
<1> QED
  BY <1>2, <1>3, <1>4, <1>5 DEF CheckIdentifier

LEMMA CheckQueryInv == IInv /\ CheckQuery => IInv'
<1> SUFFICES ASSUME IInv, CheckQuery PROVE IInv'
  OBVIOUS
<1>1. step = "checkQuery" /\ CheckKeeps
  BY DEF CheckQuery
<1>2. CASE Defer \/ Miss
  BY <1>1, <1>2, FailInv
<1>3. CASE /\ \E h \in QueryFinds : IF h = NoHost THEN Connect("notfound") ELSE Reach(h)
           /\ UNCHANGED met
  <2>1. PICK h \in QueryFinds : IF h = NoHost THEN Connect("notfound") ELSE Reach(h)
    BY <1>3
  <2>2. CASE h = NoHost
    <3>1. met' \subseteq Troubles /\ "error" \notin met' /\ (gone \/ met' # {})
      BY <1>1, <1>3 DEF IInv, TypeOK, CheckInv
    <3> QED
      BY <1>1, <2>1, <2>2, <3>1, ConnectInv DEF Answers
  <2>3. CASE h # NoHost
    <3>1. h \in Hosts
      BY <2>3 DEF QueryFinds, IInv, TypeOK
    <3> QED
      BY <1>1, <1>3, <2>1, <2>3, <3>1, ReachInv
  <2> QED
    BY <2>2, <2>3
<1> QED
  BY <1>2, <1>3 DEF CheckQuery

LEMMA DetailsInv == IInv /\ (DetailsQuery \/ DetailsHost) => IInv'
<1> SUFFICES ASSUME IInv, DetailsQuery \/ DetailsHost PROVE IInv'
  OBVIOUS
<1> USE DEF IInv, DetailsKeeps, fleet
<1>1. step \in {"detailsQuery", "detailsHost"} /\ DetailsKeeps
  BY DEF DetailsQuery, DetailsHost
<1>2. step' \in {"detailsHost", "resolveIdentifier"}
  BY DEF DetailsQuery, DetailsHost
<1>3. profile' \in enrolled \union {NoHost, profile}
  BY DEF DetailsQuery, DetailsHost
<1>4. TypeOK'
  BY <1>1, <1>2, <1>3 DEF TypeOK, Requests, Found
<1>5. GoesOn
  BY <1>1 DEF PathInv, Requests
<1>6. HistoryInv' /\ CheckInv' /\ PathInv'
  BY <1>1, <1>2, <1>5 DEF HistoryInv, CheckInv, PathInv, GoesOn
<1>7. SeenInv'
  BY <1>1, <1>3, HostAssumption DEF SeenInv, HistoryInv
<1> QED
  BY <1>4, <1>6, <1>7

LEMMA ResolveInv == IInv /\ (ResolveIdentifier \/ ResolveQuery) => IInv'
<1> SUFFICES ASSUME IInv, ResolveIdentifier \/ ResolveQuery PROVE IInv'
  OBVIOUS
<1> USE DEF IInv, ResolveKeeps, fleet
<1>1. step \in {"resolveIdentifier", "resolveQuery"} /\ ResolveKeeps
  BY DEF ResolveIdentifier, ResolveQuery
<1>2. /\ step' \in {"resolveQuery", "done", "listHosts"}
      /\ resolved' \in enrolled \union {NoHost, resolved}
  BY DEF ResolveIdentifier, ResolveQuery, Resolve, IdentifierFinds, QueryFinds, HostAssumption
<1>3. TypeOK'
  BY <1>1, <1>2 DEF TypeOK, Requests, Found
<1>4. GoesOn
  BY <1>1 DEF PathInv, Requests
<1>5. HistoryInv' /\ CheckInv' /\ PathInv'
  BY <1>1, <1>2, <1>4 DEF HistoryInv, CheckInv, PathInv, GoesOn
<1>6. SeenInv'
  BY <1>1, <1>2, HostAssumption DEF SeenInv, HistoryInv
<1> QED
  BY <1>3, <1>5, <1>6

LEMMA VerifyInv == IInv /\ (ListHosts \/ RunQuery) => IInv'
<1> SUFFICES ASSUME IInv, ListHosts \/ RunQuery PROVE IInv'
  OBVIOUS
<1> USE DEF IInv, VerifyKeeps, fleet
<1>1. step \in {"listHosts", "runQuery"} /\ VerifyKeeps
  BY DEF ListHosts, RunQuery
<1>2. /\ step' \in {"listHosts", "done"}
      /\ host_id' \in {NoHost, host_id}
      /\ verdict' \in {"inconclusive", "pass", "fail"}
      \/ /\ step' = "runQuery"
         /\ host_id' \in enrolled /\ StartsWith(host_id')
         /\ UNCHANGED verdict
  <2>1. CASE ListHosts
    <3>1. ASSUME NEW page \in Pages, NEW k \in DOMAIN page, FirstMatch(page, k), Take(page[k])
          PROVE  step' = "runQuery" /\ host_id' \in enrolled /\ StartsWith(host_id') /\ UNCHANGED verdict
      <4>1. page[k] \in enrolled
        BY DEF Pages
      <4> QED
        BY <3>1, <4>1 DEF FirstMatch, Take
    <3> QED
      BY <2>1, <3>1 DEF ListHosts, Inconclusive
  <2>2. CASE RunQuery
    BY <2>2 DEF RunQuery, Inconclusive
  <2> QED
    BY <2>1, <2>2
<1>3. TypeOK'
  BY <1>1, <1>2 DEF TypeOK, Requests, Found
<1>4. GoesOn
  BY <1>1 DEF PathInv, Requests
<1>5. HistoryInv' /\ CheckInv' /\ PathInv'
  BY <1>1, <1>2, <1>4 DEF HistoryInv, CheckInv, PathInv, GoesOn, StartsWith
<1>6. SeenInv'
  BY <1>1, <1>2, HostAssumption DEF SeenInv, HistoryInv
<1> QED
  BY <1>3, <1>5, <1>6

LEMMA StutterInv == IInv /\ UNCHANGED vars => IInv'
<1> SUFFICES ASSUME IInv, UNCHANGED vars PROVE IInv'
  OBVIOUS
<1>1. /\ UNCHANGED <<enrolled, seen, gone, stale, holds, uuid_prefix, step>>
      /\ UNCHANGED <<met, connected, profile, resolved, host_id, verdict>>
  BY DEF vars, fleet
<1>2. TypeOK' /\ HistoryInv'
  BY <1>1 DEF IInv, TypeOK, HistoryInv
<1>3. CheckInv' /\ PathInv' /\ SeenInv'
  BY <1>1 DEF IInv, CheckInv, PathInv, GoesOn, SeenInv, StartsWith
<1> QED
  BY <1>2, <1>3 DEF IInv

LEMMA StepInv == IInv /\ [Next]_vars => IInv'
  BY FleetMovesInv, CheckIdentifierInv, CheckQueryInv, DetailsInv, ResolveInv, VerifyInv, StutterInv
     DEF Next, JobStep

-----------------------------------------------------------------------------

\* The invariant of a job: what its history recorded, what it was told or was not,
\* and how far that lets it go.
THEOREM Invariance == Spec => []IInv
  BY InitInv, StepInv, PTL DEF Spec

\* Type correctness.
THEOREM TypeCorrect == Spec => []TypeOK
<1>1. IInv => TypeOK
  BY DEF IInv
<1> QED
  BY <1>1, Invariance, PTL

\* A lookup that fails with a status, or with an exception that has a text, is
\* never answered "host not found", and without a failure of another kind a
\* device that is reported so was missing, whatever hosts Fleet has.
THEOREM EscalationsAreHonest == Spec => []EscalationMeansAbsence
<1>1. IInv => EscalationMeansAbsence
  BY DEF IInv, CheckInv, EscalationMeansAbsence
<1> QED
  BY <1>1, Invariance, PTL

\* Every host a job goes by was in Fleet during the job, and no script is sent
\* for a job that was stopped.
THEOREM HostsWereSeen == Spec => []SentOnlyIfSeen
<1>1. IInv => SentOnlyIfSeen
  BY DEF IInv, PathInv, GoesOn, SeenInv, SentOnlyIfSeen
<1> QED
  BY <1>1, Invariance, PTL

\* A verdict is about a host that the alert's name fits, for pages of any length
\* and hosts in any order.
THEOREM VerdictsAreTheHosts == Spec => VerdictIsTheHosts
<1>1. IInv /\ [Next]_vars =>
        [verdict' # verdict /\ verdict' \in {"pass", "fail"} /\ uuid_prefix # "" =>
            /\ host_id \in Hosts /\ Prefix[host_id] = uuid_prefix
            /\ verdict' = "pass" => host_id \in holds]_vars
  <2> SUFFICES ASSUME IInv, [Next]_vars, verdict' # verdict, verdict' \in {"pass", "fail"},
                      uuid_prefix # ""
               PROVE  /\ host_id \in Hosts /\ Prefix[host_id] = uuid_prefix
                      /\ verdict' = "pass" => host_id \in holds
    OBVIOUS
  <2>1. RunQuery
    BY DEF Next, FleetMoves, HostsMove, HostsChange, JobStep, CheckIdentifier, CheckQuery, CheckKeeps,
       DetailsQuery, DetailsHost, DetailsKeeps, ResolveIdentifier, ResolveQuery, ResolveKeeps,
       ListHosts, Take, Inconclusive, vars
  <2>2. host_id \in Hosts /\ StartsWith(host_id)
    BY <2>1 DEF RunQuery, IInv, TypeOK, PathInv
  <2> QED
    BY <2>1, <2>2 DEF RunQuery, StartsWith, Inconclusive
<1> QED
  BY <1>1, Invariance, PTL DEF Spec, VerdictIsTheHosts
=============================================================================
