------------------------------ MODULE FleetJob ------------------------------
(***************************************************************************)
(* The life of one job on one Fleet alert, as FleetExecutor's lookups see  *)
(* it: check_connectivity, fetch_device_details, the _resolve_host_id of   *)
(* execute_on_device, and, when the script has run, verify_alert_cleared.  *)
(* Each finds the alert's host on its own, in a way of its own, and they   *)
(* do not agree on what a failed request means.  The script itself is      *)
(* FleetExecution's subject.                                               *)
(*                                                                         *)
(* A step is one request and everything the code does with its answer up   *)
(* to the next.  Fleet and its hosts are the environment: hosts are        *)
(* enrolled, removed and seen, and the policy starts and stops holding on  *)
(* them, between any two requests; an exact lookup is right when it        *)
(* answers, a fuzzy one may leave a host out or name another.              *)
(***************************************************************************)
EXTENDS Integers, Sequences, FiniteSets

CONSTANTS
    Hosts,   \* the hosts Fleet may have
    Device,  \* the host the alert is about
    NoHost,  \* no host: Python's None, and the stub profile
    Prefix,  \* Prefix[h]: the first eight characters of h's UUID
    Named,   \* what may stand last in the alert's id
    PerPage  \* hosts in the page verify_alert_cleared reads

ASSUME HostAssumption == Device \in Hosts /\ NoHost \notin Hosts
\* A UUID has eight characters, and does not begin with "unknown".
ASSUME PrefixAssumption ==
    DOMAIN Prefix = Hosts /\ \A h \in Hosts : Prefix[h] \notin {"", "unknown"}
\* The translator writes the device's prefix, or what stands in for a host_uuid
\* that is missing, or nothing for one that is there and empty.
ASSUME NamedAssumption == Named \subseteq {Prefix[Device], "unknown", ""}
ASSUME PageAssumption == PerPage \in Nat \ {0}
ASSUME PendingAssumption == "pending" \notin Hosts \union {NoHost}

VARIABLES
    enrolled,  \* the hosts Fleet has
    seen,      \* those it has had at some time since the job began
    gone,      \* the device has been missing at some time since then
    stale,     \* the device's seen_time is over _OFFLINE_AFTER_SECONDS old
    holds,     \* the hosts the alert's policy holds on
    uuid_prefix, \* the last part of the alert's id
    step,      \* the request the job waits for
    met,       \* the troubles check_connectivity has met
    connected, \* what check_connectivity answered
    profile,   \* the host whose data fetch_device_details returned
    resolved,  \* what _resolve_host_id answered
    host_id,   \* the host verify_alert_cleared took
    verdict    \* and its answer

fleet == <<enrolled, seen, gone, stale, holds>>
vars == <<fleet, uuid_prefix, step, met, connected, profile, resolved, host_id, verdict>>

Requests == {"checkIdentifier", "checkQuery", "detailsQuery", "detailsHost",
             "resolveIdentifier", "resolveQuery", "listHosts", "runQuery"}
Answers == {"reachable", "deferred", "offline", "notfound"}

\* What a lookup may get in place of a host or of a clean answer that there is
\* none: an error, which is a status other than 200 and 404, or an exception
\* with a text; an exception without one, whose str() is false, as of a bare
\* timeout; a 200 that names no host, as none is in it or it is null.
Troubles == {"error", "silent", "blank"}

Found == Hosts \union {NoHost, "pending"}

Init ==
    /\ enrolled \in SUBSET Hosts
    /\ seen = enrolled
    /\ gone = (Device \notin enrolled)
    /\ stale \in BOOLEAN
    /\ holds \in SUBSET Hosts
    /\ uuid_prefix \in Named
    /\ step = "checkIdentifier"
    /\ met = {}
    /\ connected = "pending"
    /\ profile = "pending"
    /\ resolved = "pending"
    /\ host_id = "pending"
    /\ verdict = "pending"

-----------------------------------------------------------------------------
(* Fleet. *)

\* hosts/identifier/{uuid} names the device, or answers a clean 404.
IdentifierFinds == IF Device \in enrolled THEN {Device} ELSE {NoHost}

\* hosts?query={uuid}&per_page=1: the first match, or none.
QueryFinds == {NoHost} \union enrolled

\* The pages of hosts?per_page=n: the first hosts Fleet has, in an order of its own.
Pages ==
    LET n == IF Cardinality(enrolled) < PerPage THEN Cardinality(enrolled) ELSE PerPage
    IN  {s \in [1..n -> enrolled] : \A a, b \in 1..n : s[a] = s[b] => a = b}

\* A host enters or leaves Fleet.
HostsMove ==
    /\ \E h \in Hosts : enrolled' = IF h \in enrolled THEN enrolled \ {h} ELSE enrolled \union {h}
    /\ seen' = seen \union enrolled'
    /\ gone' = (gone \/ Device \notin enrolled')
    /\ UNCHANGED <<stale, holds, uuid_prefix, step, met, connected, profile, resolved,
                   host_id, verdict>>

\* The device is seen, or too long ago; the policy's answer changes on a host.
HostsChange ==
    /\ \/ stale' = ~stale /\ UNCHANGED holds
       \/ /\ \E h \in Hosts : holds' = IF h \in holds THEN holds \ {h} ELSE holds \union {h}
          /\ UNCHANGED stale
    /\ UNCHANGED <<enrolled, seen, gone, uuid_prefix, step, met, connected, profile,
                   resolved, host_id, verdict>>

-----------------------------------------------------------------------------
(* check_connectivity: the caller goes on unless the host is not found or    *)
(* offline.                                                                  *)

Meets(trouble) == met' = met \union {trouble}

Connect(answer) ==
    /\ connected' = answer
    /\ step' = IF answer \in {"reachable", "deferred"} THEN "detailsQuery" ELSE "done"

\* The age of the host found decides; of another host, it may be any.
Reach(h) ==
    IF h = Device THEN Connect(IF stale THEN "offline" ELSE "reachable")
    ELSE Connect("offline") \/ Connect("reachable")

CheckKeeps == UNCHANGED <<fleet, uuid_prefix, profile, resolved, host_id, verdict>>

\* An error is kept, and the caller goes on without the host.  The text of an
\* exception is tested for truth: without one, there was no error.
Defer == Meets("error") /\ Connect("deferred")
Miss == Meets("silent") /\ Connect("notfound")

\* Mutation: an error status is taken for a 404, and the query is asked.
CheckIdentifierEmpty ==
    /\ step = "checkIdentifier"
    /\ \/ Device \in IdentifierFinds /\ Reach(Device) /\ UNCHANGED met
       \/ NoHost \in IdentifierFinds /\ step' = "checkQuery" /\ UNCHANGED <<met, connected>>
       \/ /\ Meets("blank") \/ Meets("error")
          /\ step' = "checkQuery" /\ UNCHANGED connected
       \/ Miss
    /\ CheckKeeps

\* The host; a clean 404; a 200 without a host; an error; a silent exception.
CheckIdentifier ==
    /\ step = "checkIdentifier"
    /\ \/ Device \in IdentifierFinds /\ Reach(Device) /\ UNCHANGED met
       \/ NoHost \in IdentifierFinds /\ step' = "checkQuery" /\ UNCHANGED <<met, connected>>
       \/ Meets("blank") /\ step' = "checkQuery" /\ UNCHANGED connected
       \/ Defer \/ Miss
    /\ CheckKeeps

\* A host or none; an error, a 404 among them; a silent exception.
CheckQuery ==
    /\ step = "checkQuery"
    /\ \/ /\ \E h \in QueryFinds : IF h = NoHost THEN Connect("notfound") ELSE Reach(h)
          /\ UNCHANGED met
       \/ Defer \/ Miss
    /\ CheckKeeps

-----------------------------------------------------------------------------
(* fetch_device_details: whatever fails, the caller gets a profile.          *)

DetailsKeeps == UNCHANGED <<fleet, uuid_prefix, met, connected, resolved, host_id, verdict>>

\* A host; none, or any failure, and the profile is the stub.
DetailsQuery ==
    /\ step = "detailsQuery"
    /\ \/ \E h \in enrolled : profile' = h /\ step' = "detailsHost"
       \/ profile' = NoHost /\ step' = "resolveIdentifier"
    /\ DetailsKeeps

\* The host's details are added to what the search said; without them, as the
\* host may be gone, that is the profile; an exception leaves the stub.
DetailsHost ==
    /\ step = "detailsHost"
    /\ step' = "resolveIdentifier"
    /\ UNCHANGED profile \/ profile' = NoHost
    /\ DetailsKeeps

-----------------------------------------------------------------------------
(* _resolve_host_id, at the start of execute_on_device.                      *)

\* "Host not found", or the script is sent; the recheck is for later.
Resolve(h) == resolved' = h /\ step' = IF h = NoHost THEN "done" ELSE "listHosts"

ResolveKeeps == UNCHANGED <<fleet, uuid_prefix, met, connected, profile, host_id, verdict>>

\* The host; a 404 or any other status, and the query is asked; an exception.
ResolveIdentifier ==
    /\ step = "resolveIdentifier"
    /\ \/ Device \in IdentifierFinds /\ Resolve(Device)
       \/ step' = "resolveQuery" /\ UNCHANGED resolved
       \/ Resolve(NoHost)
    /\ ResolveKeeps

\* Mutation: the device is taken to be there when the query fails.
ResolveQueryTrusts ==
    /\ step = "resolveQuery"
    /\ \/ \E h \in QueryFinds : Resolve(h)
       \/ Resolve(Device)
    /\ ResolveKeeps

\* A host or none; any other status or an exception is "not found" too.
ResolveQuery ==
    /\ step = "resolveQuery"
    /\ \/ \E h \in QueryFinds : Resolve(h)
       \/ Resolve(NoHost)
    /\ ResolveKeeps

-----------------------------------------------------------------------------
(* verify_alert_cleared, by a worker that tries again while it is told       *)
(* nothing.                                                                  *)

VerifyKeeps == UNCHANGED <<fleet, uuid_prefix, met, connected, profile, resolved>>

\* candidate's UUID startswith the last part of the alert's id
StartsWith(h) == uuid_prefix \in {"", Prefix[h]}

\* Mutation: the loop variable is used after a loop that found nothing.
FirstMatchOrLast(page, k) ==
    /\ \A j \in 1..(k - 1) : ~StartsWith(page[j])
    /\ StartsWith(page[k]) \/ k = Len(page)

\* The loop over the page breaks at its k-th host.
FirstMatch(page, k) ==
    /\ \A j \in 1..(k - 1) : ~StartsWith(page[j])
    /\ StartsWith(page[k])

Take(h) == host_id' = h /\ step' = "runQuery" /\ UNCHANGED verdict

Inconclusive == verdict' = "inconclusive" /\ step' = "listHosts"

\* Mutation: the test for no host is missing, and the query is posted for None.
ListHostsGoesOn ==
    /\ step = "listHosts"
    /\ \/ \E page \in Pages : \E k \in DOMAIN page : FirstMatch(page, k) /\ Take(page[k])
       \/ Take(NoHost)
    /\ VerifyKeeps

\* GET hosts: the first host that matches is taken; when the page has none, and
\* after any failure, the recheck says nothing.
ListHosts ==
    /\ step = "listHosts"
    /\ \/ \E page \in Pages : \E k \in DOMAIN page : FirstMatch(page, k) /\ Take(page[k])
       \/ host_id' = NoHost /\ Inconclusive
    /\ VerifyKeeps

\* POST queries/run: rows mean that the policy holds on the host; no rows, or
\* no entry from a host that did not answer, are a fail.
RunQuery ==
    /\ step = "runQuery"
    /\ \/ host_id \in holds /\ verdict' = "pass" /\ step' = "done"
       \/ verdict' = "fail" /\ step' = "done"
       \/ Inconclusive
    /\ UNCHANGED host_id
    /\ VerifyKeeps

-----------------------------------------------------------------------------

FleetMoves == HostsMove \/ HostsChange

JobStep ==
    \/ CheckIdentifier \/ CheckQuery
    \/ DetailsQuery \/ DetailsHost
    \/ ResolveIdentifier \/ ResolveQuery
    \/ ListHosts \/ RunQuery

Next == FleetMoves \/ JobStep

Spec == Init /\ [][Next]_vars

-----------------------------------------------------------------------------
(* Properties. *)

\* Every request that is left has its answer, and a query is only posted for a
\* host: verify_alert_cleared returns without one.
TypeOK ==
    /\ enrolled \subseteq Hosts /\ seen \subseteq Hosts /\ holds \subseteq Hosts
    /\ gone \in BOOLEAN /\ stale \in BOOLEAN
    /\ uuid_prefix \in Named
    /\ step \in Requests \union {"done"}
    /\ met \subseteq Troubles
    /\ connected \in Answers \union {"pending"}
    /\ profile \in Found /\ resolved \in Found /\ host_id \in Found
    /\ step = "runQuery" => host_id \in Hosts
    /\ verdict \in {"pending", "inconclusive", "pass", "fail"}

\* A job is never escalated as "host not found" on a lookup that failed with a
\* status or with an exception that says why, whichever of the two it was and
\* whatever Fleet's hosts do between them.  A job so escalated is one whose
\* device was missing from Fleet while it looked, or whose lookup said nothing:
\* it raised without a text, or it answered 200 without a host.
EscalationMeansAbsence ==
    connected = "notfound" => "error" \notin met /\ (gone \/ met # {})

\* What the job goes by is a host that Fleet had at some time since it began:
\* the one profiled, the one the script is sent to and the one that is
\* rechecked.  No script is sent after the connectivity check stopped the job:
\* no answer it was deferred on, and no request that failed, stands in for a
\* host's.
SentOnlyIfSeen ==
    /\ {profile, resolved, host_id} \intersect Hosts \subseteq seen
    /\ resolved \in Hosts => connected \in {"reachable", "deferred"}

\* The verdict on an alert that names its host is about a host the name fits,
\* the alert's own where no other has its prefix, and a pass is given only when
\* the policy holds there, however Fleet's hosts and their order changed since
\* the alert was named; an alert that names none gets no verdict.
VerdictIsTheHosts ==
    [][verdict' # verdict /\ verdict' \in {"pass", "fail"} /\ uuid_prefix # "" =>
          /\ host_id \in Hosts /\ Prefix[host_id] = uuid_prefix
          /\ verdict' = "pass" => host_id \in holds]_vars

\* check_connectivity's docstring on a deferral: Fleet's script-run API "has its
\* own retries and will surface a real failure there".  A device that was there
\* all along and was deferred is not then reported as one that does not exist.
DeferralIsHonest ==
    ~gone /\ connected = "deferred" => resolved # NoHost
=============================================================================
