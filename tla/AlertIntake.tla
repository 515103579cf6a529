---------------------------- MODULE AlertIntake ----------------------------
(***************************************************************************)
(* From a vendor's payload to the graph.  A producer translates payloads   *)
(* with the registry of a tenant and puts messages on the wire; what has   *)
(* read one may pass it on; a consumer reads messages, in any order and    *)
(* any number of times, and emits what it read into a CollectingSink and a *)
(* GraphSink.  Readers are of this build; producers may be of another one, *)
(* which is held to the rule of versioning.py: within a major version it   *)
(* only adds.                                                              *)
(***************************************************************************)
EXTENDS FakeGraph, Translators, Messages

CONSTANTS
    Productions, \* what may be produced: <<tenant, source, payload, build>>
    MaxSent,     \* bound: messages produced
    MaxRelays,   \* bound: messages passed on
    MaxEmits     \* bound: messages read into the sinks

\* A build writes a version and a kind, and adds and drops fields.
ASSUME BuildAssumption ==
    \A p \in Productions :
        /\ DOMAIN p[4] = {"version", "kind", "adds", "drops"}
        /\ is_compatible_with(parse(p[4].version), CURRENT_SCHEMA_VERSION) =>
              p[4].kind = "alert" /\ p[4].drops = {}

\* A tenant has an id (Tenant.__post_init__); what a translator reads of a
\* payload are texts, and a host UUID has a prefix.
ASSUME PayloadAssumption ==
    \A p \in Productions :
        LET payload == Carried(p[2], p[3])
        IN  /\ p[1] # ""
            /\ \A k \in DOMAIN payload : payload[k] \in Seq(STRING)
            /\ p[2] = "fleet" /\ HostUuid(payload) # Null =>
                  HostUuid(payload) \in DOMAIN Prefix

VARIABLES
    sent,     \* messages as produced
    relayed,  \* messages as passed on
    envelopes \* CollectingSink's list

vars == <<graphs, sent, relayed, envelopes>>

Init ==
    /\ GraphsInit
    /\ sent = {}
    /\ relayed = {}
    /\ envelopes = <<>>

\* The dictionary a build makes of an envelope.
Written(v, build) ==
    Message(build.version, build.kind,
            [f \in ((DOMAIN v) \ build.drops) \union build.adds |->
                IF f \in DOMAIN v THEN v[f] ELSE <<"more">>])

\* translate, or it raises and there is no message.  The clock has moved on.
Produce(p) ==
    /\ Cardinality(sent) < MaxSent
    /\ p[2] \in TRANSLATOR_TYPES
    /\ ~Raises(p[2], Carried(p[2], p[3]))
    /\ sent' = sent \union
                 {Written(translate(p[1], p[2], p[3], Cardinality(sent) + 1), p[4])}
    /\ UNCHANGED <<graphs, relayed, envelopes>>

\* A message is read and written again.
Relay(m) ==
    /\ Cardinality(relayed) < MaxRelays
    /\ Readable(m)
    /\ relayed' = relayed \union {to_dict(from_dict(m))}
    /\ UNCHANGED <<graphs, sent, envelopes>>

\* A message is read and emitted; while an emit runs no other does.
Consume(m) ==
    /\ Len(envelopes) < MaxEmits
    /\ Readable(m)
    /\ envelopes' = Append(envelopes, from_dict(m).envelope)
    /\ Emit(from_dict(m).envelope)
    /\ UNCHANGED <<sent, relayed>>

Next ==
    \/ \E p \in Productions : Produce(p)
    \/ \E m \in sent \union relayed : Relay(m) \/ Consume(m)
    \/ (DoNode \/ DoEdge) /\ UNCHANGED <<sent, relayed, envelopes>>

Spec == Init /\ [][Next]_vars

-----------------------------------------------------------------------------
(* Properties. *)

IdFields(source) ==
    CASE source \in {"sciencelogic"} -> <<"alert_id", "event_id", "xid", "id">>
      [] source = "sl1" -> <<"event_id", "alert_id", "id">>
      [] source = "connectwise" -> <<"id">>
      [] source \in {"addigy", "legacy"} -> <<"alert_id", "id">>

\* What in a payload names the alert, to a person, or nothing: for Fleet the
\* policy and the host, as far as eight characters name it, elsewhere the first
\* id there is.  A policy's stand-in, "Unknown policy", names none.
PolicyFields == <<"policy_id", "policy_name", "policy">>
OwnId(source, p) ==
    IF source # "fleet" THEN FirstTruthy(p, IdFields(source), Unknown)
    ELSE IF HostUuid(p) \in {Unknown, Empty} \/ FirstTruthy(p, PolicyFields, Null) = Null
    THEN Unknown
    ELSE <<FirstTruthy(p, PolicyFields, Null), Prefix[HostUuid(p)]>>

\* An alert that nothing names, of which the translator does not say so by the
\* sentinel that node_id_for's callers look for: an id is kept although it is
\* null or empty, and Fleet's id is put together from stand-ins.
Disguised(source, p) ==
    CASE source = "sciencelogic" -> FALSE
      [] source = "fleet" -> OwnId(source, p) = Unknown
      [] source = "legacy" -> ~Truthy(FirstPresent(p, IdFields(source), Unknown))
      [] source \in {"sl1", "addigy", "connectwise"} ->
            /\ FirstTruthy(p, IdFields(source), Null) = Null
            /\ "id" \in DOMAIN p

\* The uid of the node that represents an alert.
Finding(v) == uid(v.tenant, node_id_for(v.source, v.alert))

\* Whatever way alerts come, two that leave the same Finding are of one tenant
\* and one source and carry the same id, wherever in their payloads it stands,
\* with and without a source's prefix; and one that nothing names leaves none.
\* This leaves out the alerts whose lack of an id is disguised, which do leave
\* Findings and share them: those of an id that is null or empty, but for
\* ScienceLogic, and all of Fleet's that name no host or no policy.
AlertsKeepApart ==
    LET Named == {v \in {envelopes[i] : i \in DOMAIN envelopes} :
                     v.raw # <<>> /\ ~Disguised(v.source, v.raw)}
        Left(v) == <<"Finding", Finding(v)>> \in {n.key : n \in nodes}
    IN  /\ \A v \in Named : OwnId(v.source, v.raw) = Unknown => ~Left(v)
        /\ \A v, w \in Named :
              Left(v) /\ Finding(v) = Finding(w) =>
                 /\ v.tenant = w.tenant /\ v.source = w.source
                 /\ OwnId(v.source, v.raw) = OwnId(w.source, w.raw)

\* A message that this build or another of its major version produced is read
\* by every consumer, wherever it was passed on before, with the fields that
\* were produced, and a consumer that asks for the version of any message is
\* told of the one that produced it and not of one that passed it on.
ReadAsProduced ==
    /\ \A m \in sent : Judgement(m.version).compatible => Readable(m)
    /\ \A r \in relayed : \E m \in sent :
          /\ m.fields.observed = r.fields.observed
          /\ Readable(r)
          /\ Judgement(r.version) = Judgement(m.version)
          /\ \A f \in DOMAIN m.fields \intersect Known : r.fields[f] = m.fields[f]
=============================================================================
