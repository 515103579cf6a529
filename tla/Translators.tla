---------------------------- MODULE Translators ----------------------------
(***************************************************************************)
(* The six translators: what each reads of one vendor payload for the      *)
(* fields that identify an alert and its device, and when it raises.       *)
(* They differ in what they make of a field that is null or empty: an `or` *)
(* chain falls through to the next one, a `.get` default keeps it.         *)
(*                                                                         *)
(* A payload is a function from the keys it has to their values.  A value  *)
(* is a text, the sequence of its parts between colons, or null; a batch   *)
(* of Fleet's is the sequence of its policies.  Severities stay as the     *)
(* vendor gave them, marked with the source whose table maps them;         *)
(* categories, messages and the event's own time are left out.             *)
(***************************************************************************)
EXTENDS Sequences, FiniteSets, FiniteSetsExt

CONSTANTS Prefix \* Prefix[u]: the text of the first eight characters of u

\* The first eight characters of a host's UUID hold no colon.
ASSUME PrefixAssumption ==
    \A u \in DOMAIN Prefix : Prefix[u] \in Seq(STRING) /\ Len(Prefix[u]) = 1

Null == <<>>
Empty == <<"">>
Unknown == <<"unknown">>

Truthy(x) == x \notin {Null, Empty}

\* str(x), and f"{x}"
str(x) == IF x = Null THEN <<"None">> ELSE x

\* p.get(key, default)
Get(p, key, default) == IF key \in DOMAIN p THEN p[key] ELSE default

\* p.get(k1, p.get(k2, ... default))
FirstPresent(p, keys, default) ==
    LET present == {i \in DOMAIN keys : keys[i] \in DOMAIN p}
    IN  IF present = {} THEN default ELSE p[keys[Min(present)]]

\* p.get(k1) or p.get(k2) or ... default
FirstTruthy(p, keys, default) ==
    LET truthy == {i \in DOMAIN keys : Truthy(Get(p, keys[i], Null))}
    IN  IF truthy = {} THEN default ELSE p[keys[Min(truthy)]]

\* Each source's fields, from a payload it does not raise on.
Fields(alert, device, name, tenantName, severity) ==
    [alert |-> alert, device |-> device, hostname |-> str(name),
     tenantName |-> str(tenantName), severity |-> str(severity)]

ScienceLogic(p) ==
    Fields(FirstTruthy(p, <<"alert_id", "event_id", "xid", "id">>, Unknown),
           FirstTruthy(p, <<"device_id", "did", "entity_id">>, Unknown),
           FirstTruthy(p, <<"device_name", "hostname", "entity_name", "device.name">>, Unknown),
           FirstTruthy(p, <<"client_name", "organization", "org_name">>, Unknown),
           FirstTruthy(p, <<"severity", "priority", "event_severity">>, <<"P3">>))

SL1(p) ==
    LET device == <<"sl1">> \o str(FirstPresent(p, <<"device_id", "entity_id">>, Unknown))
    IN  Fields(str(FirstTruthy(p, <<"event_id", "alert_id">>, Get(p, "id", Unknown))),
               device,
               FirstTruthy(p, <<"device_name", "entity_name">>, device),
               FirstPresent(p, <<"org_name", "client_name">>, Empty),
               FirstPresent(p, <<"severity", "event_severity">>, <<"3">>))

\* company, priority and type are objects; the model gives a payload their members.
ConnectWise(p) ==
    Fields(str(Get(p, "id", Unknown)),
           str(FirstPresent(p, <<"deviceId", "configurationId">>, Unknown)),
           FirstPresent(p, <<"siteName", "configurationName">>, Unknown),
           FirstPresent(p, <<"company.identifier", "company.name">>, Unknown),
           Get(p, "priority.id", <<"3">>))

Addigy(p) ==
    LET device == <<"addigy">> \o str(FirstTruthy(p, <<"agentid">>, Get(p, "device_id", Unknown)))
    IN  Fields(str(FirstTruthy(p, <<"alert_id">>, Get(p, "id", Unknown))),
               device,
               FirstTruthy(p, <<"device_name", "hostname">>, device),
               FirstTruthy(p, <<"policy_name">>, Get(p, "client_name", Empty)),
               Get(p, "severity", <<"medium">>))

Legacy(p) ==
    Fields(str(FirstPresent(p, <<"alert_id", "id">>, Unknown)),
           str(FirstPresent(p, <<"device_id", "did">>, Unknown)),
           FirstPresent(p, <<"device_name", "hostname">>, Unknown),
           FirstPresent(p, <<"client_name", "organization">>, Unknown),
           FirstPresent(p, <<"severity", "priority">>, <<"P3">>))

\* Only the first failing policy of a batch is looked at.
Unwrap(p) ==
    IF "failing_policies" \in DOMAIN p /\ p["failing_policies"] # <<>>
    THEN p["failing_policies"][1] ELSE p

HostUuid(p) == FirstTruthy(p, <<"host_uuid">>, Get(p, "uuid", Unknown))
PolicyName(p) == FirstTruthy(p, <<"policy_name">>, Get(p, "policy", <<"Unknown policy">>))
Policy(p) == FirstTruthy(p, <<"policy_id">>, PolicyName(p))

\* f"fleet-policy-{policy}-{prefix}" is the tuple of its parts: no prefix of a
\* UUID holds a "-", so the last one ends the policy.
Fleet(p) ==
    Fields(<<"fleet-policy">> \o Policy(p) \o Prefix[HostUuid(p)],
           <<"fleet">> \o HostUuid(p),
           FirstTruthy(p, <<"host_name", "hostname">>, HostUuid(p)),
           FirstTruthy(p, <<"team_name">>, FirstTruthy(p, <<"team">>, Empty)),
           PolicyName(p))

\* An attribute of null, an item of null, a timestamp that is none.
Raises(source, p) ==
    \/ /\ source = "sl1"
       /\ FirstTruthy(p, <<"message", "event_message">>, Get(p, "description", Empty)) = Null
    \/ /\ source = "connectwise"
       /\ \E k \in {"company", "priority", "type", "type.name"} : Get(p, k, Empty) = Null
    \/ /\ source = "addigy"
       /\ FirstTruthy(p, <<"alert_message", "message">>, Get(p, "description", Empty)) = Null
    \/ source = "fleet" /\ Null \in {HostUuid(p), PolicyName(p)}
    \/ source = "legacy" /\ Get(p, "timestamp", <<"iso">>) # <<"iso">>

TRANSLATOR_TYPES == {"sciencelogic", "sl1", "connectwise", "fleet", "addigy", "legacy"}

\* _translate: the raw payload an envelope carries, and the fields.
Carried(source, raw) == IF source = "fleet" THEN Unwrap(raw) ELSE raw

TranslatedFields(source, p) ==
    CASE source = "sciencelogic" -> ScienceLogic(p)
      [] source = "sl1" -> SL1(p)
      [] source = "connectwise" -> ConnectWise(p)
      [] source = "fleet" -> Fleet(p)
      [] source = "addigy" -> Addigy(p)
      [] source = "legacy" -> Legacy(p)

\* Translator.translate: the tenant is the configuration's, the payload's claim
\* a hint.
translate(tenant, source, raw, now) ==
    LET f == TranslatedFields(source, Carried(source, raw))
    IN  [tenant |-> tenant, source |-> source, alert |-> f.alert, device |-> f.device,
         tenantName |-> f.tenantName, hostname |-> f.hostname,
         severity |-> <<source>> \o f.severity, observed |-> now,
         raw |-> Carried(source, raw)]
=============================================================================
