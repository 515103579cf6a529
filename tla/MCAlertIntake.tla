--------------------------- MODULE MCAlertIntake ---------------------------
(***************************************************************************)
(* Payloads for TLC: of every source one with an id and one whose id is    *)
(* missing, null, empty, in another field or of another's form, and those  *)
(* on which a translator raises; for one of them, builds of this major     *)
(* version, of the next and of none that can be told.                      *)
(***************************************************************************)
EXTENDS AlertIntake

CONSTANTS t1, t2

a == <<"a">>
d == <<"d">>

Prefixes == [u \in {<<"u1">>, <<"u2">>, <<"unknown">>, Empty} |->
                IF u \in {Unknown, Empty} THEN u ELSE <<"p">>]

Build(major, minor, kind, adds, drops) ==
    [version |-> <<major, minor>>, kind |-> kind, adds |-> adds, drops |-> drops]

This == Build({1}, {0}, "alert", {}, {})

Others ==
    {Build({1}, {1}, "alert", {"site"}, {}), Build({2}, {0}, "alert", {"site"}, {"tenantName"}),
     Build({2}, {0}, "incident", {}, {}), Build({2}, {}, "alert", {}, {"hostname"}),
     Build({}, {}, "alert", {}, {"raw"}), Build({1}, {-1}, "alert", {}, {"device"})}

Payloads ==
    ({"sciencelogic"} \X
        {[alert_id |-> a, device_id |-> d], [alert_id |-> Empty, event_id |-> a, did |-> d],
         [alert_id |-> <<"sciencelogic", "a">>, did |-> d], [device_id |-> d],
         [id |-> d, device_id |-> d]})
    \union ({"sl1"} \X
        {[event_id |-> Null, id |-> a, device_id |-> d], [id |-> Null, entity_id |-> Null],
         [id |-> a, description |-> Null]})
    \union ({"connectwise"} \X
        {[id |-> a, deviceId |-> d], [id |-> Null], [siteName |-> d], [id |-> a, company |-> Null]})
    \union ({"addigy"} \X
        {[alert_id |-> a, id |-> d], [id |-> Empty, agentid |-> d], [agentid |-> Empty],
         [id |-> a, alert_message |-> Empty, description |-> Null]})
    \union ({"legacy"} \X
        {[alert_id |-> Empty, id |-> a], [id |-> a], [did |-> d], [id |-> a, timestamp |-> Null]})
    \union ({"fleet"} \X
        {[policy_id |-> a, host_uuid |-> <<"u1">>, policy |-> <<"n">>],
         [failing_policies |-> <<[policy |-> a, uuid |-> <<"u2">>, team |-> d], [policy |-> d]>>],
         [failing_policies |-> <<>>, policy_id |-> a, uuid |-> Empty],
         [policy_id |-> a, uuid |-> Null], [policy_id |-> a, policy |-> Null],
         [uuid |-> <<"u1">>], [policy_id |-> Null, policy |-> Empty, uuid |-> <<"u1">>]})

MCProductions ==
    {<<t1, p[1], p[2], This>> : p \in Payloads}
    \union {<<t2, "sciencelogic", [alert_id |-> a, device_id |-> d], This>>}
    \union {<<t1, "sciencelogic", [alert_id |-> a, device_id |-> d], b>> : b \in Others}

MCEnvelopes == {}
=============================================================================
