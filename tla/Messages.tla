------------------------------ MODULE Messages ------------------------------
(***************************************************************************)
(* Envelopes on the wire: to_dict, from_dict and the schema version that   *)
(* every message carries.                                                  *)
(*                                                                         *)
(* A version's text is the pair of its parts around the first ".", each    *)
(* the set of the integer int() makes of it, empty when it makes none; an  *)
(* absent minor reads as zero.  A message is what its dictionary has: the  *)
(* version, the kind and the fields, those that no field here stands for   *)
(* (event_id, adapter_version, occurred_at, category, message,             *)
(* device_history) left out with the checks they get, which are the same.  *)
(***************************************************************************)
EXTENDS Integers, FiniteSets

Required == {"tenant", "source", "device", "alert", "hostname", "severity", "observed"}
\* An absent hint has no name, which a projection writes as "".
Default == [tenantName |-> <<"">>, raw |-> <<>>]
Known == Required \union DOMAIN Default

UNKNOWN_VERSION == <<-1, -1>>
CURRENT_SCHEMA_VERSION == <<1, 0>>

\* SchemaVersion.parse is total.
parse(text) ==
    LET minor == IF text[2] = {} THEN 0 ELSE CHOOSE n \in text[2] : TRUE
    IN  IF text[1] = {} \/ minor < 0 \/ \E n \in text[1] : n < 0 THEN UNKNOWN_VERSION
        ELSE <<CHOOSE n \in text[1] : TRUE, minor>>

\* SchemaVersion.__str__
VersionText(version) == <<{version[1]}, {version[2]}>>

is_known(version) == version # UNKNOWN_VERSION
is_compatible_with(version, consumer) == is_known(version) /\ version[1] = consumer[1]
is_newer_major_than(version, consumer) == is_known(version) /\ version[1] > consumer[1]

\* What a consumer of this build makes of a message's version.
Judgement(text) ==
    LET version == parse(text)
    IN  [known |-> is_known(version),
         compatible |-> is_compatible_with(version, CURRENT_SCHEMA_VERSION),
         newer |-> is_newer_major_than(version, CURRENT_SCHEMA_VERSION)]

Message(version, kind, fields) == [version |-> version, kind |-> kind, fields |-> fields]

\* from_dict raises on a kind it does not know, a required field that is
\* missing and a tenant that is empty.
Readable(m) ==
    /\ m.kind = "alert"
    /\ Required \subseteq DOMAIN m.fields
    /\ m.fields.tenant # ""

\* Fields it does not know are dropped, optional ones have defaults.
from_dict(m) ==
    [version |-> parse(m.version),
     envelope |-> [f \in Known |-> IF f \in DOMAIN m.fields THEN m.fields[f] ELSE Default[f]]]

\* Mutation: what this build writes is stamped with this build's version.
to_dict_stamped(e) == Message(VersionText(CURRENT_SCHEMA_VERSION), "alert", e.envelope)

to_dict(e) == Message(VersionText(e.version), "alert", e.envelope)
=============================================================================
