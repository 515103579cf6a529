------------------------------ MODULE Redaction ------------------------------
(***************************************************************************)
(* redact: the recursive pass over a vendor payload that strips what looks *)
(* like a credential, pseudonymises what names a customer when it is given *)
(* a salt, and marks what it found; and RedactingSink, which runs it on    *)
(* every envelope and hands the result to another sink.                    *)
(*                                                                         *)
(* A payload is a tree, given by what stands at each of its paths.  Of a   *)
(* key only what it is listed as matters, so that a few keys stand for the *)
(* lists of the source.  Of a string only whether a credential pattern     *)
(* fires in it matters, and where its last "/" is: it has a head, the part *)
(* before that "/" (absent if there is no "/"), and a tail.  A match may   *)
(* begin in the head and run on over the "/".  No key holds a "." or a     *)
(* "[", so that a mark's path, which the source writes as a text, is of    *)
(* one value.                                                              *)
(***************************************************************************)
EXTENDS Integers, Sequences, FiniteSetsExt

CONSTANTS Payloads,  \* the payloads that are emitted
          MaxEmits   \* bound: envelopes emitted

ASSUME BoundsAssumption == MaxEmits \in Nat

-----------------------------------------------------------------------------
(* Trees. *)

\* A step of a path: into a field of a map, or into an entry of a list.
Field(key) == [key |-> key]
Item(index) == [index |-> index]
Step == [key : STRING] \union [index : Nat]
IsField(step) == DOMAIN step = {"key"}

Absent == "none" \* no parent, no head, no mark

Str(head, tail) == [t |-> "text", head |-> head, tail |-> tail]

IsText(v) == v.t = "text"
IsEmpty(v) == v = Str(Absent, << >>)
IsContainer(v) == v.t \in {"map", "list"}

\* The first n steps of a path, and what a path's last step is into.
Upto(path, n) == SubSeq(path, 1, n)
Above(path) == Upto(path, Len(path) - 1)
Last(path) == path[Len(path)]

\* Whatever has a path is reached through maps by fields and lists by items.
ASSUME PayloadAssumption ==
    \A payload \in Payloads :
        /\ DOMAIN payload \subseteq Seq(Step)
        /\ \A path \in DOMAIN payload :
              /\ \A n \in DOMAIN path :
                    /\ Upto(path, n - 1) \in DOMAIN payload
                    /\ payload[Upto(path, n - 1)].t = IF IsField(path[n]) THEN "map" ELSE "list"
              /\ IsText(payload[path]) =>
                    /\ payload[path] = Str(payload[path].head, payload[path].tail)
                    /\ payload[path].tail \in Seq(STRING)

-----------------------------------------------------------------------------
(* Keys and strings. *)

SecretKeys == {"password"}
ConfidentialKeys == {"hostname", "fqdn", "name"}
AmbiguousKeys == {"name"}
ClassificationParents == {"type"}

\* The pseudonym prefix of a confidential key.
Kind(key) == IF key = "name" THEN "name" ELSE "host"

classify_key(key, parent) ==
    CASE key \in SecretKeys -> "secret"
      [] key \in AmbiguousKeys /\ parent \in ClassificationParents -> "public"
      [] key \in ConfidentialKeys
            /\ ~(key \in AmbiguousKeys /\ parent \in ClassificationParents) -> "confidential"
      [] OTHER -> "public"

Redacted == Str(Absent, <<"[REDACTED]">>)

Strip(s) == IF s = "credential" THEN "[REDACTED]" ELSE s

\* The heads in which a match begins that runs on into the first part of the
\* tail, and what is before it: with a "/" of its own, what is before that.
OpenHeads == {"open", "uri/open"}
Before(head) == IF head = "uri/open" THEN "uri" ELSE Absent

\* Each pattern's match is replaced by the marker, and with a match that runs
\* over the last "/" that "/" goes.
redact_text(v) ==
    IF v.head \notin OpenHeads
    THEN Str(Strip(v.head), [k \in DOMAIN v.tail |-> Strip(v.tail[k])])
    ELSE Str(Before(v.head),
             [k \in {1} \union DOMAIN v.tail |-> IF k = 1 THEN "[REDACTED]" ELSE Strip(v.tail[k])])

\* A match begins in the head of a text; a pattern fires in a value.
Opens(v) == v.head \in {"credential"} \union OpenHeads
Fires(v) == IsText(v) /\ (Opens(v) \/ \E k \in DOMAIN v.tail : v.tail[k] = "credential")

\* A keyed hash of the value, under the prefix of its kind: two are equal
\* when both the values and the kinds are.
pseudonymise(tail, kind) == <<kind, "hash">> \o tail

\* Mutation: the whole of a URI-shaped reference is replaced.
pseudonymise_whole(v, kind) == Str(Absent, pseudonymise(v.tail, kind))

\* Only the tail of a URI-shaped reference moves, and an empty one does not.
pseudonymise_preserving_shape(v, kind) ==
    IF v.head # Absent /\ v.tail = << >> THEN v
    ELSE Str(v.head, pseudonymise(v.tail, kind))

-----------------------------------------------------------------------------
(* What becomes of one value: the value, and the mark its path is given. *)

Kept(v) == [value |-> v, mark |-> Absent]

Searched(v) == [value |-> redact_text(v),
                mark |-> IF redact_text(v) # v THEN "secret" ELSE Absent]

\* _walk on a value that is no container: an entry of a list.
Entry(v) == IF IsText(v) THEN Searched(v) ELSE Kept(v)

\* Mutation: what is pseudonymised is marked only where there is no salt.
LeafUnmarked(key, v, salted, parent) ==
    LET class == classify_key(key, parent) IN
    CASE class = "secret" -> [value |-> Redacted, mark |-> "secret"]
      [] class = "confidential" /\ IsText(v) /\ ~IsEmpty(v) /\ salted ->
            Kept(pseudonymise_preserving_shape(v, Kind(key)))
      [] OTHER -> Entry(v)

\* Mutation: the test that a confidential string is not empty is lost.
LeafEmptyToo(key, v, salted, parent) ==
    LET class == classify_key(key, parent) IN
    CASE class = "secret" -> [value |-> Redacted, mark |-> "secret"]
      [] class = "confidential" /\ IsText(v) ->
            [value |-> IF salted THEN pseudonymise_preserving_shape(v, Kind(key))
                       ELSE redact_text(v),
             mark |-> "confidential"]
      [] OTHER -> Entry(v)

\* _leaf on a value that is no container.
Leaf(key, v, salted, parent) ==
    LET class == classify_key(key, parent) IN
    CASE class = "secret" -> [value |-> Redacted, mark |-> "secret"]
      [] class = "confidential" /\ IsText(v) /\ ~IsEmpty(v) ->
            [value |-> IF salted THEN pseudonymise_preserving_shape(v, Kind(key))
                       ELSE redact_text(v),
             mark |-> "confidential"]
      [] OTHER -> Entry(v)

-----------------------------------------------------------------------------
(* The recursive pass.  _walk and _leaf call one another down a tree, once   *)
(* for each of its paths, and hand a parent down; what a call returns of a   *)
(* container is the same container of what the calls below it return.        *)

\* Mutation: a list is walked under no parent.
ListParentNone(parent) == Absent

\* The parent a list passes on to its entries: its own.
ListParent(parent) == parent

\* parents(payload, path)[n] is the parent of the call for the first n steps of
\* a path: a map's container is under its key, a list's entry under ListParent.
parents(payload, path) ==
    LET parent[n \in 0..Len(path)] ==
            IF n = 0 THEN Absent
            ELSE IF payload[Upto(path, n - 1)].t = "map" THEN path[n].key
            ELSE ListParent(parent[n - 1])
    IN  parent

\* The call for a value that is no container.
Treated(payload, path, salted) ==
    IF path # << >> /\ payload[Above(path)].t = "map"
    THEN Leaf(Last(path).key, payload[path], salted, parents(payload, path)[Len(path) - 1])
    ELSE Entry(payload[path])

Leaves(payload) == {path \in DOMAIN payload : ~IsContainer(payload[path])}

redact(payload, salted) ==
    [payload |-> [path \in DOMAIN payload |->
                     IF IsContainer(payload[path]) THEN payload[path]
                     ELSE Treated(payload, path, salted).value],
     marks |-> {<<path, Treated(payload, path, salted).mark>> : path \in Leaves(payload)}
               \ {<<path, Absent>> : path \in Leaves(payload)}]

held_secrets(result) == \E m \in result.marks : m[2] = "secret"

-----------------------------------------------------------------------------
(* RedactingSink. *)

VARIABLES hasSalt, \* whether the sink has a salt
          handed,  \* what its inner sink took, each beside the payload it came from
          seen,    \* secrets_seen, as a set of paths
          offered  \* bound: envelopes emitted so far

sinkVars == <<hasSalt, handed, seen, offered>>

SinkInit ==
    /\ hasSalt \in BOOLEAN
    /\ handed = << >>
    /\ seen = {}
    /\ offered = 0

\* secrets_seen is extended, and then the inner sink takes the clean
\* envelope or raises.
emit(payload, raises) ==
    LET result == redact(payload, hasSalt) IN
    /\ seen' = seen \union {m[1] : m \in {x \in result.marks : x[2] = "secret"}}
    /\ handed' = IF raises THEN handed
                 ELSE Append(handed, [raw |-> payload, result |-> result])
    /\ offered' = offered + 1
    /\ UNCHANGED hasSalt

SinkNext ==
    /\ offered < MaxEmits
    /\ \E payload \in Payloads, raises \in BOOLEAN : emit(payload, raises)

SinkSpec == SinkInit /\ [][SinkNext]_sinkVars

-----------------------------------------------------------------------------
(* What a path alone says of a leaf. *)

UnderKey(path) == path # << >> /\ IsField(Last(path))

\* The key a leaf is under, and the nearest key above that one.
KeyOf(path) == Last(path).key
Nearest(path, n) ==
    LET fields == {i \in 1..n : IsField(path[i])}
    IN  IF fields = {} THEN Absent ELSE path[Max(fields)].key
ParentOf(path) == Nearest(path, Len(path) - 1)
ClassOf(path) == IF UnderKey(path) THEN classify_key(KeyOf(path), ParentOf(path)) ELSE "public"

MarksOf(result, path) == {m[2] : m \in {x \in result.marks : x[1] = path}}

(* The walk, whatever containers it went through, treats a leaf under a key  *)
(* as its path alone says: by that key and the nearest key above it, list    *)
(* indexes skipped.  An entry of a list has no key; of it no more is said    *)
(* than of every text, that no pattern fires in it any more: what the key of *)
(* the list is, "password" or "hostname", is not looked at.                  *)
TreatedByPath ==
    \A n \in DOMAIN handed :
        LET raw == handed[n].raw  result == handed[n].result IN
        \A path \in Leaves(raw) :
            IF UnderKey(path)
            THEN LET expected == Leaf(KeyOf(path), raw[path], hasSalt, ParentOf(path)) IN
                 /\ result.payload[path] = expected.value
                 /\ MarksOf(result, path) = {expected.mark} \ {Absent}
            ELSE ~Fires(result.payload[path])

(* Structure is never perturbed: the same keys and nesting and, except under *)
(* a secret key, the same types, the same empty and null values, and the     *)
(* same head of a URI-shaped reference.  A head is lost only with a match    *)
(* that begins in it, and of a value that is pseudonymised not even then.    *)
StructureKept ==
    \A n \in DOMAIN handed :
        LET raw == handed[n].raw  clean == handed[n].result.payload IN
        /\ DOMAIN raw = DOMAIN clean
        /\ \A path \in DOMAIN raw : IsContainer(raw[path]) => clean[path] = raw[path]
        /\ \A path \in Leaves(raw) : ClassOf(path) # "secret" =>
               LET before == raw[path]  after == clean[path] IN
               /\ after.t = before.t
               /\ ~IsText(after) => after = before
               /\ IsText(after) =>
                     /\ IsEmpty(after) <=> IsEmpty(before)
                     /\ after.head # before.head =>
                           Opens(before) /\ ~(hasSalt /\ ClassOf(path) = "confidential")

(* A value that was changed is never changed in silence: its path is marked, *)
(* as a secret wherever the marker of a stripped credential newly stands     *)
(* under a key that is not confidential, and that path is in secrets_seen.   *)
ChangedIsMarked ==
    \A n \in DOMAIN handed :
        LET raw == handed[n].raw  result == handed[n].result IN
        \A path \in Leaves(raw) :
            result.payload[path] # raw[path] =>
                IF ClassOf(path) = "confidential" THEN MarksOf(result, path) = {"confidential"}
                ELSE MarksOf(result, path) = {"secret"} /\ path \in seen

(* Joins survive within a kind: two values under keys of one kind, in one    *)
(* payload or in two, are equal after pseudonymisation exactly when they     *)
(* were equal before.                                                        *)
Named(raw) == {path \in Leaves(raw) : ClassOf(path) = "confidential" /\ IsText(raw[path])}

JoinsWithinAKind ==
    hasSalt =>
        \A n, m \in DOMAIN handed : \A a \in Named(handed[n].raw), b \in Named(handed[m].raw) :
            Kind(KeyOf(a)) = Kind(KeyOf(b)) =>
                (handed[n].raw[a] = handed[m].raw[b] <=>
                    handed[n].result.payload[a] = handed[m].result.payload[b])
=============================================================================
