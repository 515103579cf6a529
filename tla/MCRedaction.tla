----------------------------- MODULE MCRedaction -----------------------------
(***************************************************************************)
(* Payload trees for TLC: every kind of leaf under every key, entries of   *)
(* lists, the nestings that hand a parent down, and payloads that name a   *)
(* host once or twice.                                                     *)
(***************************************************************************)
EXTENDS Redaction

Keys == SecretKeys \union ConfidentialKeys \union ClassificationParents \union {"notes"}

Null == [t |-> "null"]
Number == [t |-> "number"]
Word == Str(Absent, <<"word">>)
Empty == Str(Absent, << >>)
Credential == Str(Absent, <<"credential">>)

Open == Str("open", <<"word">>)

LeafValues == {Null, Number, Empty, Word, Credential, Str("uri", <<"word">>),
               Str("uri", << >>), Str("credential", <<"word">>),
               Open, Str("uri/open", <<"word", "credential">>), Str("uri/open", << >>)}

\* Trees of a value, of a map and of a list, put together from trees.
Leafy(v) == [path \in {<< >>} |-> v]
Under(step, tree) == {<<step>> \o path : path \in DOMAIN tree}
Tree(t, steps, below(_)) ==
    [path \in {<< >>} \union UNION {Under(step, below(step)) : step \in steps} |->
        IF path = << >> THEN [t |-> t] ELSE below(Head(path))[Tail(path)]]

OneTree(key, tree) == Tree("map", {Field(key)}, LAMBDA step : tree)
One(key, v) == OneTree(key, Leafy(v))
Two(key1, v1, key2, v2) ==
    Tree("map", {Field(key1), Field(key2)}, LAMBDA step : Leafy(IF step.key = key1 THEN v1 ELSE v2))
ListOf(trees) == Tree("list", {Item(k - 1) : k \in DOMAIN trees}, LAMBDA step : trees[step.index + 1])

Flat == {One(k, v) : k \in Keys, v \in LeafValues}
Lists == {OneTree(k, ListOf(<<Leafy(v)>>)) : k \in {"password", "name", "type"},
                                             v \in {Number, Word, Credential, Open}}

\* A key that is classified by what it is under, and one that is not.
Inner == {One("name", v) : v \in {Empty, Word, Credential}} \union {One("password", Word)}
Nested ==
    {OneTree(k, v) : k \in {"type", "notes"},
                     v \in Inner \union {ListOf(<<i>>) : i \in Inner}
                           \union {ListOf(<<ListOf(<<i>>)>>) : i \in Inner}}
    \union {OneTree("type", OneTree("notes", i)) : i \in Inner}
    \union {OneTree("notes", OneTree("type", i)) : i \in Inner}
    \union {OneTree("type", ListOf(<<Leafy(Word), One("name", Word)>>))}

NamingValues == {Word, Empty, Str("uri", <<"word">>), Str("uri", << >>)}
Pairs == {Two("hostname", v, k, w) : v \in NamingValues, w \in NamingValues, k \in {"fqdn", "name"}}

Trees == Flat \union Lists \union Nested \union Pairs
=============================================================================
