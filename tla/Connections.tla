---------------------------- MODULE Connections ----------------------------
(***************************************************************************)
(* How an adapter learns to reach a tool: an operator edits a connection   *)
(* file, products construct FileConnectionProviders over it, at any time   *)
(* and again, and adapters, whose tenant resolve_tenant gave them, ask     *)
(* their product's provider.  A provider reads the file once, all of it or *)
(* none of it.                                                             *)
(*                                                                         *)
(* A JSON value is <<"text", s>>, <<"number", s>> with s its digits,       *)
(* <<"null">>, or <<"object", f>> with f a function from its keys; what    *)
(* else may stand in a file is refused wherever an object or an array is   *)
(* called for, as a null is.                                               *)
(***************************************************************************)
EXTENDS Sequences, FiniteSets

CONSTANTS
    Adapters,     \* adapter instances
    ProductOf,    \* ProductOf[a]: the product that runs adapter a
    Tools,
    Contents,     \* what the operator may write: a sequence of entries, or Unreadable
    Unreadable,   \* no file, no JSON, or no 'connections' array
    Values,       \* what may be passed for a tenant, with NoValue for no argument
    NoValue,
    Stripped,     \* Stripped[s]: s without surrounding whitespace
    ProductNames, \* texts that match _PRODUCT_PATTERN
    SecretLike,   \* texts a CredentialHandle refuses for a name
    Nothing       \* no provider, no tenant, no answer

ASSUME TextAssumption == "" \in DOMAIN Stripped /\ Stripped[""] = ""

VARIABLES
    file,   \* what the file holds
    held,   \* held[a]: the provider of a's product, and what file it read
    tenant, \* tenant[a]: the tenant a was configured for
    answer  \* what the last connection_for returned, and to whom

vars == <<file, held, tenant, answer>>

Stores == {"vault", "environment"}
Access == {"read_only", "read_write"}

-----------------------------------------------------------------------------
(* Tenancy. *)

Blank(s) == Stripped[s] = ""

\* Mutation: surrounding whitespace is let through.
IsTenantPadded(value) == value[1] = "text" /\ ~Blank(value[2])

\* _require_str and Tenant.__post_init__
IsTenant(value) == value[1] = "text" /\ ~Blank(value[2]) /\ Stripped[value[2]] = value[2]

\* resolve_tenant: exactly one source; None counts as none.
Supplied(value) == value # NoValue /\ value[1] # "null"

Resolves(token, config) ==
    \/ Supplied(token) /\ ~Supplied(config) /\ IsTenant(token)
    \/ Supplied(config) /\ ~Supplied(token) /\ IsTenant(config)

Resolved(token, config) == IF Supplied(token) THEN token[2] ELSE config[2]

-----------------------------------------------------------------------------
(* Loading. *)

IsObject(f, key) == key \in DOMAIN f /\ f[key][1] = "object"

\* str(f.get(key, ""))
Text(f, key) ==
    IF key \notin DOMAIN f THEN "" ELSE IF f[key][1] = "null" THEN "None" ELSE f[key][2]

AccessOf(credential) ==
    IF "access" \in DOMAIN credential THEN Text(credential, "access") ELSE "read_only"

\* _connection_from and CredentialHandle.__post_init__: a handle, never a value.
CredentialLoads(c) ==
    /\ Text(c, "store") \in Stores
    /\ AccessOf(c) \in Access
    /\ DOMAIN c \intersect {"value", "secret", "password"} = {}
    /\ ~Blank(Text(c, "name")) /\ Text(c, "name") \notin SecretLike

\* `x or {}` makes an object of these.
Falsy == {<<"null">>, <<"text", "">>, <<"number", "0">>}

\* The rest of _connection_from, and ToolConnection.__post_init__.
EntryLoads(e) ==
    /\ IsObject(e, "credential") /\ CredentialLoads(e["credential"][2])
    /\ Text(e, "product") \in ProductNames
    /\ "options" \in DOMAIN e =>
          e["options"][1] = "object" \/ e["options"] \in Falsy
    /\ ~Blank(Text(e, "tool")) /\ ~Blank(Text(e, "tenant_id")) /\ ~Blank(Text(e, "endpoint"))

ToolConnection(e) ==
    [tool |-> Text(e, "tool"), tenant_id |-> Text(e, "tenant_id"),
     product |-> Text(e, "product"), endpoint |-> Text(e, "endpoint"),
     credential |-> [name |-> Text(e["credential"][2], "name"),
                     access |-> AccessOf(e["credential"][2])]]

Key(c) == <<c.tool, c.tenant_id, c.product>>

\* Mutation: entries for one key are let through, and one of them is ignored.
LoadsLast(content) ==
    /\ content # Unreadable
    /\ \A i \in DOMAIN content : content[i][1] = "object" /\ EntryLoads(content[i][2])

\* _load raises on anything else: no entry is skipped, no key has two.
Loads(content) ==
    /\ content # Unreadable
    /\ \A i \in DOMAIN content : content[i][1] = "object" /\ EntryLoads(content[i][2])
    /\ \A i, j \in DOMAIN content :
          Key(ToolConnection(content[i][2])) = Key(ToolConnection(content[j][2])) => i = j

Loaded(content) == {ToolConnection(content[i][2]) : i \in DOMAIN content}

ASSUME NothingAssumption ==
    \A content \in Contents : Loads(content) => Nothing \notin Loaded(content)

-----------------------------------------------------------------------------

Init ==
    /\ file \in Contents
    /\ held = [a \in Adapters |-> Nothing]
    /\ tenant = [a \in Adapters |-> Nothing]
    /\ answer = Nothing

\* The operator writes the file anew.
Edit(content) ==
    /\ file' = content
    /\ UNCHANGED <<held, tenant, answer>>

\* FileConnectionProvider(path), or it raises, and who has a provider keeps it.
Construct(a) ==
    /\ Loads(file)
    /\ held' = [held EXCEPT ![a] = [connections |-> Loaded(file), read |-> file]]
    /\ UNCHANGED <<file, tenant, answer>>

\* AdapterConfig, or the claim of a request's token, or it raises.
Configure(a, token, config) ==
    /\ Resolves(token, config)
    /\ tenant' = [tenant EXCEPT ![a] = Resolved(token, config)]
    /\ UNCHANGED <<file, held, answer>>

Returned(a, tool, connection) ==
    [adapter |-> a, tool |-> tool, tenant |-> tenant[a], connection |-> connection,
     read |-> held[a].read]

\* connection_for, or ConnectionNotConfiguredError; has_connection tells which.
Ask(a, tool) ==
    /\ held[a] # Nothing /\ tenant[a] # Nothing
    /\ LET key == <<tool, tenant[a], ProductOf[a]>>
           found == {c \in held[a].connections : Key(c) = key}
       IN  \/ \E c \in found : answer' = Returned(a, tool, c)
           \/ found = {} /\ answer' = Returned(a, tool, Nothing)
    /\ UNCHANGED <<file, held, tenant>>

Next ==
    \/ \E content \in Contents : Edit(content)
    \/ \E a \in Adapters :
          \/ Construct(a)
          \/ \E token, config \in Values : Configure(a, token, config)
          \/ \E tool \in Tools : Ask(a, tool)

Spec == Init /\ [][Next]_vars

-----------------------------------------------------------------------------
(* Properties. *)

\* The entries of a file for a tool, a tenant and a product.
EntriesFor(content, tool, t, product) ==
    {i \in DOMAIN content :
        /\ Text(content[i][2], "tool") = tool
        /\ Text(content[i][2], "tenant_id") = t
        /\ Text(content[i][2], "product") = product}

\* However the file is edited before, between and after: what an adapter is
\* told is what one entry says of the file that its product read, the only one
\* for its tool, its own tenant and its product.  It may write only where that
\* entry says so, and is told that nothing is configured only where no entry is.
AnswersAreTheFiles ==
    answer # Nothing =>
        LET read == answer.read
            c == answer.connection
            entries == EntriesFor(read, answer.tool, answer.tenant, ProductOf[answer.adapter])
        IN  IF c = Nothing THEN entries = {}
            ELSE \E i \in entries :
                    /\ entries = {i}
                    /\ c.endpoint = Text(read[i][2], "endpoint")
                    /\ c.credential.name = Text(read[i][2]["credential"][2], "name")
                    /\ c.credential.access = "read_write" =>
                          /\ "access" \in DOMAIN read[i][2]["credential"][2]
                          /\ Text(read[i][2]["credential"][2], "access") = "read_write"

\* A tenant has one spelling, from the token or the configuration to the answer:
\* no two adapters go by two of one tenant, none by a blank one, and what is
\* handed out is no entry under a blank or padded id, although those load.
OneSpellingPerTenant ==
    /\ \A a, b \in {x \in Adapters : tenant[x] # Nothing} :
          Stripped[tenant[a]] = Stripped[tenant[b]] => tenant[a] = tenant[b]
    /\ answer # Nothing /\ answer.connection # Nothing =>
          LET t == answer.connection.tenant_id IN Stripped[t] = t /\ t # ""
=============================================================================
