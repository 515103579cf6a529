--------------------------- MODULE MCConnections ---------------------------
(***************************************************************************)
(* Adapters of two products that share files, which differ in what is      *)
(* wrong with them: a second entry for a key, alike or not, a tenant that  *)
(* is null, a number, padded, blank or missing, a secret, an unknown       *)
(* store, a product in capitals, an entry without a credential.            *)
(***************************************************************************)
EXTENDS Connections, TLC

CONSTANTS axo, quill

MCAdapters == {axo, quill}
MCProductOf == [a \in MCAdapters |-> IF a = quill THEN "quill" ELSE "axo"]

T(s) == <<"text", s>>

MCStripped ==
    [s \in {"", " ", " acme ", "acme", "None", "42", "fleet", "sl1", "u", "n", "BEGIN"} |->
        CASE s = " acme " -> "acme" [] s = " " -> "" [] OTHER -> s]

Credential(name) == [store |-> T("vault"), name |-> T(name)]
Granted(access) == Credential("n") @@ [access |-> T(access)]

EntryOf(tool, t, product, credential) ==
    <<"object", [tool |-> T(tool), tenant_id |-> t, product |-> T(product),
                 endpoint |-> T("u"), credential |-> <<"object", credential>>]>>

Entry(t, product, credential) == EntryOf("fleet", t, product, credential)

Write == Entry(T("acme"), "axo", Granted("read_write"))
Read == Entry(T("acme"), "quill", Credential("n"))

MCContents ==
    {Unreadable, <<Write, Read>>, <<EntryOf("sl1", T("acme"), "axo", Granted("read_write")), Read>>,
     <<Entry(T("acme"), "axo", Credential("n")), Write>>,
     <<Entry(<<"null">>, "axo", Granted("read_write")), Entry(<<"number", "42">>, "axo", Credential("n")),
       Entry(T("None"), "quill", Credential("n"))>>,
     <<Entry(<<"number", "42">>, "axo", Credential("n")), Entry(T("42"), "axo", Granted("read_write"))>>,
     <<Entry(T(" acme "), "axo", Credential("n")), Write>>,
     <<Entry(T(" "), "axo", Credential("n"))>>,
     <<Entry(T("acme"), "axo", Credential("n") @@ [value |-> T("n")])>>,
     <<Entry(T("acme"), "axo", Credential(" "))>>,
     <<Entry(T("acme"), "axo", Credential("BEGIN"))>>,
     <<Entry(T("acme"), "axo", Granted("all"))>>,
     <<Entry(T("acme"), "axo", [name |-> T("n")])>>,
     <<Entry(T("acme"), "Axo", Credential("n"))>>,
     <<Write, <<"null">>>>,
     <<<<"object", [tool |-> T("fleet"), product |-> T("axo"), credential |-> <<"null">>]>>>>}

MCValues == {NoValue, T("acme"), T(" acme "), T(" "), T("None"), T("42"), <<"number", "42">>, <<"null">>}
=============================================================================
