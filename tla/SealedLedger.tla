---------------------------- MODULE SealedLedger ----------------------------
(***************************************************************************)
(* pil_ledger: writers read the head of a tenant's chain, seal a fact on   *)
(* top of it and persist the row; an auditor verifies an exported copy     *)
(* that somebody may have altered.                                         *)
(*                                                                         *)
(* HmacSealer.seal is pure and keeps no head of chain: the product         *)
(* supplies seq and prev_entry_hash from its own store, so that several    *)
(* writers of the product may seal on the same head at once.  The store    *)
(* (external) keeps (tenant, seq) unique and a writer that loses the race  *)
(* starts again.  MemoryLedger.append does the same three things in one.   *)
(*                                                                         *)
(* Hashes and signatures are symbolic: a hash IS the tuple it is computed  *)
(* from, a signature is the pair of its secret and what it signs.  A fact  *)
(* keeps three parts of the payload document apart: "named" stands for     *)
(* kind, event_type and subject, which verify_payload compares; "extra"    *)
(* for actor, role, occurred_at and payload_ref, which it does not; "body" *)
(* for the payload, which no row stores.                                   *)
(***************************************************************************)
EXTENDS Integers, Sequences

CONSTANTS
    Writers, Tenants,
    InMemory,             \* the tenants whose chain is a MemoryLedger's
    Named, Extra, Bodies, \* values of the three parts of a fact
    KeyOf,                \* KeyOf[t]: tenant t's HMAC key
    RogueKey,             \* the wrong key
    None,
    MaxRows,              \* bound: rows per chain
    MaxTampers            \* bound: alterations of one export

ASSUME KeyAssumption ==
    /\ \A t \in Tenants : KeyOf[t] # RogueKey
    /\ \A t, u \in Tenants : KeyOf[t] = KeyOf[u] => t = u
    /\ None \notin Tenants

ASSUME InMemoryAssumption == InMemory \subseteq Tenants

ASSUME BoundAssumption == MaxRows \in Nat /\ MaxTampers \in Nat

Facts == [named : Named, extra : Extra, body : Bodies]

VARIABLES
    chain,   \* chain[t]: the rows the product's store (or MemoryLedger) holds
    writer,  \* writer[w]: one append under way
    export,  \* what the auditor holds: a tenant's rows, copied and altered
    tampers  \* number of alterations so far

vars == <<chain, writer, export, tampers>>

-----------------------------------------------------------------------------
(* Hashing and signing. *)

\* payload_hash_hex over payload_document.
PayloadHash(t, f) == <<"sha256", t, f.named, f.extra, f.body>>

\* entry_hash_hex: sha256(prev | seq | payload_hash).
EntryHash(prev, seq, payloadHash) == <<prev, seq, payloadHash>>

\* HmacSigner.sign
Sign(key, entryHash) == <<key, entryHash>>

\* Mutation: the numbers of rows begin at 0.
SealFromZero(t, f, seq, prev) ==
    LET payloadHash == PayloadHash(t, f)
        entryHash == EntryHash(prev, seq - 1, payloadHash)
    IN  [seq |-> seq - 1, tenant |-> t, named |-> f.named, extra |-> f.extra,
         payloadHash |-> payloadHash, prev |-> prev, entryHash |-> entryHash,
         signature |-> Sign(KeyOf[t], entryHash), keyId |-> KeyOf[t]]

\* HmacSealer.seal for tenant t.
Seal(t, f, seq, prev) ==
    LET payloadHash == PayloadHash(t, f)
        entryHash == EntryHash(prev, seq, payloadHash)
    IN  [seq |-> seq, tenant |-> t, named |-> f.named, extra |-> f.extra,
         payloadHash |-> payloadHash, prev |-> prev, entryHash |-> entryHash,
         signature |-> Sign(KeyOf[t], entryHash), keyId |-> KeyOf[t]]

\* The ValueErrors of seal(): a genesis row, and no other, has no predecessor.
SealAccepts(seq, prev) == seq >= 1 /\ (seq = 1 <=> prev = None)

\* Mutation: a row is chained to the payload before it.
TopHashOfPayload(rows) == IF rows = <<>> THEN None ELSE rows[Len(rows)].payloadHash

\* prev_entry_hash of the row that goes on top of rows.
TopHash(rows) == IF rows = <<>> THEN None ELSE rows[Len(rows)].entryHash

-----------------------------------------------------------------------------
(* HmacSealer.verify and verify_payload.                                    *)

\* expected_prev when the loop of verify reaches row i.
ExpectedPrev(rows, i) == IF i = 1 THEN None ELSE rows[i - 1].entryHash

\* Mutation: a row's signature is taken at its word.
PassesUnsigned(rows, i, key) ==
    /\ rows[i].tenant = rows[1].tenant
    /\ rows[i].seq = i
    /\ rows[i].prev = ExpectedPrev(rows, i)
    /\ EntryHash(rows[i].prev, rows[i].seq, rows[i].payloadHash) = rows[i].entryHash
    /\ rows[i].keyId = key

\* Row i passes every test of the loop.
Passes(rows, i, key) ==
    /\ rows[i].tenant = rows[1].tenant
    /\ rows[i].seq = i
    /\ rows[i].prev = ExpectedPrev(rows, i)
    /\ EntryHash(rows[i].prev, rows[i].seq, rows[i].payloadHash) = rows[i].entryHash
    /\ rows[i].keyId = key
    /\ rows[i].signature = Sign(key, rows[i].entryHash)

\* VerifyReport.ok of a verifier holding key; an empty slice is vacuously ok.
Verify(rows, key) == \A i \in 1..Len(rows) : Passes(rows, i, key)

\* Mutation: the metadata columns are not compared with the body's.
VerifyHashOnly(t, f, row) == PayloadHash(t, f) = row.payloadHash

\* verify_payload: the body an auditor was given against a row.
VerifyPayload(t, f, row) ==
    /\ t = row.tenant
    /\ f.named = row.named
    /\ PayloadHash(t, f) = row.payloadHash

-----------------------------------------------------------------------------
(* Writers. *)

Idle == [pc |-> "idle", tenant |-> None, fact |-> None, row |-> None]

NoExport == [tenant |-> None, rows |-> <<>>, count |-> 0]

Init ==
    /\ chain = [t \in Tenants |-> <<>>]
    /\ writer = [w \in Writers |-> Idle]
    /\ export = NoExport
    /\ tampers = 0

\* A writer constructs a SealInput.
Begin(w, t, f) ==
    /\ writer[w] = Idle
    /\ t \notin InMemory
    /\ writer' = [writer EXCEPT ![w] =
           [pc |-> "read", tenant |-> t, fact |-> f, row |-> None]]
    /\ UNCHANGED <<chain, export, tampers>>

\* It reads the head of the chain and calls seal().
ReadHeadAndSeal(w) ==
    LET t == writer[w].tenant
        rows == chain[t]
    IN  /\ writer[w].pc = "read"
        /\ Len(rows) < MaxRows
        /\ SealAccepts(Len(rows) + 1, TopHash(rows))
        /\ writer' = [writer EXCEPT ![w] = [@ EXCEPT
               !.pc = "sealed",
               !.row = Seal(t, writer[w].fact, Len(rows) + 1, TopHash(rows))]]
        /\ UNCHANGED <<chain, export, tampers>>

\* The store takes the row if its (tenant, seq) is still free.
Persist(w) ==
    LET t == writer[w].tenant
        row == writer[w].row
    IN  /\ writer[w].pc = "sealed"
        /\ row.seq = Len(chain[t]) + 1
        /\ chain' = [chain EXCEPT ![t] = Append(@, row)]
        /\ writer' = [writer EXCEPT ![w] = Idle]
        /\ UNCHANGED <<export, tampers>>

\* It is taken: the same fact is sealed again, on the head there is now.
Conflict(w) ==
    /\ writer[w].pc = "sealed"
    /\ writer[w].row.seq <= Len(chain[writer[w].tenant])
    /\ writer' = [writer EXCEPT ![w] = [@ EXCEPT !.pc = "read", !.row = None]]
    /\ UNCHANGED <<chain, export, tampers>>

\* The writer stops: nothing of an append that was not persisted remains.
Crash(w) ==
    /\ writer[w].pc # "idle"
    /\ writer' = [writer EXCEPT ![w] = Idle]
    /\ UNCHANGED <<chain, export, tampers>>

\* MemoryLedger.append: head, seal and append in one synchronous call, in a
\* process that has no other writer.
AppendInMemory(t, f) ==
    /\ t \in InMemory
    /\ Len(chain[t]) < MaxRows
    /\ SealAccepts(Len(chain[t]) + 1, TopHash(chain[t]))
    /\ chain' = [chain EXCEPT ![t] =
           Append(@, Seal(t, f, Len(@) + 1, TopHash(@)))]
    /\ UNCHANGED <<writer, export, tampers>>

-----------------------------------------------------------------------------
(* The export and what may befall it on its way to the auditor.             *)

\* MemoryLedger.entries, or the product's query.
Export(t) ==
    /\ export' = [tenant |-> t, rows |-> chain[t], count |-> Len(chain[t])]
    /\ tampers' = 0
    /\ UNCHANGED <<chain, writer>>

Alter(rows) ==
    /\ tampers < MaxTampers
    /\ export' = [export EXCEPT !.rows = rows]
    /\ tampers' = tampers + 1
    /\ UNCHANGED <<chain, writer>>

\* A column that entry_hash does not cover is overwritten.
AlterColumn(i) ==
    \/ \E n \in Named : Alter([export.rows EXCEPT ![i].named = n])
    \/ \E x \in Extra : Alter([export.rows EXCEPT ![i].extra = x])
    \/ \E t \in Tenants : Alter([export.rows EXCEPT ![i].tenant = t])

\* A row is sealed again, for any fact and any place in the chain, under the
\* tenant's key id but with the wrong key.
ResealRow(i) ==
    \E f \in Facts, seq \in 1..Len(export.rows), j \in 1..Len(export.rows) :
        LET row == Seal(export.tenant, f, seq, ExpectedPrev(export.rows, j))
        IN  Alter([export.rows EXCEPT ![i] =
                [row EXCEPT !.signature = Sign(RogueKey, row.entryHash)]])

\* A row of any tenant's chain is put in the place of row i.
CopyRow(i) ==
    \E u \in Tenants : \E j \in 1..Len(chain[u]) :
        Alter([export.rows EXCEPT ![i] = chain[u][j]])

DropRow(i) ==
    Alter([j \in 1..(Len(export.rows) - 1) |->
              IF j < i THEN export.rows[j] ELSE export.rows[j + 1]])

SwapRows(i, j) ==
    Alter([export.rows EXCEPT ![i] = export.rows[j], ![j] = export.rows[i]])

Tamper ==
    \E i \in 1..Len(export.rows) :
        \/ AlterColumn(i)
        \/ ResealRow(i)
        \/ CopyRow(i)
        \/ DropRow(i)
        \/ \E j \in 1..Len(export.rows) : SwapRows(i, j)

-----------------------------------------------------------------------------

WriterStep(w) ==
    \/ \E t \in Tenants, f \in Facts : Begin(w, t, f)
    \/ ReadHeadAndSeal(w) \/ Persist(w) \/ Conflict(w) \/ Crash(w)

Next ==
    \/ \E w \in Writers : WriterStep(w)
    \/ \E t \in Tenants, f \in Facts : AppendInMemory(t, f)
    \/ \E t \in Tenants : Export(t)
    \/ Tamper

Spec == Init /\ [][Next]_vars

-----------------------------------------------------------------------------
(* Properties. *)

IsRow(r) ==
    /\ r = [seq |-> r.seq, tenant |-> r.tenant, named |-> r.named,
            extra |-> r.extra, payloadHash |-> r.payloadHash, prev |-> r.prev,
            entryHash |-> r.entryHash, signature |-> r.signature,
            keyId |-> r.keyId]
    /\ r.seq \in Nat \ {0}
    /\ r.tenant \in Tenants
    /\ r.named \in Named
    /\ r.extra \in Extra

AreRows(rows) ==
    /\ rows \in Seq({rows[i] : i \in DOMAIN rows})
    /\ Len(rows) \in 0..MaxRows
    /\ \A i \in 1..Len(rows) : IsRow(rows[i])

\* A writer has a row from the moment it sealed one to the moment the store
\* took or refused it.
IsWriter(s) ==
    \/ s = Idle
    \/ /\ s = [pc |-> s.pc, tenant |-> s.tenant, fact |-> s.fact, row |-> s.row]
       /\ s.tenant \in Tenants
       /\ s.fact \in Facts
       /\ \/ s.pc = "read" /\ s.row = None
          \/ s.pc = "sealed" /\ IsRow(s.row)

\* Chains and exports are lists of rows numbered from 1, and a writer holds a
\* row exactly while it has sealed one that the store has not answered for.
TypeOK ==
    /\ chain = [t \in Tenants |-> chain[t]]
    /\ \A t \in Tenants : AreRows(chain[t])
    /\ writer = [w \in Writers |-> writer[w]]
    /\ \A w \in Writers : IsWriter(writer[w])
    /\ export = [tenant |-> export.tenant, rows |-> export.rows, count |-> export.count]
    /\ export.tenant \in Tenants \union {None}
    /\ export.count \in 0..MaxRows
    /\ AreRows(export.rows)
    /\ tampers \in 0..MaxTampers

\* Whatever the order in which writers read heads, lose races and stop, the
\* rows that were stored verify: a retry seals again, on the new head.
StoredChainVerifies == \A t \in Tenants : Verify(chain[t], KeyOf[t])

\* What seal() covers with the signature is what was sealed at that place.
SameSeal(row, sealed) ==
    /\ row.seq = sealed.seq
    /\ row.prev = sealed.prev
    /\ row.payloadHash = sealed.payloadHash
    /\ row.entryHash = sealed.entryHash

\* Whatever was altered, every row before the first one verify() calls broken is
\* the row that was sealed at that place, and ok=True says it of all of them.
HonestUpToTheBreak ==
    \A i \in 1..Len(export.rows) :
        (\A j \in 1..i : Passes(export.rows, j, KeyOf[export.tenant])) =>
            /\ i <= Len(chain[export.tenant])
            /\ SameSeal(export.rows[i], chain[export.tenant][i])

\* An auditor who has the key and a body, and to whom verify() and
\* verify_payload() both say ok, reads the tenant, kind, event_type, subject
\* and payload that were sealed, from a chain of that tenant.
AuditedRowIsAsSealed ==
    Verify(export.rows, KeyOf[export.tenant]) =>
        \A i \in 1..Len(export.rows), t \in Tenants, f \in Facts :
            VerifyPayload(t, f, export.rows[i]) =>
                /\ t = export.tenant
                /\ export.rows[i].named = chain[t][i].named
                /\ PayloadHash(t, f) = chain[t][i].payloadHash

\* ADR-0014, "The chain formula (v1)": "Tampering a stored field that is inside
\* the payload document, dropping a seq, swapping two entries, or signing with
\* the wrong key makes verify() report ok=False".
TamperDetected ==
    (export.rows # <<>> /\ Verify(export.rows, KeyOf[export.tenant])) =>
        \A i \in 1..export.count :
            /\ i <= Len(export.rows)
            /\ export.rows[i] = chain[export.tenant][i]
=============================================================================
