# A verification project for PIL

The platform integration layer (`src/`) takes vendor alerts in, translates them
into envelopes, redacts them, writes what they say into a tenant-scoped graph,
decides whether an action on a device is permitted, runs and verifies scripts on
devices through Fleet, and seals what was done into a hash-chained ledger. It is
a set of Python packages that a product imports. It has no server of its own:
its concurrency is that of the product's processes and coroutines around it, and
of the services it talks to (Fleet, the graph database, the product's store).

The modules here model that behaviour in TLA+, TLC checks them on small
instances, and TLAPS proves the main safety properties for every value of the
constants. `PROJECT.json` names, for every definition, the source lines it
translates, and for every hazard of the code the properties that would catch it.

## 1. Inventory

Paths below are relative to `src/packages/*/src/`, except the scripts.

| component | state | operations | what is hard | what makes it correct |
|---|---|---|---|---|
| Script execution, `pil_adapters/execution/fleet.py` `execute_on_device` | none but the coroutine's locals; Fleet keeps the executions | resolve the host, POST the script, poll for the result, retry on transient errors | a POST that arrives although its reply is lost; copies of a script left behind by a retry; deadlines between awaits | answers come from the last attempt's own run, on one host, within a budget, and every call ends |
| Device checks, `verify_device_state` | results so far, `all_passed` | one `execute_on_device` per check | copies of an earlier check still printing; an exception out of the middle of the list | a pass vouches for every check's own output; the verdict covers the list |
| Host lookup, details and recheck, `check_connectivity`, `fetch_device_details`, `_resolve_host_id`, `verify_alert_cleared` | none; the alert's id carries the host from the first to the last | two GETs to connect, two to profile, two to resolve, one GET and one POST to recheck | each treats a failed request in its own way; an error's text is tested for truth; a fuzzy match; hosts that come and go in between; a page limit; an id that names no host | an error that says what it is is never taken for an absent device; what the job goes by is a host Fleet had; a verdict is about the host the alert names |
| Sealed ledger, `pil_ledger` | the product's chains, `MemoryLedger._chains` | `seal`, `append`, `verify`, `verify_payload` | writers that seal on the same head, crashes before persisting, altered exports | stored chains verify; what verifies is what was sealed |
| Graph operations, `pil_graph`, `pil_graph_writer`, `GraphSink` | nodes and relationships of the graph | project an envelope, MERGE nodes and edges one transaction at a time | concurrent MERGEs, an emit cut short and repeated, alerts in any order | one node per uid, edges find their ends and stay in their tenant, create-only properties never flip |
| In-memory driver, `pil_graph/fakes.py` | `_nodes`, `_edges` | the same operations without a database | tests that pass against it and fail against the graph | it holds what the graph holds |
| Policy gate, `pil_gate` with `pil_capabilities` | none | `decide` | the order of its rows; signals not computed | an allow is earned; a computed signal only narrows |
| Redaction, `pil_contracts/redaction.py`, `RedactingSink` | `secrets_seen` | recursive pass over a payload, then the inner sink | the key a value is under, through nested lists and maps; an inner sink that raises | a leaf under a key is treated by its path alone; structure is kept; no change goes unmarked |
| Parity harness, `src/scripts/parity.py`, `_axo_driver.py` | the committed expected outputs | collect, drive AXO, drive PIL, compare, record | the corpus, AXO and PIL all change between runs; fixtures that are skipped | PASSED means parity, and conformance to what was recorded |
| Translators and their registry, `translators/`, `registry.py`, `CollectingSink` | the registry's table, the sink's list | one payload to one envelope, for one tenant | ids that are missing, null, empty, in another field, or made of fallbacks | two alerts that have names and are not one never share a Finding |
| Envelope and versioning, `pil_contracts/envelope.py`, `versioning.py` | none | build, write and read messages | producers of older and newer versions; a reader that passes a message on | what this major version wrote is read as it was written, by everyone |
| Tenancy, `pil_contracts/tenancy.py` | none | resolve the one tenant an adapter works for | two sources, coercions, whitespace | a tenant has one spelling |
| Connection configuration, `connection.py` | what a provider read of a file | load all entries or none, hand out one | a file edited between constructions, two entries for one key, values of other types | an answer is what one entry says, with the access it grants |
| Clock, flags, text helpers, canonical text, `NullSink`, `StaticGate`, `StaticLedger`, `StaticConnectionProvider`, vocabularies | at most a stored value | look-ups and canned answers | – | not modelled (section 6) |

Interactions. A translator's envelope goes to a sink: `RedactingSink` wraps
another one, `GraphSink` projects it (`pil_graph_writer.project`) and hands
the operations to a `GraphDriver`. An agent that wants to act asks the gate, then
`check_connectivity`, `execute_on_device`, `verify_device_state` and
`verify_alert_cleared`, and seals the outcome. All these are calls of the
product, in whatever order it chooses; the components share no memory. They meet
in the alert's identity (translator, message, graph writer: `AlertIntake`; and
the recheck that reads the host back out of it: `FleetJob`), in the order in
which one job asks Fleet about its host (`FleetJob`), in the script call (checks
over execution: `DeviceChecks` over `ScriptCall`), in a tenant and its connection
(`Connections`), and in the operations both drivers are given
(`GraphOperations`, under `GraphIngest` and `FakeGraph`).

## 2. Modules

| module | models | abstracts |
|---|---|---|
| `ScriptCall` | the contract of an execution port | everything but started and ended copies and the answer |
| `FleetExecution` | `execute_on_device`, `_resolve_host_id`, `_run_script` | bodies of replies to what is read of them; time to integers |
| `DeviceChecks` | `verify_device_state`, over `ScriptCall` | commands; outputs to empty, expected, other |
| `FleetJob` | `check_connectivity`, `fetch_device_details`, `_resolve_host_id` and `verify_alert_cleared` in one job | a host's fields to its identity and staleness; a UUID to its eight-character prefix |
| `SealedLedger` | `HmacSealer`, `MemoryLedger`, the product's store, an altered export | hashes and signatures symbolic; a payload to three parts |
| `GraphContent` | the contract of a sink into the graph | order and transactions |
| `GraphOperations` | `project`, `uid`, the Cypher of the upserts | property maps to one create-only and one fresh property |
| `GraphIngest` | `GraphSink.emit` by several emitters on one graph | – |
| `FakeGraph` | `InMemoryGraphDriver` beside the graph | – |
| `Translators` | the fields of the six translators that identify an alert and its device, and when they raise | texts to their parts between colons; severity tables |
| `Messages` | `to_dict`, `from_dict`, `SchemaVersion` | fields that get the same checks to a part of them |
| `AlertIntake` | producers of this build and others, relays, and consumers into `CollectingSink` and `GraphSink`: composes `Translators`, `Messages` and `FakeGraph` | – |
| `Connections` | `resolve_tenant`, `AdapterConfig`, `FileConnectionProvider` over a file that is edited | JSON values to text, number, null, object |
| `PolicyGate` | `ReferenceGate.decide` | reasons, decision ids |
| `Redaction` | `redact`, `RedactingSink` | a payload to what stands at its paths; key lists to a few keys; a string to whether a pattern fires, where its last `/` is, and whether a match runs over it |
| `Parity` | an invocation of the harness, and the changes between invocations | translations to projections or error types |

`MC*` modules hold TLC's instances. `*Proofs` modules hold theorems.

### How state and actions correspond to the code

**FleetExecution.** One step is one `await`: the time it takes, its answer, and
all that the code does up to the next one. `pc` is the await the coroutine is
suspended at, `attempt`, `host` and `deadline` are locals of the same name, and
`fleet[c][k]` is the execution that attempt `k` posted, in Fleet. The
environment may take a POST in although its reply is lost (`SubmitTransient`,
`SubmitFailed`), end an execution at any time or never, and report
`host_timeout` and end it still. Every request may take up to `MaxLag`, the bound
httpx's timeouts give.

**DeviceChecks.** The calls are instances of `ScriptCall` (`CallSteps`,
`CopyEnds`); `FleetExecution` implements that contract, so the composition
argument is: a check sees of a call no more than the contract says, in
particular that copies left behind may end and print during later checks.

**FleetJob.** One step is one request and what the code does with its answer.
`enrolled`, `stale` and `holds` are Fleet and its hosts, which move between any
two steps (`HostsMove`, `HostsChange`); `seen` and `gone` are history;
`uuid_prefix` is what stands last in the alert's id, as
`verify_alert_cleared` splits it. `met` records what `check_connectivity` ran
into: an error status or an exception with a text (`"error"`), an exception without
one, whose `str()` the code takes for no error (`"silent"`), a 200 that names no host
(`"blank"`). `connected`, `profile`,
`resolved`, `host_id` and `verdict` are what the functions return or take. The
order of the calls is the product's, as the docstrings have it; a job that is
told "offline" or "not found" stops, one that is rechecked in vain asks again.

**AlertIntake.** `Produce` is `translate` and `to_dict`, by this build or by
another; other builds are external, and `BuildAssumption` holds them to the rule
of `docs/adr/0002` and `versioning.py` that within a major version one only adds.
`Relay` is `from_dict` and `to_dict`. `Consume` is `from_dict`, an entry in
`CollectingSink`'s list and the operations `GraphSink` makes of the envelope,
which `DoNode` and `DoEdge` apply to the graph and to `InMemoryGraphDriver` one by
one. Emits do not overlap here; that is `GraphIngest`'s subject.

**Connections.** `Edit` is an operator who writes the file anew. `Construct` is
`FileConnectionProvider(path)`, which reads the file once, all of it or none of it;
`Configure` is `resolve_tenant` and `AdapterConfig`; `Ask` is `connection_for`. A
JSON value is tagged with its type, since the code's `str()` erases it and
`resolve_tenant` refuses it.

**SealedLedger.** `Begin`, `ReadHeadAndSeal`, `Persist`, `Conflict` and `Crash`
are a writer of the product around the pure `seal()`; the store, which is
outside the repository, is ASSUMED to keep `(tenant, seq)` unique. No document of
the repository asks that of it (`docs/adr/0014-sealed-ledger.md:43` only has the
product supply `seq` and `prev_entry_hash` from its store), but without it two
writers that read one head store two rows of one number, and no chain property
below holds of their rows. `StoredChainVerifies` therefore says: with such a
store, every order of reads, conflicts and crashes is safe. `AppendInMemory` is
`MemoryLedger.append`, for the tenants whose chain is in memory. `Export` copies
a chain, and `Tamper` alters it: columns that the entry hash does not cover, rows
sealed with the wrong key, rows copied from another place or chain, dropped and
swapped. A hash is the tuple it is computed from, a signature the pair of key and
message: collisions and forgeries without the key are assumed away, as the code
assumes.

**GraphIngest.** Each operation runs in its own transaction. A MERGE is two
steps, `SeekNode` and `MergeNode`: without the uniqueness constraint
(`ApplyConstraints`) two emitters can both find nothing and both create. `Abort`
is a driver error or the end of the process, after which any emitter may emit
the envelope again. The database is external and modelled from the Cypher in
`operations.py`.

**Redaction.** A payload is a function from its paths to what stands there, and
the pass is one call for each path: `parents` is what `_walk` and `_leaf` hand
down on the way there, a recursive function of the path's length, and `Treated`
is the call at the end of it. Containers come back as they were, of what the
calls below them return. The properties go by the key a leaf is under and the
nearest one above that, which the code does not compute.

**Parity.** An invocation reads its files once and is one step; between
invocations a fixture appears, breaks or is removed, AXO moves, PIL changes.

## 3. Runs

Every run is exhaustive. Passing runs check all the properties named;
violation runs exhibit a disagreement between the code and its documentation.
`CHECK_DEADLOCK FALSE` is set where the modelled system may stop: calls and jobs
that have ended, a bound on rows, emits or time.

| run | bounds | what it shows |
|---|---|---|
| `fleet_calls` | one call, two hosts, poll interval 2 and budget 3, backoff unit 3, lag 1; 237 thousand states | `EndsInTime`, `WaitsBeforeRetrying`, `AnswerIsTheLastRuns`, `RetriesStayOnOneHost`, `EveryCallEnds`, and that `FleetExecution` implements `ScriptCall` |
| `checks_pass` | two checks, two copies each; 603 thousand | `PassVouches`, `OneCallAtATime`, `VerdictCoversAll`, `EveryVerificationEnds` |
| `lookup_agree` | three hosts, two of one prefix, a page of two; 539 thousand | `EscalationMeansAbsence`, `SentOnlyIfSeen`, `VerdictIsTheHosts` |
| `lookup_defer` | the same | violation: an outage after a deferral is reported as "Host not found" |
| `alert_names` | 34 productions from six sources and seven builds, two messages produced, one passed on, three read; 180 thousand | `GraphsAgree`, `AlertsKeepApart`, `ReadAsProduced` |
| `ledger_chain` | two writers, a stored and an in-memory chain, two rows each, two alterations; 207 thousand | `StoredChainVerifies`, `HonestUpToTheBreak`, `AuditedRowIsAsSealed` |
| `ledger_tamper` | the same with one alteration, and two values for the columns only the payload document repeats | violation: an altered column, or a dropped last row, verifies |
| `graph_emits` | two emitters, three alerts of two tenants, one device id; 471 thousand | `UidUnique`, `EmitFindsItsEnds`, `EdgesStayInTenant`, `StableNeverFlips`, and that emits implement `GraphContent` |
| `gate_table` | the ten capabilities, radius to 2; all 480 requests and all pairs | `AllowIsEarned`, `SignalsOnlyNarrow` |
| `redact_trees` | two emits of the payload trees of `MCRedaction`, with and without salt; 47 thousand | `TreatedByPath`, `StructureKept`, `ChangedIsMarked`, `JoinsWithinAKind` |
| `parity_pass` | two sources, four fixtures, two of which share an expected output, two changes; 427 thousand | `PassIsParity`, `PassMeetsTheSpecification`, `RecordingIsStable` |
| `connections` | two adapters of two products, 16 files, eight values for a tenant; 99 thousand | `AnswersAreTheFiles`, `OneSpellingPerTenant` |

Why the bounds are enough for the cases that matter.

* Calls of `execute_on_device` share nothing but Fleet, where each has its own
  executions, so one call is enough for TLC; the proofs hold for any number. The
  three attempts are the code's. The polling budget is larger than the interval
  and not a multiple of it, so the deadline falls between a sleep and a request.
  `ClockBound` (45) lies above the longest call, which `EndsInTime` checks.
* Two checks are the fewest for a copy of one to end during another. Two hosts of
  one prefix and one apart, with a page of two, give a match, a wrong match, and a
  host beyond the page. Two alterations allow one to hide another.
* Of every source `alert_names` has a payload with an id and some whose id is
  missing, null, empty, in another field or in another's form; of Fleet also one
  whose host is missing and some whose policy is. A collision takes two messages
  and a wrong relay one; the third reading repeats or reorders them.
* Two products are the fewest for one to have read an older file than the other.
  The files differ in one fault each, and in pairs where a fault needs a second
  entry.
* Two emitters race; the third alert differs in tenant and shares the device
  id; two alerts about one device disagree about names and time.
* The trees contain every kind of leaf under every kind of key, and the
  nestings list-in-map, map-in-list and list-in-list under keys that do and do
  not change the classification of what is below them. Among the texts are some that a
  match runs through, from the head over the last `/`.
* Two changes between invocations let AXO and PIL change alike, or a fixture break
  after it was recorded. A minimum of one per source is the least that can fail.

Symmetry is used over writers and fact names (`ledger_*`), emitters
(`graph_emits`), and projections and error types
(`parity_pass`): values the models only compare. No run with a liveness property
uses symmetry.

### Fairness

`FleetExecution` assumes `WF(CallStep(c))`: the event loop resumes a
coroutine whose sleep is over, and httpx's timeouts end every request, so some
answer always comes. Nothing is assumed of Fleet or of the hosts: an execution
may stay queued for ever, and `EveryCallEnds` holds because of the deadline and the
range of attempts. `DeviceChecks` assumes `WF(LoopStep)`: its call goes on taking
steps until it ends, which is what `EveryCallEnds` says of it. The other modules
make no fairness assumption and state no liveness.

## 4. What is proved

TLAPS checks the following for every value of the constants that meets the
named `ASSUME`s of the module.

* **`FleetExecutionProofs`** – `TypeCorrect`, `Invariance`, `AnswerCorrect`,
  `OneHost`, `Refinement` (`Spec => ImplementsContract`), `OnSchedule`, `InTime`,
  `WaitsKept`, `Countdown`, `StepsAreBounded`. The invariant
  `IInv` is needed because the properties speak of `attempt[c]` only at the end:
  `CallInv` says that attempts not yet made have no execution, that a call past
  its POST has one, that every execution is on `host[c]`, and that an answered
  call's execution ended as it was told. The refinement shows that each step
  starts, ends, answers, gives up or stutters. For the times, `TimeInv` bounds
  the clock of a call from both sides at every await: attempt `a` is posted no later
  than `PostedBy[a]` and no earlier than `Waited[a]`, and a polling call is before
  its deadline or at most one interval past it. `InTime` has the hypothesis
  `ElapsedBound < ClockBound`: the clock's bound is the model's, not the code's, and
  a bound below the longest call would stop the call itself.
  `Countdown` is an action property: every step of a call uses up at least one of
  the steps it has left (`StepsLeft`, of which there are at most `MaxAttempts *
  Share`), and no step of Fleet, a host or another call gives one back. That is all
  of `EveryCallEnds` but the fairness.
* **`SealedLedgerProofs`** – `TypeCorrect`, `Invariance`,
  `StoredChainsVerify`, `VerifiedRowsAreStored`, `AuditedRowsAreAsSealed`. The
  invariant: a stored row is what `seal()` makes of some fact at its place
  (`StoredInv`); a writer's row is too, for a place that is taken or next
  (`WriterInv`); a signature in an export is the wrong key's or a stored row's
  (`ExportInv`). A row that verifies therefore carries a stored row's signature,
  and the signature covers its hash, place and predecessor.
* **`GraphIngestProofs`** – `Invariance`, `UidsUnique`,
  `EmitsFindTheirEnds`, `StableKept`, `Refinement` (`Spec =>
  ImplementsContent`), `GraphInvariance`, `TypeCorrect`, `TenantsApart`. The
  invariant follows an emit: what is behind it is in the graph (`EmittersInv`),
  a returned envelope's elements all are (`DoneInv`), and nodes are unique
  (`UidUnique`). `EndsComeFirst` is the fact about `project()` that it rests on:
  the nodes of an edge are written before it. `GraphInv` adds what the graph
  holds: a key's uid begins with its tenant (`Owner`), every operation of an
  envelope is about keys of the envelope's tenant (`OperationsOwned`), and an
  edge's ends are there and have one owner.
* **`ParityProofs`** – `SpecificationMet`, `PassesAreParity`, `RecordingsAgree`. A
  report is taken back by any change (`ChangeTakesBack`), so a pass speaks of the
  state it is found in (`PassedMeans`). A recording with nothing changed since the
  last finds what that one wrote (`RecordedInv`, `RecordingIs`).
* **`AlertIntakeProofs`** – `MessagesSurvive`, `DriverInvariance`, `DriverAgrees`,
  `EdgesNeverWait`, `FindingsApart`. Three invariants, each on top of the one before.
  `MessagesInv`: what was sent is what some build makes of a production, and what
  was passed on is readable, has all fields of this version, and tells what some
  sent message tells; the text of a version reads back as that version
  (`VersionsRoundTrip`). `GraphsInv`, between any two operations of an emit: what
  is left to do was planned, with an edge after the nodes at its ends (`TodoInv`); a
  key, or a uid, has one node (`OneNodeEach`); and each driver has a node where the
  other has one, equal as long as no alert takes the id of a device (`DriverInv`).
  That condition only ever goes from true to false, because neither driver removes
  a node. That edges find their ends is `EdgesNeverWait`: the guard of `DoEdge`
  stops nothing. `EnvelopesInv`: the id of every message and envelope is what a
  translator made of a payload. `FindingsApart` follows by giving the alert back
  from a Finding's key: uids of different tenants, sources or ids differ
  (`UidsTellApart`), and within a source an id is the alert's own unless its lack
  of one is disguised (`AlertIsOwnId`, source by source). For Fleet that takes a policy
  and a host that the payload names (`OwnPolicy`, `NamedByPolicy`) and that can be
  told apart again in the id (`PoliciesTellApart`).
  Assumed are `BuildAssumption` (a build of the same major version drops no field
  and keeps the kind: the rule of `versioning.py`), `PayloadAssumption` (a tenant has
  an id, which `Tenant.__post_init__` enforces; payload fields are texts or null) and
  `PrefixAssumption` (the first eight characters of a UUID are one part).
* **`AccessProofs`** – of `PolicyGate`: `TypeCorrect`, `AllowsAreEarned`,
  `ComputingNarrows`, from the invariant that the answer is the table's. Of
  `Connections`: `Invariance`, `AnswersCorrect`, `SpellingsAreOne`, from `HeldInv` (a
  provider holds a file that loads), `TenantInv` (an adapter's tenant is stripped)
  and `ServedInv` (no connection was handed out under another spelling). Of
  `Redaction`: `SinkInvariance`, `PathsDecide`, `StructureIsKept`,
  `ChangesAreMarked`, `JoinsSurvive`, `CredentialsAreStripped`, for payloads of any
  shape and depth. `SinkInv` says that what the inner sink took is what the pass
  makes of the payload beside it, and that its secrets were noted; it is inductive
  because `secrets_seen` grows before the inner sink is called and is never reset.
  The rest is about the pass: `ParentIsNearest` shows that the parent handed down is
  the nearest key above, `TextBecomes` what becomes of a text, `EntryKeeps`,
  `EntryCleans` and `LeafKeeps` what becomes of one value, and
  `PseudonymsDiffer` that names stay apart. `ParentIsNearest` is an induction on the
  steps of a path. The library's induction theorems take an operator, so
  `ReachedByOnes` states what is needed for a set, from the pigeonhole principle.
  Assumed is `PayloadAssumption`: a payload is a tree of maps and lists, as what
  JSON gives is. One module for the three, as they say who may act, how, and what
  leaves; they share no state.
* **`FleetJobProofs`** – `TypeCorrect`, `Invariance`, `EscalationsAreHonest`,
  `HostsWereSeen`, `VerdictsAreTheHosts`. The invariant says what each step may
  rely on: the history keeps up with Fleet (`HistoryInv`); the connectivity check has
  met nothing at its first request and no error at its second, which it makes only
  after the device was missing or a 200 named no host (`CheckInv`);
  a job past it was told to go on, a host taken for the
  recheck fits the name (`PathInv`), and the hosts the job goes by were there
  (`SeenInv`).
* **`DeviceChecksProofs`** – `Invariance`, `PassesVouch`, `OneCallAtOnce`,
  `VerdictsCoverAll`, `LatestInvariance`, `Countdown`, `StepsAreBounded`. A call that was told an ending was told its last copy's
  (`CallInv`), calls behind the loop are answered and those ahead have not begun
  (`OrderInv`), the results are those of the checks behind the loop, in order
  (`ResultsInv`), and as long as all have passed the device did what they ask for
  (`PassInv`). The last needs that a copy that has ended stays as it ended, while
  others end and print. `LatestInvariance`, `Countdown` and `StepsAreBounded` are
  about the steps a verification has left: a share for each check it has not passed
  (a start for each copy that may still be started, the call's end, the judging) and
  one to conclude. Every step of the loop uses up one, and no copy that ends gives
  any back. They need that one of the copies started was started last (`LatestInv`).

Only model-checked:

* `EveryCallEnds` and `EveryVerificationEnds`: reasoning under fairness, and that a
  step is enabled, are out of the prover's reach. The two `Countdown` theorems and
  `StepsAreBounded` prove what they need besides: no call takes more than
  `MaxAttempts * Share` steps, and no verification more than a share for each check
  and one.

What the two violation runs refute is of course not proved.

## 5. Where code and documentation disagree

Two disagreements have a run of their own.

* `ledger_tamper`: `pil_ledger/seal.py:109` against
  `docs/adr/0014-sealed-ledger.md:88-90`. Columns other than those the entry hash
  covers may be altered, and last rows dropped, without `verify()` noticing;
  `verify_payload` notices some of it, given the body.
* `lookup_defer`: `execution/fleet.py:416` and `352-362` against its
  docstring at `157-158`. A job deferred on a failed lookup never reaches the script
  API when the lookup fails again; it ends with "Host not found".

Others were met while modelling. The models do what the code does, and the
properties are stated so that they hold of it:

| code | what it says elsewhere |
|---|---|
| `pil_ledger/seal.py:82` expects `seq` 1 first, so an unaltered later slice is reported broken | `docs/adr/0014-sealed-ledger.md:20-22`: an auditor can verify "an exported slice" |
| `pil_graph/operations.py:119` sets `last_seen_at` back when an earlier observation is emitted later | `operations.py:93-96`: "about the most recent observation" |
| `pil_graph/fakes.py:49` keys a node without its label | `fakes.py:34-35`: "keyed the same way `itkg.go` keys a real graph" |
| `fakes.py:69` appends an edge again on every emit | `fakes.py:58-59`: mirrors MATCH-before-MERGE |
| `pil_gate/gate.py:63` skips the tenant-boundary row for an absent radius, so withholding one widens | `docs/adr/0013-policy-gate.md:66-69`: "can never widen an outcome" |
| `execution/fleet.py:603` passes a check that expects `""` when nothing ran | `execution/shapes.py:93`: "explicit checks run on the device" |
| `fleet.py:190-193` keeps `str(exc)` and tests it for truth, so that an exception without a text, as a bare timeout's, counts as no error: the device is "not found" (`206-213`) | `fleet.py:193-195`: "Transient API failure", which does not escalate a job, and `207`: "Both lookups succeeded" |
| `fleet.py:175-178` goes on to the query after a 200 that names no host, and "not found" may follow | `fleet.py:156-157`: anything "other than a clean 404" is transient |
| `fleet.py:178` defers after the first failed lookup | `fleet.py:156-157`: "If both lookups fail" |
| `fleet.py:544` takes the first host with the prefix | `fleet.py:527-528`: host not found is "inconclusive" |
| `translators/fleet.py:77,95` with `execution/fleet.py:544`: an empty `uuid` gives an id that ends in "-", and every UUID starts with what is left, so the first host listed is rechecked | `fleet.py:523-530`: the last segment is "an 8-character prefix of the host's Fleet UUID" |
| `translators/fleet.py:77,95` makes one id of all hosts whose uuid is missing | `pil_graph_writer/identity.py:58-60`: "always constructed from real components" |
| `translators/fleet.py:79-80,95` makes "Unknown policy", or an empty text, of a missing or empty policy, and one Finding of all such alerts of a host | `identity.py:58-60`, as above, and `76-83`: "Refusing to write is the only option that never fabricates a merge" |
| `connectwise` writes a null id as "None", `legacy` an empty one as "", and `sl1` and `addigy` keep a last id that is either: each a Finding that all such alerts share | `identity.py:57-58`: they "fall back to the bare string `unknown`"; `76-78`: two alerts on one Finding "is data loss" |
| `envelope.py:226-233` raises on the kind of a later version | `versioning.py:16-18`: a consumer "drops the rest. It does not raise" |
| `connection.py:416` makes "None" of a null `tenant_id` and "42" of 42, which an adapter of that name is then given | `tenancy.py:143-148`: "how 42 and \"42\" become two tenants", and None "a real-looking row" |
| `translators/fleet.py:95` makes one id of a policy with the id 42 and of one named "42" without an id | `identity.py:76-78`, as above |
| `redaction.py:373` hashes under the key's kind, so one name under two kinds gets two pseudonyms | `redaction.py:31-34`: "two payloads naming the same host still name the same host" |
| `redaction.py:367` makes a string of any leaf under a secret key | `redaction.py:36-37`: "same types" |
| `redaction.py:342-343` only searches the texts of a list: a bare one under `password`, or a name under `hostname` given a salt, stays as it is and unmarked | `redaction.py:108-110`: a value under such a key is a credential "regardless of what the value looks like"; `27-28`: stripping is "unconditional" |
| `redaction.py:103-106` matches run over `/`, so a reference that is long, or has `key=` in it, loses its head and slashes | `redaction.py:36`: "Structure is never perturbed"; `98-101`: the length "keeps it from eating ordinary identifiers" |
| `redaction.py:389` keeps the head of a reference that is pseudonymised without searching it | `redaction.py:315`: "Credential stripping is not optional and does not depend on the salt" |
| `redaction.py:372` marks a confidential leaf that held a credential as confidential only | `redaction.py:295`: "True when at least one credential was stripped" |
| `scripts/parity.py:169` removes no expected output of a deleted fixture | `parity.py:152-153`: "rather than as a silent orphan" |
| `parity.py:155` keeps the last path component only | `parity.py:152`: "Keyed on the fixture's path" |
| `parity.py:301` scores an unlisted, untranslated directory as matching | `parity.py:85-87` |

## 6. Not modelled

* Index and schema text, `CountNodes` and the test accessors: reads and constants.
* `StaticGate`, `StaticLedger`, `StaticConnectionProvider` and `NullSink` return what
  they were given, or nothing; the vocabularies of graph and ledger are closed
  enumerations, of which the modules use the values they need.
* The clock seam, the capability flags and the ported text helpers: constants
  and pure functions of one text. Canonical text is a function of its argument;
  `SealedLedger` uses it as an injective document.
* Of the translators, the tables of severities and categories, the messages and
  the event times. A severity is the vendor's, marked with its source.
* Of `SealInput`, the forbidden keys and the copying of the payload: the payload
  is one value, and what Python does with nested lists and tuples of the caller
  has no counterpart in it.
* Which patterns and keys redaction lists, as opposed to what is done with them;
  formatting and logging everywhere.
* Keys that hold a `.` or a `[`: `redact` keys its marks by the joined path
  (`redaction.py:332`), where such a key can take another leaf's place. Likewise
  tenants and ids with a `/`, which `uid` joins with one; the modules' sequences keep
  them apart.
* The test of a row's algorithm in `verify` (`seal.py:103-108`) and of the harness's
  tenant in `compare` (`parity.py:327`): each can only refuse more, and the models
  have one algorithm and one tenant there. The one key that a `MemoryLedger` seals all
  its tenants' chains with; the model gives each chain its own.
* The source a `Tenant` carries beside its name, which nothing in the repository
  reads.

## 7. Plan

Done, in this order: script execution and its contract; device checks over it;
the ledger; the graph operations, ingest and in-memory driver; the gate;
redaction; parity; the lookups, details and recheck of a job; the translators,
messages and their way to the graph; tenancy and connections; proofs for all of
these.

Next:

1. The payload of `SealInput` in `SealedLedger`: forbidden keys in nested values,
   and the aliasing of nested lists.
2. A composed run of checks over `FleetExecution` itself, in place of its
   contract.
