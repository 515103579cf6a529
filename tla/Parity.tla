-------------------------------- MODULE Parity --------------------------------
(***************************************************************************)
(* The parity harness (scripts/parity.py, with scripts/_axo_driver.py):    *)
(* the corpus of captured payloads, AXO's translations of them, PIL's, the *)
(* committed specification that an earlier invocation recorded, and what   *)
(* an invocation reports.  Between invocations fixtures come, go and       *)
(* break, AXO's checkout moves and PIL's port is edited; an invocation     *)
(* itself reads the files once and is one step.                            *)
(*                                                                         *)
(* A translation ends in a projection or raises an error type; two         *)
(* projections compare equal when every field but tenant_id does.          *)
(***************************************************************************)
EXTENDS Integers, FiniteSets

CONSTANTS Translators,  \* TRANSLATOR_TYPES, the sources PIL translates
          OutOfScope,   \* OUT_OF_SCOPE_SOURCES
          Fixtures,     \* the fixtures there can be, records as below
          Projections,  \* what a translation can return
          ErrorTypes,   \* and what it can raise
          MinPerSource, \* --min-per-source
          MaxChanges    \* bound: changes between invocations

\* A fixture's root is "captured" (fixtures/) or "synthetic" (fixtures/_synthetic/),
\* its source is a directory of that root, and its file is below that,
\* in a subdirectory or not: files are read in the order of their numbers.
ASSUME FixturesAssumption ==
    \A f \in Fixtures : /\ DOMAIN f = {"root", "source", "order", "name"}
                        /\ f.root \in {"captured", "synthetic"}
                        /\ f.order \in Nat
ASSUME FiniteAssumption == IsFiniteSet(Fixtures)
ASSUME BoundsAssumption == MinPerSource \in Nat /\ MaxChanges \in Nat
ASSUME OutOfScopeAssumption == OutOfScope \intersect Translators = {}

None == "none"

ASSUME ErrorTypesAssumption == None \notin ErrorTypes

Results == Projections \union ErrorTypes
Raised(r) == r \notin Projections

VARIABLES
    corpus,  \* corpus[f]: whether the file is there, and parses
    axo,     \* axo[f]: what AXO's checkout makes of f
    pil,     \* pil[f]: what PIL's translator makes of f
    golden,  \* golden[k]: the file of the committed specification at path k
    report,  \* how the latest invocation ended, None once anything changed since
    changes  \* bound: changes so far

vars == <<corpus, axo, pil, golden, report, changes>>

-----------------------------------------------------------------------------
(* The parts of an invocation. *)

\* golden_path: the source, and the last component of the fixture's path.
golden_path(f) == <<f.source, f.name>>

Keys == {golden_path(f) : f \in Fixtures}

\* Mutation: a broken file is collected and reported later.
collect_unreadable(root) ==
    {f \in Fixtures : f.root = root /\ corpus[f] # "absent" /\ f.source \notin OutOfScope}

\* Unreadable files and the directories that are out of scope are skipped.
collect_fixtures(root) ==
    {f \in Fixtures : f.root = root /\ corpus[f] = "readable" /\ f.source \notin OutOfScope}

\* The driver: a source it has no translator for is an error of its own.
run_axo(f) == IF f.source \in Translators THEN axo[f] ELSE "no AXO translator"

\* get_translator raises KeyError for a source it does not know.
run_pil(f) == IF f.source \in Translators THEN pil[f] ELSE "KeyError"

compare(f) ==
    IF Raised(run_axo(f)) \/ Raised(run_pil(f))
    THEN Raised(run_axo(f)) /\ Raised(run_pil(f))
    ELSE run_axo(f) = run_pil(f)

\* Mutation: errors are not held to the specification.
compare_to_goldenValues(f) ==
    golden[golden_path(f)] = None \/ Raised(run_axo(f))
        \/ golden[golden_path(f)] = run_axo(f)

\* A fixture without a file agrees.
compare_to_golden(f) ==
    golden[golden_path(f)] = None \/ golden[golden_path(f)] = run_axo(f)

\* Mutation: files are written in any order.
record_goldenUnordered(cases) ==
    [k \in Keys |->
        LET at == {f \in cases : golden_path(f) = k} IN
        IF at = {} THEN golden[k]
        ELSE IF report = "recorded" THEN run_axo(CHOOSE f \in at : \A g \in at : f.order <= g.order)
        ELSE run_axo(CHOOSE f \in at : \A g \in at : g.order <= f.order)]

\* Files are written in the order of the cases, so of the cases that share
\* a path the last stays.  No file is removed.
record_golden(cases) ==
    [k \in Keys |->
        LET at == {f \in cases : golden_path(f) = k} IN
        IF at = {} THEN golden[k]
        ELSE run_axo(CHOOSE f \in at : \A g \in at : g.order <= f.order)]

\* Mutation: files in the corpus are counted, not what was compared.
thinByFiles(cases) ==
    \E s \in Translators :
        Cardinality({f \in Fixtures : f.source = s /\ corpus[f] # "absent"}) < MinPerSource

thin(cases) == \E s \in Translators : Cardinality({f \in cases : f.source = s}) < MinPerSource

\* How main ends once the cases are compared.
Verdict(cases, demo, no_golden) ==
    IF ~no_golden /\ ~demo /\ \E f \in cases : ~compare_to_golden(f) THEN "drifted"
    ELSE IF \E f \in cases : ~compare(f) THEN "differs"
    ELSE IF ~demo /\ thin(cases) THEN "thin"
    ELSE IF demo THEN "demo"
    ELSE IF no_golden THEN "passed live" ELSE "PASSED"

-----------------------------------------------------------------------------
Init ==
    /\ corpus = [f \in Fixtures |-> "readable"]
    /\ \E r \in [Fixtures -> Results] : axo = r /\ pil = r
    /\ golden = [k \in Keys |-> None]
    /\ report = None
    /\ changes = 0

\* main.  Without cases it fails before AXO runs; the driver can fail.
Invoke(demo, no_golden, record) ==
    LET cases == collect_fixtures(IF demo THEN "synthetic" ELSE "captured") IN
    /\ UNCHANGED <<corpus, axo, pil, changes>>
    /\ \/ cases = {} /\ report' = "empty" /\ UNCHANGED golden
       \/ cases # {} /\ report' = "driver failed" /\ UNCHANGED golden
       \/ /\ cases # {} /\ record
          /\ golden' = record_golden(cases)
          /\ report' = IF demo THEN "recorded demo" ELSE "recorded"
       \/ /\ cases # {} /\ ~record
          /\ report' = Verdict(cases, demo, no_golden)
          /\ UNCHANGED golden

Change ==
    /\ changes < MaxChanges
    /\ changes' = changes + 1
    /\ report' = None

\* A payload is captured, a file is damaged, or a file is removed.
CorpusChanges(f) ==
    /\ Change
    /\ \E s \in {"absent", "readable", "unreadable"} : corpus' = [corpus EXCEPT ![f] = s]
    /\ UNCHANGED <<axo, pil, golden>>

\* AXO's normalisers, or what they import, change.
AxoMoves(f) ==
    /\ Change
    /\ \E r \in Results : axo' = [axo EXCEPT ![f] = r]
    /\ UNCHANGED <<corpus, pil, golden>>

\* PIL's translator changes.
PilMoves(f) ==
    /\ Change
    /\ \E r \in Results : pil' = [pil EXCEPT ![f] = r]
    /\ UNCHANGED <<corpus, axo, golden>>

Next ==
    \/ \E demo, no_golden, record \in BOOLEAN : Invoke(demo, no_golden, record)
    \/ \E f \in Fixtures : CorpusChanges(f) \/ AxoMoves(f) \/ PilMoves(f)

Spec == Init /\ [][Next]_vars

-----------------------------------------------------------------------------
Captured == {f \in Fixtures : f.root = "captured" /\ corpus[f] = "readable"}

(* "Byte-identical or it fails": after a pass, with the specification or     *)
(* without it, every readable captured payload of every source PIL           *)
(* translates is translated alike by both, and each of those sources has its *)
(* minimum of them.                                                          *)
PassIsParity ==
    report \in {"PASSED", "passed live"} =>
        \A s \in Translators :
            /\ Cardinality({f \in Captured : f.source = s}) >= MinPerSource
            /\ \A f \in Captured : f.source = s =>
                   pil[f] = axo[f] \/ (Raised(pil[f]) /\ Raised(axo[f]))

(* After a pass both do what the committed specification says, whatever      *)
(* happened to AXO since it was recorded: a change made to AXO and PIL alike *)
(* does not pass.  Where the specification says that a payload raises, AXO   *)
(* raises that very type, and PIL some error.                                *)
PassMeetsTheSpecification ==
    report = "PASSED" =>
        \A f \in Captured : f.source \in Translators /\ golden[golden_path(f)] # None =>
            /\ axo[f] = golden[golden_path(f)]
            /\ \/ pil[f] = golden[golden_path(f)]
               \/ Raised(pil[f]) /\ Raised(golden[golden_path(f)])

(* Recording is the only step that writes the specification, and a second    *)
(* recording of the same corpus, with nothing changed since the first, writes *)
(* the same files.                                                           *)
RecordingIsStable ==
    [][golden' # golden =>
        report' \in {"recorded", "recorded demo"} /\ report' # report]_vars
=============================================================================
