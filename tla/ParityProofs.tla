----------------------------- MODULE ParityProofs -----------------------------
(***************************************************************************)
(* What a pass of the parity harness is worth, for every set of sources,   *)
(* fixtures and outputs, however the corpus, AXO and PIL change in         *)
(* between.                                                                *)
(***************************************************************************)
EXTENDS Parity, FiniteSetTheorems, TLAPS

(* What main found when it reported a pass. *)
LEMMA PassedMeans ==
    ASSUME NEW demo \in BOOLEAN, NEW no_golden \in BOOLEAN, NEW record \in BOOLEAN,
           Invoke(demo, no_golden, record), report' \in {"PASSED", "passed live"}
    PROVE  /\ UNCHANGED <<corpus, axo, pil, golden>>
           /\ \A f \in collect_fixtures("captured") : compare(f)
           /\ ~thin(collect_fixtures("captured"))
           /\ report' = "PASSED" =>
                  \A f \in collect_fixtures("captured") : compare_to_golden(f)
<1> DEFINE cases == collect_fixtures(IF demo THEN "synthetic" ELSE "captured")
<1>1. /\ UNCHANGED <<corpus, axo, pil, golden>>
      /\ report' = Verdict(cases, demo, no_golden)
  BY DEF Invoke
<1>2. ~demo
  BY <1>1 DEF Verdict
<1>3. cases = collect_fixtures("captured")
  BY <1>2
<1> HIDE DEF cases
<1>4. /\ \A f \in cases : compare(f)
      /\ ~thin(cases)
      /\ report' = "PASSED" => \A f \in cases : compare_to_golden(f)
  BY <1>1, <1>2 DEF Verdict
<1> QED
  BY <1>1, <1>3, <1>4

(* Arithmetic, with the sets out of sight. *)
LEMMA NotLess == ASSUME NEW n \in Nat, NEW m \in Nat, ~(n < m) PROVE n >= m
OBVIOUS

(* A captured payload of a source PIL translates is a case. *)
LEMMA CapturedIsCollected ==
    \A f \in Captured : f.source \in Translators => f \in collect_fixtures("captured")
BY OutOfScopeAssumption DEF Captured, collect_fixtures

(* A change takes the report back. *)
LEMMA ChangeTakesBack ==
    ASSUME NEW f \in Fixtures, CorpusChanges(f) \/ AxoMoves(f) \/ PilMoves(f)
    PROVE  report' = None
BY DEF CorpusChanges, AxoMoves, PilMoves, Change

-----------------------------------------------------------------------------
(* PassMeetsTheSpecification: after a pass AXO does what the committed        *)
(* specification says, a recorded error by its type, and PIL does too, where *)
(* a payload that raises may raise any error.                                *)
THEOREM SpecificationMet == Spec => []PassMeetsTheSpecification
<1>1. Init => PassMeetsTheSpecification
  BY DEF Init, PassMeetsTheSpecification, None
<1>2. PassMeetsTheSpecification /\ [Next]_vars => PassMeetsTheSpecification'
  <2> SUFFICES ASSUME PassMeetsTheSpecification, [Next]_vars
               PROVE  PassMeetsTheSpecification'
    OBVIOUS
  <2>1. ASSUME NEW demo \in BOOLEAN, NEW no_golden \in BOOLEAN, NEW record \in BOOLEAN,
               Invoke(demo, no_golden, record)
        PROVE  PassMeetsTheSpecification'
    <3> SUFFICES ASSUME report' = "PASSED", NEW f \in Captured', f.source \in Translators,
                        golden'[golden_path(f)] # None
                 PROVE  /\ axo'[f] = golden'[golden_path(f)]
                        /\ \/ pil'[f] = golden'[golden_path(f)]
                           \/ Raised(pil'[f]) /\ Raised(golden'[golden_path(f)])
      BY DEF PassMeetsTheSpecification, golden_path, Raised
    <3>1. /\ UNCHANGED <<corpus, axo, pil, golden>>
          /\ f \in collect_fixtures("captured")
      BY <2>1, PassedMeans, CapturedIsCollected DEF Captured
    <3>2. compare_to_golden(f) /\ compare(f)
      BY <2>1, <3>1, PassedMeans
    <3> QED
      BY <3>1, <3>2 DEF compare_to_golden, compare, run_axo, run_pil
  <2>2. ASSUME NEW f \in Fixtures, CorpusChanges(f) \/ AxoMoves(f) \/ PilMoves(f)
        PROVE  PassMeetsTheSpecification'
    BY <2>2, ChangeTakesBack DEF PassMeetsTheSpecification, None
  <2>3. CASE UNCHANGED vars
    BY <2>3 DEF vars, PassMeetsTheSpecification, Captured, golden_path, Raised
  <2> QED
    BY <2>1, <2>2, <2>3 DEF Next
<1> QED
  BY <1>1, <1>2, PTL DEF Spec

(* PassIsParity: after a pass every readable captured payload of every       *)
(* source is translated alike, and each source has its minimum.              *)
THEOREM PassesAreParity == Spec => []PassIsParity
<1>1. Init => PassIsParity
  BY DEF Init, PassIsParity, None
<1>2. PassIsParity /\ [Next]_vars => PassIsParity'
  <2> SUFFICES ASSUME PassIsParity, [Next]_vars
               PROVE  PassIsParity'
    OBVIOUS
  <2>1. ASSUME NEW demo \in BOOLEAN, NEW no_golden \in BOOLEAN, NEW record \in BOOLEAN,
               Invoke(demo, no_golden, record)
        PROVE  PassIsParity'
    <3> SUFFICES ASSUME report' \in {"PASSED", "passed live"}, NEW s \in Translators
                 PROVE  /\ Cardinality({f \in Captured' : f.source = s}) >= MinPerSource
                        /\ \A f \in Captured' : f.source = s =>
                               pil'[f] = axo'[f] \/ (Raised(pil'[f]) /\ Raised(axo'[f]))
      BY DEF PassIsParity, Raised
    <3>1. UNCHANGED <<corpus, axo, pil, golden>> /\ Captured' = Captured
      BY <2>1, PassedMeans DEF Captured
    <3>2. {f \in Captured : f.source = s} =
          {f \in collect_fixtures("captured") : f.source = s}
      BY OutOfScopeAssumption DEF Captured, collect_fixtures
    <3>3. Cardinality({f \in Captured : f.source = s}) >= MinPerSource
      <4> DEFINE compared == Cardinality({f \in collect_fixtures("captured") : f.source = s})
      <4>1. ~(compared < MinPerSource)
        BY <2>1, PassedMeans DEF thin
      <4>2. compared \in Nat
        BY FiniteAssumption, FS_Subset, FS_CardinalityType DEF collect_fixtures
      <4>3. compared = Cardinality({f \in Captured : f.source = s})
        BY <3>2
      <4> HIDE DEF compared
      <4>4. compared >= MinPerSource
        BY <4>1, <4>2, NotLess, BoundsAssumption
      <4>5. Cardinality({f \in Captured : f.source = s}) = compared
        BY <4>3
      <4> QED
        BY <4>4, <4>5
    <3>4. ASSUME NEW f \in Captured, f.source = s
          PROVE  pil[f] = axo[f] \/ (Raised(pil[f]) /\ Raised(axo[f]))
      BY <2>1, <3>4, PassedMeans, CapturedIsCollected DEF compare, run_axo, run_pil
    <3> QED
      BY <3>1, <3>3, <3>4
  <2>2. ASSUME NEW f \in Fixtures, CorpusChanges(f) \/ AxoMoves(f) \/ PilMoves(f)
        PROVE  PassIsParity'
    BY <2>2, ChangeTakesBack DEF PassIsParity, None
  <2>3. CASE UNCHANGED vars
    BY <2>3 DEF vars, PassIsParity, Captured, Raised
  <2> QED
    BY <2>1, <2>2, <2>3 DEF Next
<1> QED
  BY <1>1, <1>2, PTL DEF Spec

-----------------------------------------------------------------------------
(* RecordingIsStable.  The report remembers what was recorded: as long as it  *)
(* says so nothing has changed, and the specification is what recording the  *)
(* same cases again would write.                                             *)

(* Of the cases at a path, the one whose file stays.                         *)
Last(cases, k) ==
    LET at == {f \in cases : golden_path(f) = k}
    IN  CHOOSE f \in at : \A g \in at : g.order <= f.order

(* The file at path k after the cases are recorded over g, AXO's outputs x.  *)
FileAt(cases, k, g, x) ==
    IF {f \in cases : golden_path(f) = k} = {} THEN g[k]
    ELSE IF Last(cases, k).source \in Translators THEN x[Last(cases, k)]
    ELSE "no AXO translator"

Recorded(cases, g, x) == [k \in Keys |-> FileAt(cases, k, g, x)]

RecordedInv ==
    /\ report = "recorded" =>
          golden = Recorded(collect_fixtures("captured"), golden, axo)
    /\ report = "recorded demo" =>
          golden = Recorded(collect_fixtures("synthetic"), golden, axo)

LEMMA RecordingIs ==
    ASSUME NEW cases
    PROVE  record_golden(cases) = Recorded(cases, golden, axo)
<1> DEFINE file(k) == LET at == {f \in cases : golden_path(f) = k} IN
               IF at = {} THEN golden[k]
               ELSE run_axo(CHOOSE f \in at : \A g \in at : g.order <= f.order)
           last(k) == IF {f \in cases : golden_path(f) = k} = {} THEN golden[k]
                      ELSE run_axo(Last(cases, k))
<1>1. record_golden(cases) = [k \in Keys |-> file(k)]
  BY Zenon DEF record_golden
<1>2. ASSUME NEW k PROVE file(k) = last(k)
  BY Zenon DEF Last
<1> HIDE DEF file
<1>3. ASSUME NEW k PROVE last(k) = FileAt(cases, k, golden, axo)
  BY DEF FileAt, run_axo
<1> HIDE DEF last
<1> QED
  BY <1>1, <1>2, <1>3 DEF Recorded

(* Recording the same cases a second time writes what is there already.      *)
LEMMA RecordingTwice ==
    ASSUME NEW cases, NEW g, NEW x
    PROVE  Recorded(cases, Recorded(cases, g, x), x) = Recorded(cases, g, x)
<1> DEFINE h == Recorded(cases, g, x)
<1>1. ASSUME NEW k \in Keys
      PROVE  FileAt(cases, k, h, x) = FileAt(cases, k, g, x)
  <2>1. h[k] = FileAt(cases, k, g, x)
    BY DEF Recorded
  <2> HIDE DEF h
  <2> QED
    BY <2>1 DEF FileAt
<1> HIDE DEF h
<1>2. Recorded(cases, h, x) = Recorded(cases, g, x)
  BY <1>1 DEF Recorded
<1> QED
  BY <1>2 DEF h

(* An invocation records what it collects, or leaves the specification alone. *)
LEMMA InvokeRecords ==
    ASSUME NEW demo \in BOOLEAN, NEW no_golden \in BOOLEAN, NEW record \in BOOLEAN,
           Invoke(demo, no_golden, record)
    PROVE  LET cases == collect_fixtures(IF demo THEN "synthetic" ELSE "captured") IN
           /\ UNCHANGED <<corpus, axo>>
           /\ \/ /\ golden' = golden
                 /\ report' \notin {"recorded", "recorded demo"}
              \/ /\ golden' = record_golden(cases)
                 /\ report' = IF demo THEN "recorded demo" ELSE "recorded"
BY DEF Invoke, Verdict

(* A step keeps RecordedInv and is one that RecordingIsStable allows.        *)
LEMMA RecordingStep ==
    ASSUME RecordedInv, [Next]_vars
    PROVE  /\ RecordedInv'
           /\ golden' # golden => /\ report' \in {"recorded", "recorded demo"}
                                  /\ report' # report
<1>1. ASSUME NEW demo \in BOOLEAN, NEW no_golden \in BOOLEAN, NEW record \in BOOLEAN,
             Invoke(demo, no_golden, record)
      PROVE  /\ RecordedInv'
             /\ golden' # golden => /\ report' \in {"recorded", "recorded demo"}
                                    /\ report' # report
  <2> DEFINE root == IF demo THEN "synthetic" ELSE "captured"
             cases == collect_fixtures(root)
  <2>1. UNCHANGED <<corpus, axo>>
    BY <1>1, InvokeRecords
  <2>2. CASE golden' = golden /\ report' \notin {"recorded", "recorded demo"}
    BY <2>2 DEF RecordedInv
  <2>3. CASE /\ golden' = record_golden(cases)
             /\ report' = IF demo THEN "recorded demo" ELSE "recorded"
    <3>1. golden' = Recorded(cases, golden, axo)
      BY <2>3, RecordingIs
    <3>2. golden' = Recorded(cases, golden', axo)
      BY <3>1, RecordingTwice
    <3>3. collect_fixtures("captured")' = collect_fixtures("captured")
          /\ collect_fixtures("synthetic")' = collect_fixtures("synthetic")
      BY <2>1 DEF collect_fixtures
    <3>4. RecordedInv'
      BY <2>1, <2>3, <3>2, <3>3 DEF RecordedInv
    <3>5. report' = report => golden' = golden
      BY <2>3, <3>1 DEF RecordedInv
    <3> QED
      BY <2>3, <3>4, <3>5
  <2> QED
    BY <1>1, <2>2, <2>3, InvokeRecords
<1>2. ASSUME NEW f \in Fixtures, CorpusChanges(f) \/ AxoMoves(f) \/ PilMoves(f)
      PROVE  RecordedInv' /\ golden' = golden
  <2>1. report' = None /\ golden' = golden
    BY <1>2, ChangeTakesBack DEF CorpusChanges, AxoMoves, PilMoves
  <2> QED
    BY <2>1 DEF RecordedInv, None
<1>3. CASE UNCHANGED vars
  BY <1>3 DEF vars, RecordedInv, collect_fixtures
<1> QED
  BY <1>1, <1>2, <1>3 DEF Next

(* Recording is the only step that writes the specification, and a second    *)
(* recording with nothing changed since the first writes the same files.     *)
THEOREM RecordingsAgree == Spec => RecordingIsStable
<1>1. Init => RecordedInv
  BY DEF Init, RecordedInv, None
<1>2. RecordedInv /\ [Next]_vars => RecordedInv'
  BY RecordingStep
<1>3. RecordedInv /\ [Next]_vars =>
          [golden' # golden =>
              report' \in {"recorded", "recorded demo"} /\ report' # report]_vars
  BY RecordingStep
<1> QED
  BY <1>1, <1>2, <1>3, PTL DEF Spec, RecordingIsStable
=============================================================================
