SPECIFICATION Spec
CONSTANTS
    Translators = {"fleet", "sl1"}
    OutOfScope = {"sl1_poller"}
    Fixtures <- Corpus
    Projections = {p, q}
    ErrorTypes = {v, k}
    MinPerSource = 1
    MaxChanges = 2
SYMMETRY Symmetry
INVARIANTS
    PassIsParity
    PassMeetsTheSpecification
PROPERTY
    RecordingIsStable
