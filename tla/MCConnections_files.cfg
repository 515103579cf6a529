SPECIFICATION Spec
CONSTANTS
    axo = axo
    quill = quill
    Adapters <- MCAdapters
    ProductOf <- MCProductOf
    Tools = {"fleet"}
    Contents <- MCContents
    Unreadable = unreadable
    Values <- MCValues
    NoValue = none
    Stripped <- MCStripped
    ProductNames = {"axo", "quill"}
    SecretLike = {"BEGIN"}
    Nothing = nothing
INVARIANTS
    AnswersAreTheFiles
    OneSpellingPerTenant
