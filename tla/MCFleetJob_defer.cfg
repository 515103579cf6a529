SPECIFICATION Spec
CONSTANTS
    Hosts <- MCHosts
    Device = "h1"
    NoHost = "none"
    Prefix <- MCPrefix
    Named <- MCNamed
    PerPage = 2
INVARIANT
    DeferralIsHonest
