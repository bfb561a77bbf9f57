SPECIFICATION Spec
CONSTANTS
    Legacy <- MCLegacy
    Specs <- MCSpecs
    Worlds <- MCWorlds
    Releases <- MCReleases
    MaxChanges = 2
    MaxFaults = 1
INVARIANTS
    TypeOK
    VerdictOfAMoment
    StatusOfAMoment
    GaugesAgree
    NewerReleaseIsHigher
