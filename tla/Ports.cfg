CONSTANTS
    MaxPort = 4
    Instances = {i1, i2, i3}
    Settings <- MCSettings
    Foreign = {2}
SPECIFICATION FairSpec
INVARIANTS
    TypeOK
    CandidatesAsMeant
    NobodyGivesUp
    Discoverable
PROPERTIES
    StartsServe
