\* Any three messages about two models, in any order; each is answered.
CONSTANTS
    None = None
    Calls = {c1, c2, c3}
    Models = {small, large}
SPECIFICATION FairSpec
INVARIANTS CoordinatorExcludes AdvertisedIsHeld NoOrphanWeights
PROPERTIES EveryCallEnds
CHECK_DEADLOCK FALSE
