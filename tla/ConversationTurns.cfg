\* Both kinds of chat, three clicks of any kind at any time.
CONSTANTS
    local = local  cloud = cloud
    None = None
    Chats = {local, cloud}
    Assisted = {cloud}
    Documented = {local, cloud}
    Reviews = {cloud}
    Removable = {local, cloud}
    Slots = {s1, s2, s3}
    UserCalls = {"send", "regenerate", "edit", "switch", "open", "remove"}
    RetrievalFails = TRUE
    FollowUps = TRUE
    History <- TwoVersions
    MaxCalls = 3
SPECIFICATION FairSpec
INVARIANTS OneExchangePerRequest CloudAnswersAreJournalled
PROPERTIES NeverStuck TurnEnds
CHECK_DEADLOCK FALSE
