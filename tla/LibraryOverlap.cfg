\* Two overlapping calls of any kind, in any phase of the start-up.
CONSTANTS
    d1 = d1  d2 = d2  d3 = d3  text = text  mixed = mixed  scan = scan
    s1 = s1  s2 = s2  s3 = s3  r1 = r1  r2 = r2
    None = None
    Docs = {d1, d2}
    Contents = {text, mixed}
    Native <- MCNative
    Imaged <- MCImaged
    Unreadable = {}
    Slots = {s1, s2, s3}
    Requests = {r1, r2}
    Selections <- Singles
    UserCalls = {"ingest", "reindex", "replace", "remove"}
    CallPhases <- AnyPhase
    Concurrency = 3
    StoreMayFail = FALSE
    OldDocs <- NoOldDocs
    MaxCalls = 2
    MaxReloads = 0
SPECIFICATION ObservedSpec
INVARIANTS ProcessingIsExclusive NoStrandedRow
SYMMETRY SlotSymmetry
CHECK_DEADLOCK FALSE
