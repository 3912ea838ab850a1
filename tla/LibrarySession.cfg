\* One tab: files dropped, rebuilt and deleted, OPFS refusing any write, a reload at any point.
CONSTANTS
    d1 = d1  d2 = d2  d3 = d3  text = text  mixed = mixed  scan = scan
    s1 = s1  s2 = s2  s3 = s3  r1 = r1  r2 = r2
    None = None
    Docs = {d1, d2, d3}
    Contents = {text, mixed, scan}
    Native <- MCNative
    Imaged <- MCImaged
    Unreadable = {"folder"}
    Slots = {s1, s2}
    Requests = {r1}
    Selections <- NewFiles
    UserCalls = {"ingest", "reindex", "remove"}
    CallPhases <- OnceUp
    Concurrency = 3
    StoreMayFail = TRUE
    OldDocs <- OldScan
    MaxCalls = 2
    MaxReloads = 1
SPECIFICATION ObservedSpec
INVARIANTS IndexIsExact RemovedIsUnindexed
PROPERTIES IngestSettles ReadyStaysSearchable
CHECK_DEADLOCK FALSE
