\* Two callers and two documents, three calls in all.
CONSTANTS
    a1 = a1  a2 = a2  d1 = d1  d2 = d2
    Nothing = Nothing  Error = Error
    Cost = Cost  CostAgain = CostAgain  Date = Date  Owner = Owner
    Askers = {a1, a2}
    Docs = {d1, d2}
    Passages <- MCPassages
    Texts <- MCTexts
    KeyOf <- MCKeyOf
    Batches <- MCBatches
    MaxEntries = 2
    BatchSize = 2
    Inference = 1
    MaxCalls = 3
SPECIFICATION EmbedSpec
INVARIANTS VectorsAreTheirs
PROPERTIES EveryEmbeddingSettles
CHECK_DEADLOCK FALSE
