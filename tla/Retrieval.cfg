CONSTANTS
  Docs = {d1, d2}
  Texts <- MCTexts
  Ranking <- MCRanking
  Utility <- MCUtility
  Typed <- MCTyped
  Carries <- MCCarries
  Batches <- MCBatches
  Limit <- MCLimit
  MaxWrites = 3
  MaxSearches = 1
SPECIFICATION SearchSpec
INVARIANTS BatchIsolation ScopeIsKept CarriersReachEvidence CitationShowsItsPassage
CHECK_DEADLOCK FALSE
