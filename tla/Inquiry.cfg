CONSTANTS
  Docs = {d1, d2}
  Contents <- MCContents
  Texts <- MCTexts
  Questions <- MCQuestions
  Askers = {a1, a2}
  MaxWrites = 2
SPECIFICATION Spec
INVARIANTS FactsAreCurrent MarkersStand RecordsAreCounted
SYMMETRY Symmetry
CHECK_DEADLOCK FALSE
