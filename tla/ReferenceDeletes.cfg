SPECIFICATION Spec
CONSTANTS
  Doc <- Three
  Cases <- AllCases
  Batches <- Requests
  MaxDepth = 3
  MaxRepeats = 2
INVARIANTS
  NothingDangles
  OwnedDocumentsGo
  OnlyOwnedDocumentsGo
  RestrictionsHold
  RejectionsAreJustified
CHECK_DEADLOCK FALSE
