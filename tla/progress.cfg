\* Two requests of every kind, valid or not, under fairness, with all faults.
SPECIFICATION FairSpec
CONSTANTS
  a = a
  b = b
  n1 = n1
  n2 = n2
  n3 = n3
  n2s = n2s
  p = p
  Requests = {r1, r2}
  Ids = {a}
  Names <- MCNames
  Simplified <- MCSimplified
  Dates = {1, 2, 3}
  Resolutions = {1, 2, 3}
  Products = {p}
  InitialCatalogs <- OneRecord
  Calls <- ProgressCalls
  Lockable = {n1, n2}
  ExtractableEnabled = TRUE
  Turns = "any"
  Faulty = TRUE
  Late = TRUE
  NoRecord = NoRecord
  NoCall = NoCall
  Undefined = Undefined
INVARIANTS
  IngestedIsValid
  DisorderExplained
  ClashExplained
PROPERTIES
  LockedWriteExplained
  EveryRequestEnds
  AcceptedDeletionRemoves
  AcceptedModelAppears
