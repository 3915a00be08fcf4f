\* One record and new models, three requests that interleave at every await;
\* whatever can fail fails; against the contract, too.
SPECIFICATION Spec
CONSTANTS
  a = a
  b = b
  n1 = n1
  n2 = n2
  n3 = n3
  n2s = n2s
  p = p
  Requests = {r1, r2, r3}
  Ids = {a}
  Names <- MCNames
  Simplified <- MCSimplified
  Dates = {1, 2, 3}
  Resolutions = {1, 2, 3}
  Products = {p}
  InitialCatalogs <- LifecycleCatalogs
  Calls <- LifecycleCalls
  Lockable = {n1}
  ExtractableEnabled = TRUE
  Turns = "any"
  Faulty = TRUE
  Late = TRUE
  NoRecord = NoRecord
  NoCall = NoCall
  Undefined = Undefined
SYMMETRY Interchangeable
INVARIANTS
  TypeOK
  AnswerTellsEffect
  UnmarkedDeletionExplained
  BeingDeletedExplained
  OnlyOvertakenAreStale
  DeletionInv
  SecondJobExplained
PROPERTIES
  OnlyOvertakenRewriteDoomed
  BestTerrainStays
  StuckForGood
  ImplementsContract
