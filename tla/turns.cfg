\* Three requests about one record, one after the other, with faults; its
\* name may be locked at any time.
SPECIFICATION Spec
CONSTANTS
  a = a
  b = b
  n1 = n1
  n2 = n2
  n3 = n3
  n2s = n2s
  p = p
  Requests = {r1, r2, r3}
  Ids = {a}
  Names <- MCNames
  Simplified <- MCSimplified
  Dates = {1, 2, 3}
  Resolutions = {1, 2, 3}
  Products = {p}
  InitialCatalogs <- OneRecord
  Calls <- TurnCalls
  Lockable = {n1, n2}
  ExtractableEnabled = TRUE
  Turns = "one"
  Faulty = TRUE
  Late = FALSE
  NoRecord = NoRecord
  NoCall = NoCall
  Undefined = Undefined
SYMMETRY Interchangeable
INVARIANTS
  DatesOrdered
  OneDeleteJob
PROPERTIES
  DoomedIsFrozen
  PublishedStays
