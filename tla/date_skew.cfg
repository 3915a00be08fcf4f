\* Two updates of one date each that interleave.
SPECIFICATION Spec
CONSTANTS
  a = a
  b = b
  n1 = n1
  n2 = n2
  n3 = n3
  n2s = n2s
  p = p
  Requests = {r1, r2}
  Ids = {a}
  Names <- MCNames
  Simplified <- MCSimplified
  Dates = {1, 2, 3}
  Resolutions = {1, 2, 3}
  Products = {p}
  InitialCatalogs <- OneWideRecord
  Calls <- DateCalls
  Lockable = {}
  ExtractableEnabled = TRUE
  Turns = "any"
  Faulty = FALSE
  Late = FALSE
  NoRecord = NoRecord
  NoCall = NoCall
  Undefined = Undefined
SYMMETRY Interchangeable
INVARIANTS
  DatesOrdered
