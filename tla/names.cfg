\* Requests that name records, one after the other, without waiting for the
\* ingestion jobs.
SPECIFICATION Spec
CONSTANTS
  a = a
  b = b
  n1 = n1
  n2 = n2
  n3 = n3
  n2s = n2s
  p = p
  Requests = {r1, r2}
  Ids = {a, b}
  Names <- MCNames
  Simplified <- MCSimplified
  Dates = {1, 2, 3}
  Resolutions = {1, 2, 3}
  Products = {p}
  InitialCatalogs <- TwoRecords
  Calls <- NamingCalls
  Lockable = {}
  ExtractableEnabled = TRUE
  Turns = "one"
  Faulty = FALSE
  Late = FALSE
  NoRecord = NoRecord
  NoCall = NoCall
  Undefined = Undefined
SYMMETRY Interchangeable
INVARIANTS
  NamesUnique
