\* Four requests that name records, each after the other and after the
\* ingestion the other may have started.
SPECIFICATION Spec
CONSTANTS
  a = a
  b = b
  n1 = n1
  n2 = n2
  n3 = n3
  n2s = n2s
  p = p
  Requests = {r1, r2, r3, r4}
  Ids = {a, b}
  Names <- MCNames
  Simplified <- MCSimplified
  Dates = {1, 2, 3}
  Resolutions = {1, 2, 3}
  Products = {p}
  InitialCatalogs <- TwoRecords
  Calls <- NamingCalls
  Lockable = {}
  ExtractableEnabled = FALSE
  Turns = "settled"
  Faulty = TRUE
  Late = FALSE
  NoRecord = NoRecord
  NoCall = NoCall
  Undefined = Undefined
SYMMETRY Interchangeable
INVARIANTS
  NamesUnique
